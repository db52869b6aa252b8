---------------------------- MODULE WorkloadProofs ----------------------------
(***************************************************************************)
(* What holds of the six reconcilers beside the nodes for every set of     *)
(* specs, every number of generations, pods and faults, whatever the       *)
(* autoscaler asks for and whatever there is to read elsewhere.            *)
(***************************************************************************)
EXTENDS Workload, AppliedGenerationsProofs, SequenceTheorems, TLAPS

USE BoundsAssumption

-------------------------------------------------------------------------------
(* What a plan is: a sequence of steps that reads each Deployment once, and*)
(* that of a Gateway looks for chains before it writes its ConfigMap, and  *)
(* never again.                                                            *)

StepType == [do : {"put", "resolve", "read"}, part : Parts, what : Whats]

\* A piece of a plan reads the parts R, each of them once.
Reads(s, R) ==
    /\ s \in Seq(StepType)
    /\ \A i \in 1..Len(s) : s[i].do = "read" => s[i].part \in R
    /\ \A i, j \in 1..Len(s) :
         s[i].do = "read" /\ s[j].do = "read" /\ s[i].part = s[j].part => i = j

\* It looks for nothing elsewhere.
ResolvesNothing(s) ==
    /\ s \in Seq(StepType)
    /\ \A i \in 1..Len(s) : s[i].do # "resolve"

\* It looks for the chains, writes them, and looks for nothing any more.
ResolvesFirst(s) ==
    /\ s \in Seq(StepType)
    /\ Len(s) >= 2
    /\ s[1] = Resolve /\ s[2] = Put(0, "configmap")
    /\ \A i \in 2..Len(s) : s[i].do # "resolve"

LEMMA ReadsJoin ==
    ASSUME NEW R, NEW Q, NEW s, NEW t, Reads(s, R), Reads(t, Q), R \cap Q = {}
    PROVE  Reads(s \o t, R \cup Q)
  <1>1. /\ s \in Seq(StepType) /\ t \in Seq(StepType)
        /\ Len(s) \in Nat /\ Len(t) \in Nat
    BY LenProperties DEF Reads
  <1>2. /\ s \o t \in Seq(StepType)
        /\ Len(s \o t) = Len(s) + Len(t)
        /\ \A i \in 1..(Len(s) + Len(t)) :
             (s \o t)[i] = IF i <= Len(s) THEN s[i] ELSE t[i - Len(s)]
    BY <1>1, ConcatProperties
  <1>3. \A i \in 1..Len(s \o t) :
          \/ i \in 1..Len(s) /\ (s \o t)[i] = s[i]
          \/ i - Len(s) \in 1..Len(t) /\ (s \o t)[i] = t[i - Len(s)]
    BY <1>1, <1>2
  <1>4. \A i \in 1..Len(s \o t) :
          (s \o t)[i].do = "read" => (s \o t)[i].part \in R \cup Q
    BY <1>3 DEF Reads
  <1>5. ASSUME NEW i \in 1..Len(s \o t), NEW j \in 1..Len(s \o t),
               (s \o t)[i].do = "read", (s \o t)[j].do = "read",
               (s \o t)[i].part = (s \o t)[j].part
        PROVE  i = j
    <2>1. CASE i \in 1..Len(s) /\ (s \o t)[i] = s[i] 
      <3>1. s[i].part \in R
        BY <1>5, <2>1 DEF Reads
      <3>2. CASE j \in 1..Len(s) /\ (s \o t)[j] = s[j]
        BY <1>5, <2>1, <3>2 DEF Reads
      <3>3. CASE j - Len(s) \in 1..Len(t) /\ (s \o t)[j] = t[j - Len(s)]
        <4>1. t[j - Len(s)].part \in Q
          BY <1>5, <3>3 DEF Reads
        <4>2. QED
          BY <1>5, <2>1, <3>1, <3>3, <4>1
      <3>4. QED
        BY <1>3, <3>2, <3>3
    <2>2. CASE i - Len(s) \in 1..Len(t) /\ (s \o t)[i] = t[i - Len(s)]
      <3>1. t[i - Len(s)].part \in Q
        BY <1>5, <2>2 DEF Reads
      <3>2. CASE j \in 1..Len(s) /\ (s \o t)[j] = s[j]
        <4>1. s[j].part \in R
          BY <1>5, <3>2 DEF Reads
        <4>2. QED
          BY <1>5, <2>2, <3>1, <3>2, <4>1
      <3>3. CASE j - Len(s) \in 1..Len(t) /\ (s \o t)[j] = t[j - Len(s)]
        <4>1. i - Len(s) = j - Len(s)
          BY <1>5, <2>2, <3>3 DEF Reads
        <4>2. QED
          BY <1>1, <1>2, <4>1
      <3>4. QED
        BY <1>3, <3>2, <3>3
    <2>3. QED
      BY <1>3, <2>1, <2>2
  <1>6. QED
    BY <1>2, <1>4, <1>5 DEF Reads

\* The pieces that read nothing can be joined in any number.
LEMMA NoReadsJoin ==
    ASSUME NEW R, NEW s, NEW t, Reads(s, R), Reads(t, {})
    PROVE  Reads(s \o t, R)
  <1>1. Reads(s \o t, R \cup {})
    BY ReadsJoin
  <1>2. R \cup {} = R
    OBVIOUS
  <1>3. QED
    BY <1>1, <1>2

LEMMA PutReads ==
    ASSUME NEW part \in Parts, NEW what \in Whats
    PROVE  /\ Put(part, what) \in StepType
           /\ Reads(<<Put(part, what)>>, {})
  <1>1. Put(part, what) \in StepType /\ Put(part, what).do = "put"
    BY DEF Put, StepType
  <1>2. QED
    BY <1>1 DEF Reads

LEMMA ReadReads ==
    ASSUME NEW part \in Parts
    PROVE  Reads(<<Read(part)>>, {part})
  <1>1. Read(part) \in StepType /\ Read(part).part = part
    BY DEF Read, StepType, Whats
  <1>2. QED
    BY <1>1 DEF Reads

LEMMA ResolveReads == Resolve \in StepType /\ Reads(<<Resolve>>, {})
  <1>1. Resolve \in StepType /\ Resolve.do = "resolve"
    BY DEF Resolve, StepType, Parts, MaxSides, Whats
  <1>2. QED
    BY <1>1 DEF Reads

LEMMA NothingReads == Reads(<< >>, {})
  BY EmptySeq DEF Reads

\* The Deployment with its Service, the autoscaler and the Ingress read nothing.
LEMMA PiecesRead ==
    ASSUME NEW sp \in SpecType, NEW part \in Parts
    PROVE  /\ Reads(Served(part), {})
           /\ Reads(Scaled(sp, part), {})
           /\ Reads(Exposed(sp, part), {})
  <1>1. /\ "deployment" \in Whats /\ "service" \in Whats
        /\ "hpa" \in Whats /\ "ingress" \in Whats
    BY DEF Whats
  <1>2. Served(part) = <<Put(part, "deployment")>> \o <<Put(part, "service")>>
    BY DEF Served
  <1>3. QED
    BY <1>1, <1>2, PutReads, NothingReads, NoReadsJoin DEF Scaled, Exposed, If

LEMMA BrandReads ==
    ASSUME NEW sp \in SpecType, NEW i \in {1, 2}
    PROVE  Reads(Brand(sp, i), {i})
  <1>1. i \in Parts
    BY DEF Parts, MaxSides
  <1>2. /\ Reads(Served(i), {}) /\ Reads(Scaled(sp, i), {})
        /\ Reads(Exposed(sp, i), {}) /\ Reads(<<Read(i)>>, {i})
    BY <1>1, PiecesRead, ReadReads
  <1>3. Reads(Served(i) \o Scaled(sp, i) \o Exposed(sp, i), {})
    BY <1>2, NoReadsJoin
  <1>4. Reads(Served(i) \o Scaled(sp, i) \o Exposed(sp, i) \o <<Read(i)>>, {} \cup {i})
    BY <1>2, <1>3, ReadsJoin
  <1>5. Reads(<< >>, {i})
    BY EmptySeq DEF Reads
  <1>6. {} \cup {i} = {i}
    OBVIOUS
  <1>7. QED
    BY <1>4, <1>5, <1>6 DEF Brand, If

LEMMA IndexerReads ==
    ASSUME NEW sp \in SpecType
    PROVE  Reads(IndexerPlan(sp), {0})
  <1>1. 0 \in Parts /\ "pvc" \in Whats
    BY DEF Parts, MaxSides, Whats
  <1>2. /\ Reads(<<Put(0, "pvc")>>, {}) /\ Reads(<<Resolve>>, {})
        /\ Reads(Served(0), {}) /\ Reads(Exposed(sp, 0), {})
        /\ Reads(<<Read(0)>>, {0})
    BY <1>1, PutReads, ResolveReads, PiecesRead, ReadReads
  <1>3. <<Put(0, "pvc"), Resolve>> = <<Put(0, "pvc")>> \o <<Resolve>>
    OBVIOUS
  <1>4. Reads(<<Put(0, "pvc"), Resolve>> \o Served(0) \o Exposed(sp, 0), {})
    BY <1>2, <1>3, NoReadsJoin
  <1>5. Reads(IndexerPlan(sp), {} \cup {0})
    BY <1>2, <1>4, ReadsJoin DEF IndexerPlan
  <1>6. {} \cup {0} = {0}
    OBVIOUS
  <1>7. QED
    BY <1>5, <1>6

LEMMA GatewayReads ==
    ASSUME NEW sp \in SpecType
    PROVE  Reads(GatewayPlan(sp), {0})
  <1>1. 0 \in Parts /\ "configmap" \in Whats
    BY DEF Parts, MaxSides, Whats
  <1>2. /\ Reads(<<Put(0, "configmap")>>, {}) /\ Reads(<<Resolve>>, {})
        /\ Reads(Served(0), {}) /\ Reads(Exposed(sp, 0), {})
        /\ Reads(<<Read(0)>>, {0})
    BY <1>1, PutReads, ResolveReads, PiecesRead, ReadReads
  <1>3. <<Resolve, Put(0, "configmap")>> = <<Resolve>> \o <<Put(0, "configmap")>>
    OBVIOUS
  <1>4. Reads(<<Resolve, Put(0, "configmap")>> \o Served(0) \o Exposed(sp, 0), {})
    BY <1>2, <1>3, NoReadsJoin
  <1>5. Reads(GatewayPlan(sp), {} \cup {0})
    BY <1>2, <1>4, ReadsJoin DEF GatewayPlan
  <1>6. {} \cup {0} = {0}
    OBVIOUS
  <1>7. QED
    BY <1>5, <1>6

\* The reads an Explorer and a Bridge end with.
LEMMA BothRead ==
    ASSUME NEW sp \in SpecType, NEW s, Reads(s, {})
    PROVE  Reads(s \o <<Read(0)>> \o If(sp.sides > 0, <<Read(1)>>), {0, 1})
  <1>1. 0 \in Parts /\ 1 \in Parts
    BY DEF Parts, MaxSides
  <1>2. Reads(<<Read(0)>>, {0}) /\ Reads(<<Read(1)>>, {1}) /\ Reads(<< >>, {1})
    BY <1>1, ReadReads, EmptySeq DEF Reads
  <1>3. Reads(s \o <<Read(0)>>, {} \cup {0})
    BY <1>2, ReadsJoin
  <1>4. ({} \cup {0}) \cup {1} = {0, 1} /\ ({} \cup {0}) \cap {1} = {}
    OBVIOUS
  <1>5. Reads(If(sp.sides > 0, <<Read(1)>>), {1})
    BY <1>2 DEF If
  <1>6. QED
    BY <1>3, <1>4, <1>5, ReadsJoin

LEMMA ExplorerReads ==
    ASSUME NEW sp \in SpecType
    PROVE  Reads(ExplorerPlan(sp), {0, 1})
  <1>1. 0 \in Parts /\ 1 \in Parts
    BY DEF Parts, MaxSides
  <1>2. /\ Reads(<<Resolve>>, {})
        /\ Reads(Served(0), {}) /\ Reads(If(sp.sides > 0, Served(1)), {})
        /\ Reads(Exposed(sp, 0), {})
    BY <1>1, ResolveReads, PiecesRead, NothingReads DEF If
  <1>3. Reads(<<Resolve>> \o Served(0) \o If(sp.sides > 0, Served(1)) \o Exposed(sp, 0), {})
    BY <1>2, NoReadsJoin
  <1>4. QED
    BY <1>3, BothRead DEF ExplorerPlan

LEMMA BridgeReads ==
    ASSUME NEW sp \in SpecType
    PROVE  Reads(BridgePlan(sp), {0, 1})
  <1>1. 0 \in Parts /\ 1 \in Parts
    BY DEF Parts, MaxSides
  <1>2. /\ Reads(Served(0), {}) /\ Reads(If(sp.sides > 0, Served(1)), {})
        /\ Reads(Exposed(sp, 0), {})
    BY <1>1, PiecesRead, NothingReads DEF If
  <1>3. Reads(Served(0) \o If(sp.sides > 0, Served(1)) \o Exposed(sp, 0), {})
    BY <1>2, NoReadsJoin
  <1>4. QED
    BY <1>3, BothRead DEF BridgePlan

LEMMA CloudReads ==
    ASSUME NEW sp \in SpecType
    PROVE  Reads(CloudPlan(sp), {0, 1, 2})
  <1> DEFINE api == Served(0) \o <<Put(0, "pdb")>> \o Scaled(sp, 0) \o Exposed(sp, 0)
  <1>1. 0 \in Parts /\ "pdb" \in Whats
    BY DEF Parts, MaxSides, Whats
  <1>2. /\ Reads(Served(0), {}) /\ Reads(<<Put(0, "pdb")>>, {})
        /\ Reads(Scaled(sp, 0), {}) /\ Reads(Exposed(sp, 0), {})
        /\ Reads(<<Read(0)>>, {0})
    BY <1>1, PiecesRead, PutReads, ReadReads
  <1>3. Reads(api, {})
    BY <1>2, NoReadsJoin
  <1>4. Reads(Brand(sp, 1), {1}) /\ Reads(Brand(sp, 2), {2})
    BY BrandReads
  <1> HIDE DEF api
  <1>5. Reads(api \o Brand(sp, 1), {} \cup {1})
    BY <1>3, <1>4, ReadsJoin
  <1>6. Reads(api \o Brand(sp, 1) \o Brand(sp, 2), ({} \cup {1}) \cup {2})
    <2>1. ({} \cup {1}) \cap {2} = {}
      OBVIOUS
    <2>2. QED
      BY <1>4, <1>5, <2>1, ReadsJoin
  <1>7. Reads(api \o Brand(sp, 1) \o Brand(sp, 2) \o <<Read(0)>>,
              (({} \cup {1}) \cup {2}) \cup {0})
    <2>1. (({} \cup {1}) \cup {2}) \cap {0} = {}
      OBVIOUS
    <2>2. QED
      BY <1>2, <1>6, <2>1, ReadsJoin
  <1>8. (({} \cup {1}) \cup {2}) \cup {0} = {0, 1, 2}
    OBVIOUS
  <1>9. QED
    BY <1>7, <1>8 DEF CloudPlan, api

LEMMA ChainReads ==
    ASSUME NEW sp \in SpecType
    PROVE  Reads(ChainPlan(sp), {})
  <1>1. 0 \in Parts /\ "configmap" \in Whats
    BY DEF Parts, MaxSides, Whats
  <1>2. QED
    BY <1>1, PutReads, NothingReads DEF ChainPlan, If

LEMMA ReadsWider ==
    ASSUME NEW s, NEW R, NEW Q, Reads(s, R), R \subseteq Q
    PROVE  Reads(s, Q)
  BY DEF Reads

\* Whatever the kind, a plan reads a Deployment at most once.
LEMMA PlanFacts ==
    ASSUME NEW sp \in Specs
    PROVE  /\ sp \in SpecType
           /\ PlanOf[sp] = Plan(sp)
           /\ Reads(PlanOf[sp], Parts)
           /\ PlanOf[sp] \in Seq(StepType)
           /\ Len(PlanOf[sp]) \in Nat
           /\ DOMAIN PlanOf[sp] = 1..Len(PlanOf[sp])
  <1>1. sp \in SpecType
    BY SpecsAssumption
  <1>2. PlanOf[sp] = Plan(sp)
    BY DEF PlanOf
  <1>3. {0, 1, 2} \subseteq Parts /\ {0, 1} \subseteq Parts /\ {0} \subseteq Parts
    BY DEF Parts, MaxSides
  <1>4. /\ Reads(IndexerPlan(sp), Parts) /\ Reads(GatewayPlan(sp), Parts)
        /\ Reads(ExplorerPlan(sp), Parts) /\ Reads(BridgePlan(sp), Parts)
        /\ Reads(ChainPlan(sp), Parts) /\ Reads(CloudPlan(sp), Parts)
    BY <1>1, <1>3, IndexerReads, GatewayReads, ExplorerReads, BridgeReads,
       ChainReads, CloudReads, ReadsWider
  <1>5. sp.kind \in {"Indexer", "Explorer", "Gateway", "Bridge", "Chain", "Cloud"}
    BY <1>1 DEF SpecType
  <1>6. Reads(Plan(sp), Parts)
    BY <1>4, <1>5 DEF Plan
  <1>7. QED
    BY <1>1, <1>2, <1>6, LenProperties DEF Reads

LEMMA ResolvesNothingJoin ==
    ASSUME NEW s, NEW t, ResolvesNothing(s), ResolvesNothing(t)
    PROVE  ResolvesNothing(s \o t)
  <1>1. /\ s \in Seq(StepType) /\ t \in Seq(StepType)
        /\ Len(s) \in Nat /\ Len(t) \in Nat
    BY LenProperties DEF ResolvesNothing
  <1>2. /\ s \o t \in Seq(StepType)
        /\ Len(s \o t) = Len(s) + Len(t)
        /\ \A i \in 1..(Len(s) + Len(t)) :
             (s \o t)[i] = IF i <= Len(s) THEN s[i] ELSE t[i - Len(s)]
    BY <1>1, ConcatProperties
  <1>3. \A i \in 1..Len(s \o t) :
          \/ i \in 1..Len(s) /\ (s \o t)[i] = s[i]
          \/ i - Len(s) \in 1..Len(t) /\ (s \o t)[i] = t[i - Len(s)]
    BY <1>1, <1>2
  <1>4. QED
    BY <1>2, <1>3 DEF ResolvesNothing

LEMMA ResolvesFirstJoin ==
    ASSUME NEW s, NEW t, ResolvesFirst(s), ResolvesNothing(t)
    PROVE  ResolvesFirst(s \o t)
  <1>1. /\ s \in Seq(StepType) /\ t \in Seq(StepType)
        /\ Len(s) \in Nat /\ Len(t) \in Nat /\ Len(s) >= 2
    BY LenProperties DEF ResolvesFirst, ResolvesNothing
  <1>2. /\ s \o t \in Seq(StepType)
        /\ Len(s \o t) = Len(s) + Len(t)
        /\ \A i \in 1..(Len(s) + Len(t)) :
             (s \o t)[i] = IF i <= Len(s) THEN s[i] ELSE t[i - Len(s)]
    BY <1>1, ConcatProperties
  <1>3. \A i \in 2..Len(s \o t) :
          \/ i \in 2..Len(s) /\ (s \o t)[i] = s[i]
          \/ i - Len(s) \in 1..Len(t) /\ (s \o t)[i] = t[i - Len(s)]
    BY <1>1, <1>2
  <1>4. (s \o t)[1] = s[1] /\ (s \o t)[2] = s[2]
    BY <1>1, <1>2
  <1>5. Len(s \o t) >= 2
    BY <1>1, <1>2
  <1>6. QED
    BY <1>2, <1>3, <1>4, <1>5 DEF ResolvesFirst, ResolvesNothing

\* A Gateway's routes are looked for and then written, once in a pass.
LEMMA GatewayPlanFacts ==
    ASSUME NEW sp \in Specs, sp.kind = "Gateway"
    PROVE  ResolvesFirst(PlanOf[sp])
  <1>1. sp \in SpecType /\ PlanOf[sp] = GatewayPlan(sp)
    BY PlanFacts DEF Plan
  <1>2. /\ 0 \in Parts
        /\ "configmap" \in Whats /\ "deployment" \in Whats
        /\ "service" \in Whats /\ "ingress" \in Whats
    BY DEF Parts, MaxSides, Whats
  <1>3. /\ Put(0, "configmap") \in StepType /\ Put(0, "configmap").do = "put"
        /\ Put(0, "deployment") \in StepType /\ Put(0, "deployment").do = "put"
        /\ Put(0, "service") \in StepType /\ Put(0, "service").do = "put"
        /\ Put(0, "ingress") \in StepType /\ Put(0, "ingress").do = "put"
        /\ Read(0) \in StepType /\ Read(0).do = "read"
        /\ Resolve \in StepType
    BY <1>2, ResolveReads DEF Put, Read, StepType
  <1>4. ResolvesFirst(<<Resolve, Put(0, "configmap")>>)
    <2> DEFINE head == <<Resolve, Put(0, "configmap")>>
    <2>1. head \in Seq(StepType) /\ Len(head) = 2
      BY <1>3
    <2>2. head[1] = Resolve /\ head[2] = Put(0, "configmap")
      OBVIOUS
    <2> HIDE DEF head
    <2>3. \A i \in 2..Len(head) : head[i].do # "resolve"
      BY <1>3, <2>1, <2>2
    <2>4. ResolvesFirst(head)
      BY <2>1, <2>2, <2>3 DEF ResolvesFirst
    <2>5. QED
      BY <2>4 DEF head
  <1>5. /\ ResolvesNothing(<<Put(0, "deployment")>>)
        /\ ResolvesNothing(<<Put(0, "service")>>)
        /\ ResolvesNothing(<<Put(0, "ingress")>>)
        /\ ResolvesNothing(<<Read(0)>>)
        /\ ResolvesNothing(<< >>)
    BY <1>3, EmptySeq DEF ResolvesNothing
  <1>6. Served(0) = <<Put(0, "deployment")>> \o <<Put(0, "service")>>
    BY DEF Served
  <1>7. ResolvesNothing(Served(0)) /\ ResolvesNothing(Exposed(sp, 0))
    BY <1>5, <1>6, ResolvesNothingJoin DEF Exposed, If
  <1>8. ResolvesFirst(GatewayPlan(sp))
    BY <1>4, <1>5, <1>7, ResolvesFirstJoin DEF GatewayPlan
  <1>9. QED
    BY <1>1, <1>8

-------------------------------------------------------------------------------
(* The status a pass ends with.                                            *)

Kinds == {"Indexer", "Explorer", "Gateway", "Bridge", "Chain", "Cloud"}

\* SetCondition stays within the conditions.
LEMMA SetReady ==
    ASSUME NEW conds \in [ConditionTypes -> Condition(Reasons)],
           NEW s \in {"True", "False"}, NEW reason \in Reasons, NEW message \in Nat
    PROVE  SetCondition(conds, "Ready", s, reason, message)
             \in [ConditionTypes -> Condition(Reasons)]
  <1>1. [status |-> s, reason |-> reason, message |-> message] \in Condition(Reasons)
    BY DEF Condition
  <1>2. QED
    BY <1>1 DEF SetCondition

\* A status that reports the generation and the routes another one does.
Reports(st, g, routes) ==
    st \in StatusType /\ st.observed = g /\ st.routes = routes

LEMMA JudgedReports ==
    ASSUME NEW g, NEW routes, NEW st, Reports(st, g, routes),
           NEW phase \in Phases, NEW isReady \in BOOLEAN,
           NEW reason \in Reasons, NEW message \in Nat
    PROVE  Reports(Judged(st, phase, isReady, reason, message), g, routes)
  <1> DEFINE s == IF isReady THEN "True" ELSE "False"
             conds == SetCondition(st.conds, "Ready", s, reason, message)
  <1>1. s \in {"True", "False"}
    OBVIOUS
  <1>2. st.conds \in [ConditionTypes -> Condition(Reasons)]
    BY DEF Reports, StatusType
  <1> HIDE DEF s
  <1>3. conds \in [ConditionTypes -> Condition(Reasons)]
    BY <1>1, <1>2, SetReady
  <1>4. Judged(st, phase, isReady, reason, message)
          = [st EXCEPT !.phase = phase, !.conds = conds]
    BY DEF Judged, s
  <1> HIDE DEF conds
  <1>5. Reports([st EXCEPT !.phase = phase, !.conds = conds], g, routes)
    BY <1>3 DEF Reports, StatusType
  <1>6. QED
    BY <1>4, <1>5

LEMMA UpOrNotReports ==
    ASSUME NEW g, NEW routes, NEW st, Reports(st, g, routes),
           NEW isUp \in BOOLEAN, NEW message \in Nat
    PROVE  Reports(UpOrNot(st, isUp, message), g, routes)
  <1>1. /\ "Running" \in Phases /\ "Creating" \in Phases
        /\ "Ready" \in Reasons /\ "NotReady" \in Reasons
        /\ NoCount \in Nat
    BY DEF Phases, Reasons, NoCount
  <1>2. /\ Reports(Judged(st, "Running", TRUE, "Ready", NoCount), g, routes)
        /\ Reports(Judged(st, "Creating", FALSE, "NotReady", message), g, routes)
    BY <1>1, JudgedReports
  <1>3. QED
    BY <1>2 DEF UpOrNot

\* The status of every kind reports the generation of the pass, and a Gateway's
\* the routes of the chains the pass found, by name.
LEMMA FinalStatusReports ==
    ASSUME NEW w, NEW sp \in SpecType, kind \in Kinds,
           w.status \in StatusType, w.gen \in 0..MaxGen, w.input \in Inputs,
           w.web \in Counts
    PROVE  Reports(FinalStatus(w, sp), w.gen,
                   IF kind = "Gateway" THEN ChainRouteMap(Found(w.input))
                                       ELSE w.status.routes)
  <1> DEFINE st == [w.status EXCEPT !.observed = w.gen]
             routes == w.status.routes
  <1>1. Reports(st, w.gen, routes)
    BY DEF Reports, StatusType
  <1>2. st.ready \in Nat /\ NoCount \in Nat
    BY <1>1 DEF Reports, StatusType, NoCount
  <1>3. CASE kind = "Indexer"
    <2>1. FinalStatus(w, sp) = UpOrNot(st, st.ready >= 1, NoCount)
      BY <1>3 DEF FinalStatus, IndexerStatus
    <2> HIDE DEF st, routes
    <2>2. (st.ready >= 1) \in BOOLEAN
      OBVIOUS
    <2>3. Reports(UpOrNot(st, st.ready >= 1, NoCount), w.gen, routes)
      BY <1>1, <1>2, <2>2, UpOrNotReports
    <2>4. QED
      BY <1>3, <2>1, <2>3 DEF routes
  <1>4. CASE kind = "Gateway"
    <2> DEFINE routed == ChainRouteMap(Found(w.input))
               told == [st EXCEPT !.routes = routed]
    <2>1. FinalStatus(w, sp) = UpOrNot(told, st.ready = sp.replicas, st.ready)
      BY <1>4 DEF FinalStatus, GatewayStatus
    <2>2. Reports(told, w.gen, routed)
      <3>1. routed \in ChainRouteMaps
        BY DEF ChainRouteMaps
      <3> HIDE DEF st, routed
      <3>2. QED
        BY <1>1, <3>1 DEF Reports, StatusType
    <2> HIDE DEF st, told, routed
    <2>3. (st.ready = sp.replicas) \in BOOLEAN
      OBVIOUS
    <2>4. Reports(UpOrNot(told, st.ready = sp.replicas, st.ready), w.gen, routed)
      BY <1>2, <2>2, <2>3, UpOrNotReports
    <2>5. QED
      BY <1>4, <2>1, <2>4 DEF routed
  <1>5. CASE kind \in {"Explorer", "Bridge"}
    <2> DEFINE full == IF sp.sides > 0 THEN st ELSE [st EXCEPT !.up[1] = TRUE]
               isUp == full.up[0] /\ full.up[1]
    <2>1. FinalStatus(w, sp) = UpOrNot(full, isUp, NoCount)
      BY <1>5 DEF FinalStatus, BothUp
    <2>2. Reports(full, w.gen, routes)
      <3> HIDE DEF st, routes
      <3>1. CASE sp.sides > 0
        BY <1>1, <3>1
      <3>2. Reports([st EXCEPT !.up[1] = TRUE], w.gen, routes)
        BY <1>1 DEF Reports, StatusType
      <3>3. QED
        BY <3>1, <3>2
    <2>3. isUp \in BOOLEAN
      OBVIOUS
    <2> HIDE DEF st, full, isUp, routes
    <2>4. Reports(UpOrNot(full, isUp, NoCount), w.gen, routes)
      BY <1>2, <2>2, <2>3, UpOrNotReports
    <2>5. QED
      BY <1>5, <2>1, <2>4 DEF routes
  <1>6. CASE kind = "Chain"
    <2> DEFINE phase == IF st.phase = "" THEN "Running" ELSE st.phase
    <2>1. FinalStatus(w, sp) = Judged(st, phase, TRUE, "Configured", NoCount)
      BY <1>6 DEF FinalStatus, ChainStatus
    <2> HIDE DEF st, routes
    <2>2. phase \in Phases /\ "Configured" \in Reasons
      BY <1>1 DEF Reports, StatusType, Phases, Reasons
    <2> HIDE DEF phase
    <2>3. Reports(Judged(st, phase, TRUE, "Configured", NoCount), w.gen, routes)
      BY <1>1, <1>2, <2>2, JudgedReports
    <2>4. QED
      BY <1>6, <2>1, <2>3 DEF routes
  <1>7. CASE kind = "Cloud"
    <2> DEFINE told == [st EXCEPT !.web = w.web]
               all == st.ready >= sp.replicas /\ w.web >= sp.web * sp.sides
               some == st.ready > 0 \/ w.web > 0
    <2>1. FinalStatus(w, sp) =
            CASE all -> Judged(told, "Running", TRUE, "Ready", NoCount)
              [] some /\ ~all ->
                   Judged(told, "Bootstrapping", FALSE, "Bootstrapping", st.ready)
              [] OTHER -> Judged(told, "Creating", FALSE, "Creating", NoCount)
      BY <1>7 DEF FinalStatus, CloudStatus
    <2>2. Reports(told, w.gen, routes)
      <3> HIDE DEF st, routes
      <3>1. QED
        BY <1>1 DEF Reports, StatusType
    <2>3. /\ "Running" \in Phases /\ "Bootstrapping" \in Phases /\ "Creating" \in Phases
          /\ "Ready" \in Reasons /\ "Bootstrapping" \in Reasons /\ "Creating" \in Reasons
      BY DEF Phases, Reasons
    <2> HIDE DEF told, st, all, some, routes
    <2>4. /\ Reports(Judged(told, "Running", TRUE, "Ready", NoCount), w.gen, routes)
          /\ Reports(Judged(told, "Bootstrapping", FALSE, "Bootstrapping", st.ready),
                     w.gen, routes)
          /\ Reports(Judged(told, "Creating", FALSE, "Creating", NoCount), w.gen, routes)
      BY <1>2, <2>2, <2>3, JudgedReports
    <2>5. Reports(FinalStatus(w, sp), w.gen, routes)
      BY <2>1, <2>4, Zenon
    <2>6. QED
      BY <1>7, <2>5 DEF routes
  <1>8. QED
    BY <1>3, <1>4, <1>5, <1>6, <1>7 DEF Kinds

-------------------------------------------------------------------------------
(* Types.                                                                  *)

WorkType == [gen : Generations, base : StatusType, status : StatusType,
             at : Nat, input : Inputs, web : Counts]

\* All generations are of one kind.
OneKind == \A g \in Generations : specOf[g].kind = kind

\* Where a pass is in its plan.
Positioned ==
    /\ pc = "idle" => work = NoWork
    /\ pc = "pass" => work.at \in 1..Len(PlanOf[spec])
    /\ pc = "write" => work.at = Len(PlanOf[spec]) + 1

\* What the steps before step n of a plan can have counted of a brand.
Tally(plan, n, part) ==
    IF \E i \in 1..(n - 1) : plan[i].do = "read" /\ plan[i].part = part
    THEN MaxPods ELSE 0

\* The ready pods counted so far are those of the brands read so far.
WebCounted ==
    work.web <= Tally(PlanOf[spec], work.at, 1) + Tally(PlanOf[spec], work.at, 2)

Typed == TypeOK /\ OneKind /\ Positioned /\ WebCounted

LEMMA NoWorkType == NoStatus \in StatusType /\ NoWork \in WorkType
  <1>1. NoStatus.conds \in [ConditionTypes -> Condition(Reasons)]
    BY DEF NoStatus, NoConditions, Unset, Condition, NoCount, Reasons
  <1>2. /\ NoStatus.up \in [{0, 1} -> BOOLEAN]
        /\ NoStatus.routes \in ChainRouteMaps
        /\ NoStatus.phase \in Phases
        /\ NoStatus.observed \in 0..MaxGen
        /\ NoStatus.ready \in 0..MaxPods
        /\ NoStatus.web \in Counts
    BY DEF NoStatus, Inputs, ChainRouteMaps, Phases, Counts, MaxSides
  <1>3. NoStatus \in StatusType
    BY <1>1, <1>2 DEF StatusType, NoStatus
  <1>4. 0 \in Counts /\ 1 \in Generations /\ None \in Inputs
    BY DEF Counts, MaxSides, Generations, Inputs
  <1>5. QED
    BY <1>3, <1>4 DEF NoWork, WorkType

LEMMA SpecFacts ==
    ASSUME Typed
    PROVE  /\ spec \in Specs /\ spec \in SpecType
           /\ spec.kind = kind
           /\ kind \in Kinds
           /\ work.gen \in Generations
           /\ work \in WorkType
           /\ Reads(PlanOf[spec], Parts)
           /\ Len(PlanOf[spec]) \in Nat
           /\ DOMAIN PlanOf[spec] = 1..Len(PlanOf[spec])
  <1>1. work \in WorkType /\ work.gen \in Generations
    BY DEF Typed, TypeOK, WorkType
  <1>2. spec \in Specs
    BY <1>1 DEF Typed, TypeOK, spec
  <1>3. spec \in SpecType
    BY <1>2, SpecsAssumption
  <1>4. spec.kind = kind
    BY <1>1 DEF Typed, OneKind, spec
  <1>5. kind \in Kinds
    BY <1>3, <1>4 DEF SpecType, Kinds
  <1>6. QED
    BY <1>1, <1>2, <1>3, <1>4, <1>5, PlanFacts

\* The step a pass is at.
LEMMA StepFacts ==
    ASSUME Typed, pc = "pass"
    PROVE  /\ work.at \in 1..Len(PlanOf[spec])
           /\ Step \in StepType
           /\ Step = PlanOf[spec][work.at]
  <1>1. work.at \in 1..Len(PlanOf[spec])
    BY DEF Typed, Positioned
  <1>2. PlanOf[spec] \in Seq(StepType)
    BY SpecFacts DEF Reads
  <1>3. Step = PlanOf[spec][work.at]
    BY DEF Step
  <1>4. QED
    BY <1>1, <1>2, <1>3, ElementOfSeq

\* A pass that returns is idle and well typed.
LEMMA ReturnTyped ==
    ASSUME Typed, Return, specOf' = specOf
    PROVE  pc' = "idle" /\ work' \in WorkType /\ OneKind' /\ Positioned' /\ WebCounted'
  <1>1. pc' = "idle" /\ work' = NoWork
    BY DEF Return
  <1>2. OneKind'
    BY DEF Typed, OneKind, kind
  <1>3. WebCounted'
    <2>1. work'.web = 0
      BY <1>1 DEF NoWork
    <2>2. /\ Tally(PlanOf[spec'], work'.at, 1) \in Nat
          /\ Tally(PlanOf[spec'], work'.at, 2) \in Nat
      BY DEF Tally
    <2> DEFINE one == Tally(PlanOf[spec'], work'.at, 1)
               two == Tally(PlanOf[spec'], work'.at, 2)
    <2> HIDE DEF one, two
    <2>3. 0 <= one + two
      BY <2>2 DEF one, two
    <2>4. QED
      BY <2>1, <2>3 DEF WebCounted, one, two
  <1>4. QED
    BY <1>1, <1>2, <1>3, NoWorkType DEF Positioned

\* A pass that moves on by one step, its count of pods being within what it has
\* read by then.
LEMMA AdvanceTyped ==
    ASSUME Typed, pc = "pass", specOf' = specOf,
           NEW w \in WorkType, w.at = work.at, w.gen = work.gen, Advance(w),
           w.web <= Tally(PlanOf[spec], work.at + 1, 1)
                      + Tally(PlanOf[spec], work.at + 1, 2)
    PROVE  /\ pc' \in {"pass", "write"} /\ work' \in WorkType
           /\ spec' = spec /\ work'.gen = work.gen /\ work'.at = work.at + 1
           /\ work'.web = w.web /\ work'.input = w.input
           /\ OneKind' /\ Positioned' /\ WebCounted'
  <1>1. work.at \in 1..Len(PlanOf[spec]) /\ Len(PlanOf[spec]) \in Nat
    BY StepFacts, SpecFacts
  <1>2. w.at + 1 \in Nat
    BY DEF WorkType
  <1>3. /\ work' \in WorkType
        /\ work'.gen = work.gen /\ work'.at = work.at + 1
        /\ work'.web = w.web /\ work'.input = w.input
    BY <1>2 DEF Advance, WorkType
  <1>4. spec' = spec
    BY <1>3 DEF spec
  <1>5. OneKind'
    BY DEF Typed, OneKind, kind
  <1>6. pc' = IF work.at = Len(PlanOf[spec]) THEN "write" ELSE "pass"
    BY DEF Advance
  <1>7. Positioned'
    BY <1>1, <1>3, <1>4, <1>6 DEF Positioned
  <1>8. WebCounted'
    BY <1>3, <1>4 DEF WebCounted
  <1>9. QED
    BY <1>3, <1>4, <1>5, <1>6, <1>7, <1>8

\* One more step adds what it reads, and it has not been read before.
LEMMA TallyNext ==
    ASSUME NEW plan, Reads(plan, Parts), NEW n \in 1..Len(plan), NEW part
    PROVE  /\ Tally(plan, n, part) \in {0, MaxPods}
           /\ Tally(plan, n, part) <= Tally(plan, n + 1, part)
           /\ Tally(plan, n + 1, part) \in {0, MaxPods}
           /\ plan[n].do = "read" /\ plan[n].part = part =>
                /\ Tally(plan, n, part) = 0
                /\ Tally(plan, n + 1, part) = MaxPods
  <1>1. Len(plan) \in Nat
    BY LenProperties DEF Reads
  <1>2. 1..(n - 1) \subseteq 1..(n + 1 - 1)
    OBVIOUS
  <1>3. Tally(plan, n, part) <= Tally(plan, n + 1, part)
    BY <1>2 DEF Tally
  <1>4. ASSUME plan[n].do = "read", plan[n].part = part
        PROVE  /\ Tally(plan, n, part) = 0
               /\ Tally(plan, n + 1, part) = MaxPods
    <2>1. \A i \in 1..(n - 1) : ~(plan[i].do = "read" /\ plan[i].part = part)
      <3>1. \A i \in 1..(n - 1) : i \in 1..Len(plan) /\ i # n
        BY <1>1
      <3>2. QED
        BY <1>4, <3>1 DEF Reads
    <2>2. n \in 1..(n + 1 - 1)
      OBVIOUS
    <2>3. QED
      BY <1>4, <2>1, <2>2 DEF Tally
  <1>5. QED
    BY <1>3, <1>4 DEF Tally

\* A step that counts nothing of a brand keeps within the count.
LEMMA WebStays ==
    ASSUME Typed, pc = "pass"
    PROVE  work.web <= Tally(PlanOf[spec], work.at + 1, 1)
                         + Tally(PlanOf[spec], work.at + 1, 2)
  <1> DEFINE p == PlanOf[spec]
             n == work.at
             a == Tally(p, n, 1)
             b == Tally(p, n, 2)
             a1 == Tally(p, n + 1, 1)
             b1 == Tally(p, n + 1, 2)
  <1>1. Reads(p, Parts) /\ n \in 1..Len(p)
    BY SpecFacts, StepFacts
  <1>2. work.web <= a + b /\ work.web \in Nat
    BY SpecFacts DEF Typed, WebCounted, WorkType, Counts
  <1> HIDE DEF p, n
  <1>3. /\ a \in {0, MaxPods} /\ b \in {0, MaxPods}
        /\ a1 \in {0, MaxPods} /\ b1 \in {0, MaxPods}
        /\ a <= a1 /\ b <= b1
    BY <1>1, TallyNext
  <1> HIDE DEF a, b, a1, b1
  <1>4. work.web <= a1 + b1
    BY <1>2, <1>3
  <1>5. QED
    BY <1>4 DEF a1, b1, p, n

\* A read of a part that is counted: the copy stays a copy, and the brands'
\* count within what has been read.
LEMMA CountedTyped ==
    ASSUME Typed, pc = "pass", Step.do = "read", NEW m \in 0..MaxPods
    PROVE  LET w == Counted(work, Step.part, m)
           IN  /\ w \in WorkType
               /\ w.at = work.at /\ w.gen = work.gen /\ w.input = work.input
               /\ w.web <= Tally(PlanOf[spec], work.at + 1, 1)
                             + Tally(PlanOf[spec], work.at + 1, 2)
  <1> DEFINE part == Step.part
             w == Counted(work, part, m)
             isUp == m > 0
  <1>1. work \in WorkType /\ kind \in Kinds
    BY SpecFacts
  <1>2. part \in Parts
    BY StepFacts DEF StepType
  <1>3. isUp \in BOOLEAN
    OBVIOUS
  <1>4. work.status \in StatusType
    BY <1>1 DEF WorkType
  <1>5. work.status.up \in [{0, 1} -> BOOLEAN]
    BY <1>4 DEF StatusType
  <1> DEFINE up == [work.status.up EXCEPT ![part] = isUp]
  <1>6. up \in [{0, 1} -> BOOLEAN]
    <2> HIDE DEF isUp
    <2>1. QED
      BY <1>3, <1>5
  <1>7. CASE kind = "Cloud" /\ part > 0
    <2>1. w = [work EXCEPT !.web = @ + m]
      BY <1>7 DEF Counted
    <2> DEFINE p == PlanOf[spec]
               n == work.at
               a == Tally(p, n, 1)
               b == Tally(p, n, 2)
               a1 == Tally(p, n + 1, 1)
               b1 == Tally(p, n + 1, 2)
    <2>2. Reads(p, Parts) /\ n \in 1..Len(p)
      BY SpecFacts, StepFacts
    <2>3. p[n].do = "read" /\ p[n].part = part
      BY StepFacts
    <2>4. work.web <= a + b /\ work.web \in Nat
      BY SpecFacts DEF Typed, WebCounted, WorkType, Counts
    <2>5. part \in {1, 2}
      BY <1>2, <1>7 DEF Parts, MaxSides
    <2> HIDE DEF p, n, part
    <2>6. /\ a \in {0, MaxPods} /\ b \in {0, MaxPods}
          /\ a1 \in {0, MaxPods} /\ b1 \in {0, MaxPods}
          /\ a <= a1 /\ b <= b1
      BY <2>2, TallyNext
    <2>7. part = 1 => a = 0 /\ a1 = MaxPods
      BY <2>2, <2>3, TallyNext
    <2>8. part = 2 => b = 0 /\ b1 = MaxPods
      BY <2>2, <2>3, TallyNext
    <2> HIDE DEF a, b, a1, b1
    <2>9. work.web + m <= a1 + b1 /\ work.web + m \in 0..(MaxPods * 2)
      BY <2>4, <2>5, <2>6, <2>7, <2>8
    <2>10. work.web + m \in Counts
      BY <2>9 DEF Counts, MaxSides
    <2> HIDE DEF w
    <2>11. w \in WorkType /\ w.at = work.at /\ w.gen = work.gen
           /\ w.input = work.input /\ w.web = work.web + m
      BY <1>1, <2>1, <2>10 DEF WorkType
    <2>12. QED
      BY <2>9, <2>11 DEF a1, b1, p, n, w, part
  <1>8. ASSUME ~(kind = "Cloud" /\ part > 0)
        PROVE  /\ w \in WorkType
               /\ w.at = work.at /\ w.gen = work.gen /\ w.input = work.input
               /\ w.web = work.web
    <2>1. CASE kind = "Explorer"
      <3>1. w = [work EXCEPT !.status = [@ EXCEPT !.up = up, !.ready = m]]
        BY <2>1 DEF Counted
      <3> HIDE DEF w, up
      <3>2. QED
        BY <1>1, <1>4, <1>6, <3>1 DEF WorkType, StatusType
    <2>2. CASE kind = "Bridge"
      <3>1. w = [work EXCEPT !.status = [@ EXCEPT !.up = up]]
        BY <2>2 DEF Counted
      <3> HIDE DEF w, up
      <3>2. QED
        BY <1>1, <1>4, <1>6, <3>1 DEF WorkType, StatusType
    <2>3. CASE kind \notin {"Explorer", "Bridge"}
      <3>1. w = [work EXCEPT !.status = [@ EXCEPT !.ready = m]]
        BY <1>8, <2>3 DEF Counted
      <3> HIDE DEF w
      <3>2. QED
        BY <1>1, <1>4, <3>1 DEF WorkType, StatusType
    <2>4. QED
      BY <2>1, <2>2, <2>3
  <1>9. QED
    <2> HIDE DEF w
    <2>1. CASE ~(kind = "Cloud" /\ part > 0)
      BY <1>8, <2>1, WebStays DEF w, part
    <2>2. QED
      BY <1>7, <2>1 DEF w, part

LEMMA TypedInit == Init => Typed
  <1> SUFFICES ASSUME Init PROVE Typed
    OBVIOUS
  <1>1. /\ specOf \in [Generations -> Specs]
        /\ OneKind
    BY DEF Init, OneKind, kind
  <1>2. PICK keyChecked \in KeyChecks :
          refused = (keyChecked /\ KeySetByMutate(specOf[1].kind))
    BY DEF Init
  <1>3. refused \in BOOLEAN
    BY <1>2 DEF KeySetByMutate
  <1>4. load \in 1..MaxLoad
    <2>1. CASE \E g \in Generations : specOf[g].scaled
      BY <2>1 DEF Init
    <2>2. CASE ~\E g \in Generations : specOf[g].scaled
      BY <2>2 DEF Init
    <2>3. QED
      BY <2>1, <2>2
  <1>5. source \in Inputs
    BY DEF Init, Inputs
  <1>6. child \in [Children -> [gen : 0..MaxGen, input : Inputs]]
    BY DEF Init, Absent, Inputs
  <1>7. /\ work = NoWork /\ pc = "idle" /\ status = NoStatus
        /\ cache = [gen |-> 1, deleted |-> FALSE, status |-> NoStatus]
        /\ gen = 1 /\ deleted = FALSE
        /\ dirty = TRUE /\ timer = FALSE /\ faults = 0
    BY DEF Init
  <1>8. scale \in [Parts -> (0..MaxPods) \cup (0..MaxLoad)] /\ ready \in [Parts -> 0..MaxPods]
    BY DEF Init
  <1>9. Positioned
    BY <1>7 DEF Positioned
  <1>10. WebCounted
    <2> DEFINE one == Tally(PlanOf[spec], work.at, 1)
               two == Tally(PlanOf[spec], work.at, 2)
    <2>1. one \in Nat /\ two \in Nat
      BY DEF Tally
    <2>2. work.web = 0
      BY <1>7 DEF NoWork
    <2> HIDE DEF one, two
    <2>3. work.web <= one + two
      BY <2>1, <2>2
    <2>4. QED
      BY <2>3 DEF WebCounted, one, two
  <1>11. 1 \in Generations /\ pc \in {"idle", "pass", "write"}
    BY <1>7 DEF Generations
  <1>12. TypeOK
    <2>1. /\ gen \in Generations /\ deleted \in BOOLEAN /\ status \in StatusType
          /\ cache \in [gen : Generations, deleted : BOOLEAN, status : StatusType]
      BY <1>7, <1>11, NoWorkType
    <2>2. dirty \in BOOLEAN /\ timer \in BOOLEAN
      BY <1>7
    <2>3. faults \in 0..MaxFaults
      BY <1>7
    <2>4. work \in WorkType
      BY <1>7, NoWorkType
    <2>5. QED
      BY <1>1, <1>3, <1>4, <1>5, <1>6, <1>8, <1>11, <2>1, <2>2, <2>3, <2>4
         DEF TypeOK, WorkType
  <1>13. QED
    BY <1>1, <1>9, <1>10, <1>12 DEF Typed

\* Steps that leave the pass where it is.
LEMMA PassStays ==
    ASSUME Typed, UNCHANGED <<specOf, pc, work>>
    PROVE  OneKind' /\ Positioned' /\ WebCounted'
  <1>1. spec' = spec /\ kind' = kind
    BY DEF spec, kind
  <1>2. QED
    BY <1>1 DEF Typed, OneKind, Positioned, WebCounted

\* The types of what a step of a pass does not change.
LEMMA RequeueTyped ==
    ASSUME Typed, Requeue, UNCHANGED <<object, cache, cluster>>,
           faults' \in 0..MaxFaults
    PROVE  Typed'
  <1>1. Return /\ dirty' = TRUE /\ timer' = timer
    BY DEF Requeue
  <1>2. pc' = "idle" /\ work' \in WorkType /\ OneKind' /\ Positioned' /\ WebCounted'
    BY <1>1, ReturnTyped DEF object, given
  <1>3. TypeOK'
    BY <1>1, <1>2 DEF Typed, TypeOK, object, given, cluster, WorkType
  <1>4. QED
    BY <1>2, <1>3 DEF Typed

LEMMA AdvanceTypeOK ==
    ASSUME Typed, pc = "pass",
           NEW w \in WorkType, w.at = work.at, w.gen = work.gen, Advance(w),
           w.web <= Tally(PlanOf[spec], work.at + 1, 1)
                      + Tally(PlanOf[spec], work.at + 1, 2),
           UNCHANGED <<object, cache, ready, source, timer>>,
           child' \in [Children -> [gen : 0..MaxGen, input : Inputs]],
           scale' \in [Parts -> (0..MaxPods) \cup (0..MaxLoad)],
           dirty' \in BOOLEAN,
           faults' \in 0..MaxFaults
    PROVE  Typed'
  <1>1. /\ pc' \in {"pass", "write"} /\ work' \in WorkType
        /\ OneKind' /\ Positioned' /\ WebCounted'
    BY AdvanceTyped DEF object, given
  <1>2. TypeOK'
    BY <1>1 DEF Typed, TypeOK, object, given, WorkType
  <1>3. QED
    BY <1>1, <1>2 DEF Typed

\* What is written of a child is a generation and what is to be read elsewhere.
LEMMA ApplyTyped ==
    ASSUME Typed, Apply
    PROVE  /\ Step \in StepType
           /\ child' \in [Children -> [gen : 0..MaxGen, input : Inputs]]
           /\ scale' \in [Parts -> (0..MaxPods) \cup (0..MaxLoad)]
           /\ dirty' \in BOOLEAN
  <1> DEFINE c == <<Step.part, Step.what>>
  <1>1. pc = "pass"
    BY DEF Apply, At
  <1>2. Step \in StepType /\ Step.part \in Parts /\ c \in Children
    BY <1>1, StepFacts DEF StepType, Children
  <1>3. /\ child' = IF child[c] = Absent \/ Updated(c)
                    THEN [child EXCEPT ![c] = Built(c)] ELSE child
        /\ scale' = IF c[2] = "deployment"
                    THEN [scale EXCEPT ![c[1]] = Replicas(c[1])] ELSE scale
        /\ dirty' = (dirty \/ Echoes(c))
    BY DEF Apply
  <1>4. Built(c) \in [gen : 0..MaxGen, input : Inputs]
    <2>1. work.gen \in 0..MaxGen /\ work.input \in Inputs /\ None \in Inputs
      BY SpecFacts DEF WorkType, Generations, Inputs
    <2>2. QED
      BY <2>1 DEF Built
  <1>5. Replicas(c[1]) \in (0..MaxPods) \cup (0..MaxLoad)
    BY SpecFacts DEF Replicas, SpecType
  <1>6. child' \in [Children -> [gen : 0..MaxGen, input : Inputs]]
    BY <1>2, <1>3, <1>4 DEF Typed, TypeOK
  <1>7. scale' \in [Parts -> (0..MaxPods) \cup (0..MaxLoad)]
    BY <1>2, <1>3, <1>5 DEF Typed, TypeOK
  <1>8. dirty' \in BOOLEAN
    <2>1. Echoes(c) \in BOOLEAN
      BY DEF Echoes
    <2>2. QED
      BY <1>3, <2>1 DEF Typed, TypeOK
  <1>9. QED
    BY <1>2, <1>6, <1>7, <1>8

\* Where a pass begins: at the first step of a plan, or at the status when the
\* plan has none.
LEMMA FetchTyped ==
    ASSUME Typed, Fetch, ~cache.deleted
    PROVE  /\ pc' \in {"pass", "write"}
           /\ work' = [NoWork EXCEPT !.gen = cache.gen, !.base = cache.status,
                                     !.status = cache.status]
           /\ work' \in WorkType
           /\ work'.gen = cache.gen /\ work'.at = 1 /\ work'.web = 0
           /\ spec' = specOf[cache.gen] /\ spec' \in Specs
           /\ OneKind' /\ Positioned' /\ WebCounted'
  <1>1. /\ work' = [NoWork EXCEPT !.gen = cache.gen, !.base = cache.status,
                                  !.status = cache.status]
        /\ pc' = IF PlanOf[specOf[cache.gen]] = << >> THEN "write" ELSE "pass"
        /\ specOf' = specOf
    BY DEF Fetch, object, given
  <1>2. cache.gen \in Generations /\ cache.status \in StatusType
    BY DEF Typed, TypeOK
  <1>3. /\ work' \in WorkType /\ work'.gen = cache.gen
        /\ work'.at = 1 /\ work'.web = 0
    BY <1>1, <1>2, NoWorkType DEF WorkType, NoWork
  <1>4. /\ spec' = specOf[cache.gen]
        /\ spec' \in Specs
    BY <1>1, <1>2, <1>3 DEF spec, Typed, TypeOK
  <1>5. OneKind'
    BY <1>1 DEF Typed, OneKind, kind
  <1>6. Positioned'
    <2> DEFINE p == PlanOf[spec']
    <2>1. p \in Seq(StepType)
      BY <1>4, PlanFacts
    <2>2. pc' = IF p = << >> THEN "write" ELSE "pass"
      BY <1>1, <1>4
    <2> HIDE DEF p
    <2>3. /\ p = << >> => Len(p) = 0
          /\ p # << >> => Len(p) \in Nat \ {0}
      BY <2>1, EmptySeq
    <2>4. /\ pc' = "pass" => work'.at \in 1..Len(p)
          /\ pc' = "write" => work'.at = Len(p) + 1
          /\ pc' # "idle"
      BY <1>3, <2>2, <2>3
    <2>5. QED
      BY <2>4 DEF Positioned, p
  <1>7. WebCounted'
    <2> DEFINE one == Tally(PlanOf[spec'], work'.at, 1)
               two == Tally(PlanOf[spec'], work'.at, 2)
    <2>1. one \in Nat /\ two \in Nat
      BY DEF Tally
    <2> HIDE DEF one, two
    <2>2. work'.web <= one + two
      BY <1>3, <2>1
    <2>3. QED
      BY <2>2 DEF WebCounted, one, two
  <1>8. QED
    BY <1>1, <1>3, <1>4, <1>5, <1>6, <1>7

LEMMA TypedNext == Typed /\ [Next]_vars => Typed'
  <1> SUFFICES ASSUME Typed, [Next]_vars PROVE Typed'
    OBVIOUS
  <1>t. TypeOK
    BY DEF Typed
  <1>w. /\ work \in WorkType
        /\ \A x : [work EXCEPT !.input = x].web = work.web
        /\ \A x \in Inputs : [work EXCEPT !.input = x] \in WorkType
    BY SpecFacts DEF WorkType
  <1>1. CASE UNCHANGED vars
    <2>1. OneKind' /\ Positioned' /\ WebCounted'
      BY <1>1, PassStays DEF vars
    <2>2. QED
      BY <1>1, <1>t, <2>1 DEF vars, Typed, TypeOK
  <1>2. CASE Fetch
    <2>1. pc' \in {"idle", "pass", "write"} /\ work' \in WorkType
          /\ OneKind' /\ Positioned' /\ WebCounted'
      <3>1. CASE cache.deleted
        BY <1>2, <3>1, ReturnTyped DEF Fetch, object, given
      <3>2. CASE ~cache.deleted
        BY <1>2, <3>2, FetchTyped
      <3>3. QED
        BY <3>1, <3>2
    <2>2. TypeOK'
      BY <1>2, <1>t, <2>1 DEF Fetch, TypeOK, object, given, cluster, WorkType
    <2>3. QED
      BY <2>1, <2>2 DEF Typed
  <1>3. CASE ResolveSource
    <2>1. source \in Inputs /\ pc = "pass"
      BY <1>3, <1>t DEF ResolveSource, At, TypeOK
    <2>2. /\ [work EXCEPT !.input = source].at = work.at
          /\ [work EXCEPT !.input = source].gen = work.gen
      BY <1>w DEF WorkType
    <2>3. QED
      BY <1>3, <1>t, <1>w, <2>1, <2>2, WebStays, AdvanceTypeOK
         DEF ResolveSource, TypeOK, cluster, queue
  <1>4. CASE ResolveFails
    <2>1. None \in Inputs /\ pc = "pass" /\ faults' \in 0..MaxFaults
      BY <1>4, <1>t DEF ResolveFails, At, TypeOK, Inputs
    <2>2. /\ [work EXCEPT !.input = None].at = work.at
          /\ [work EXCEPT !.input = None].gen = work.gen
      BY <1>w DEF WorkType
    <2>3. QED
      BY <1>4, <1>t, <1>w, <2>1, <2>2, WebStays, AdvanceTypeOK
         DEF ResolveFails, TypeOK, cluster, queue
  <1>5. CASE Apply
    <2>1. pc = "pass" /\ Advance(work)
      BY <1>5 DEF Apply, At
    <2>2. QED
      BY <1>5, <1>t, <1>w, <2>1, WebStays, ApplyTyped, AdvanceTypeOK DEF Apply, TypeOK
  <1>6. CASE ApplyRefused
    BY <1>6, <1>t, RequeueTyped DEF ApplyRefused, TypeOK
  <1>7. CASE ReadReady
    <2> DEFINE w == Counted(work, Step.part, ready[Step.part])
    <2>1. pc = "pass" /\ Step.do = "read" /\ Advance(w)
      BY <1>7 DEF ReadReady, At
    <2>2. ready[Step.part] \in 0..MaxPods
      BY <1>t, <2>1, StepFacts DEF TypeOK, StepType
    <2>3. /\ w \in WorkType /\ w.at = work.at /\ w.gen = work.gen
          /\ w.web <= Tally(PlanOf[spec], work.at + 1, 1)
                        + Tally(PlanOf[spec], work.at + 1, 2)
      BY <2>1, <2>2, CountedTyped
    <2> HIDE DEF w
    <2>4. QED
      BY <1>7, <1>t, <2>1, <2>3, AdvanceTypeOK
         DEF ReadReady, TypeOK, cluster, queue
  <1>8. CASE ReadFails
    <2> DEFINE w == IF kind = "Explorer" /\ Step.part = 0
                    THEN [work EXCEPT !.status.ready = 0] ELSE work
    <2>1. pc = "pass" /\ Advance(w) /\ faults' \in 0..MaxFaults
      BY <1>8, <1>t DEF ReadFails, At, TypeOK
    <2>2. /\ w \in WorkType /\ w.at = work.at /\ w.gen = work.gen
          /\ w.web = work.web
      <3>1. work.status \in StatusType
        BY <1>w DEF WorkType
      <3>2. [work EXCEPT !.status = [work.status EXCEPT !.ready = 0]] \in WorkType
        BY <1>w, <3>1 DEF WorkType, StatusType
      <3>3. QED
        BY <1>w, <3>2 DEF WorkType
    <2>3. w.web <= Tally(PlanOf[spec], work.at + 1, 1)
                     + Tally(PlanOf[spec], work.at + 1, 2)
      BY <2>1, <2>2, WebStays
    <2> HIDE DEF w
    <2>4. QED
      BY <1>8, <1>t, <2>1, <2>2, <2>3, AdvanceTypeOK
         DEF ReadFails, TypeOK, cluster, queue
  <1>9. CASE WriteStatus
    <2>1. /\ work.status \in StatusType /\ work.gen \in 0..MaxGen
          /\ work.input \in Inputs /\ work.web \in Counts
      BY <1>w DEF WorkType, Generations
    <2>2. status' \in StatusType
      BY <1>9, <2>1, SpecFacts, FinalStatusReports DEF WriteStatus, Reports
    <2>3. pc' = "idle" /\ work' \in WorkType /\ OneKind' /\ Positioned' /\ WebCounted'
      BY <1>9, ReturnTyped DEF WriteStatus, given
    <2>4. timer' \in BOOLEAN
      <3>1. Resyncs(kind) \in BOOLEAN
        BY DEF Resyncs
      <3>2. QED
        BY <1>9, <1>t, <3>1 DEF WriteStatus, TypeOK
    <2>5. TypeOK'
      BY <1>9, <1>t, <2>2, <2>3, <2>4
         DEF WriteStatus, TypeOK, given, cluster, WorkType
    <2>6. QED
      BY <2>3, <2>5 DEF Typed
  <1>10. CASE Conflict
    BY <1>10, <1>t, RequeueTyped DEF Conflict, TypeOK
  <1>11. CASE CallFails
    <2>1. faults' \in 0..MaxFaults
      BY <1>11, <1>t DEF CallFails, TypeOK
    <2>2. QED
      BY <1>11, <2>1, RequeueTyped DEF CallFails
  <1>12. CASE Restart
    <2>1. faults' \in 0..MaxFaults
      BY <1>12, <1>t DEF Restart, TypeOK
    <2>2. Copy \in [gen : Generations, deleted : BOOLEAN, status : StatusType]
      BY <1>t DEF Copy, TypeOK
    <2>3. dirty' \in BOOLEAN /\ timer' \in BOOLEAN
      BY <1>12 DEF Restart
    <2>4. pc' = "idle" /\ work' \in WorkType /\ OneKind' /\ Positioned' /\ WebCounted'
      BY <1>12, ReturnTyped DEF Restart, object, given
    <2>5. TypeOK'
      BY <1>12, <1>t, <2>1, <2>2, <2>3, <2>4
         DEF Restart, TypeOK, object, given, cluster, WorkType
    <2>6. QED
      BY <2>4, <2>5 DEF Typed
  <1>13. CASE RequeueAfter \/ Sync
    <2>1. OneKind' /\ Positioned' /\ WebCounted'
      BY <1>13, PassStays DEF RequeueAfter, Sync, object, given
    <2>2. Copy \in [gen : Generations, deleted : BOOLEAN, status : StatusType]
      BY <1>t DEF Copy, TypeOK
    <2>3. dirty' \in BOOLEAN /\ timer' \in BOOLEAN
      BY <1>13, <1>t DEF RequeueAfter, Sync, TypeOK
    <2>4. cache' \in [gen : Generations, deleted : BOOLEAN, status : StatusType]
      BY <1>13, <1>t, <2>2 DEF RequeueAfter, Sync, TypeOK
    <2>5. TypeOK'
      BY <1>13, <1>t, <2>3, <2>4
         DEF RequeueAfter, Sync, TypeOK, object, given, cluster, queue
    <2>6. QED
      BY <2>1, <2>5 DEF Typed
  <1>14. CASE EditSpec \/ Delete
    <2>1. OneKind' /\ Positioned' /\ WebCounted'
      BY <1>14, PassStays DEF EditSpec, Delete, given
    <2>2. gen' \in Generations
      BY <1>14, <1>t DEF EditSpec, Delete, TypeOK, Generations
    <2>3. deleted' \in BOOLEAN
      BY <1>14, <1>t DEF EditSpec, Delete, TypeOK
    <2>4. faults' \in 0..MaxFaults
      BY <1>14, <1>t DEF EditSpec, Delete, TypeOK
    <2>5. TypeOK'
      BY <1>14, <1>t, <2>2, <2>3, <2>4
         DEF EditSpec, Delete, TypeOK, given, cluster, queue
    <2>6. QED
      BY <2>1, <2>5 DEF Typed
  <1>15. CASE Collect
    <2>1. OneKind' /\ Positioned' /\ WebCounted'
      BY <1>15, PassStays DEF Collect, object, given
    <2>2. /\ child' \in [Children -> [gen : 0..MaxGen, input : Inputs]]
          /\ scale' \in [Parts -> (0..MaxPods) \cup (0..MaxLoad)]
          /\ ready' \in [Parts -> 0..MaxPods]
      BY <1>15 DEF Collect, Absent, Inputs
    <2>3. TypeOK'
      BY <1>15, <1>t, <2>2 DEF Collect, TypeOK, object, given, queue
    <2>4. QED
      BY <2>1, <2>3 DEF Typed
  <1>16. ASSUME NEW p \in Parts, NEW n \in 0..MaxPods, ReportReady(p, n)
         PROVE  Typed'
    <2>1. OneKind' /\ Positioned' /\ WebCounted'
      BY <1>16, PassStays DEF ReportReady, object, given
    <2>2. TypeOK'
      BY <1>16, <1>t DEF ReportReady, TypeOK, object, given, queue
    <2>3. QED
      BY <2>1, <2>2 DEF Typed
  <1>17. ASSUME NEW p \in Parts, Autoscale(p)
         PROVE  Typed'
    <2>1. OneKind' /\ Positioned' /\ WebCounted'
      BY <1>17, PassStays DEF Autoscale, object, given
    <2>2. dirty' \in BOOLEAN
      BY <1>17, <1>t DEF Autoscale, Owned, TypeOK
    <2>3. scale' \in [Parts -> (0..MaxPods) \cup (0..MaxLoad)]
      BY <1>17, <1>t DEF Autoscale, TypeOK
    <2>4. TypeOK'
      BY <1>17, <1>t, <2>2, <2>3 DEF Autoscale, TypeOK, object, given
    <2>5. QED
      BY <2>1, <2>4 DEF Typed
  <1>18. ASSUME NEW s \in Inputs, SourceChanges(s)
         PROVE  Typed'
    <2>1. OneKind' /\ Positioned' /\ WebCounted'
      BY <1>18, PassStays DEF SourceChanges, object, given
    <2>2. faults' \in 0..MaxFaults
      BY <1>18, <1>t DEF SourceChanges, TypeOK
    <2>3. TypeOK'
      BY <1>18, <1>t, <2>2 DEF SourceChanges, TypeOK, object, given, queue
    <2>4. QED
      BY <2>1, <2>3 DEF Typed
  <1>19. QED
    BY <1>1, <1>2, <1>3, <1>4, <1>5, <1>6, <1>7, <1>8, <1>9, <1>10, <1>11,
       <1>12, <1>13, <1>14, <1>15, <1>16, <1>17, <1>18
       DEF Next, Operator, Environment, Autoscaler

\* Every state of the reconcilers is well typed, whatever the plan of a kind: in
\* particular the web pods counted over the brands, each of them read once, are
\* never more than the brands can have (the replica counts of CloudReconciler).
THEOREM TypeCorrect == Spec => []TypeOK
  <1>1. Typed => TypeOK
    BY DEF Typed
  <1>2. QED
    BY TypedInit, TypedNext, <1>1, PTL DEF Spec

-------------------------------------------------------------------------------
(* What a pass has brought about, and what is left to be done.             *)

\* A child is as generation g of the spec asks for: the claim of an Indexer is
\* only to be there.
Has(children, c, g) ==
    IF Updated(c) THEN children[c].gen = g ELSE children[c] # Absent

\* The children of the steps before the pass's position are as it wants them.
PutSoFar ==
    pc # "idle" /\ ~deleted =>
        \A i \in 1..(work.at - 1) :
          PlanOf[spec][i].do = "put" =>
            Has(child, <<PlanOf[spec][i].part, PlanOf[spec][i].what>>, work.gen)

\* What a Gateway's pass has found is in the ConfigMap it has written.
Routed ==
    pc # "idle" /\ ~deleted /\ kind = "Gateway" /\ work.at > 2 =>
        child[<<0, "configmap">>].input = work.input

\* Generations travel from the object to the cache to the pass, and deletions
\* from the object to the cache.
Ordered == /\ work.gen <= cache.gen
           /\ cache.gen <= gen
           /\ cache.deleted => deleted

\* All the children of generation g are as it asks for.
Complete(g) == \A c \in Required(specOf[g]) : Has(child, c, g)

\* What is not queued is done, or a pass is at it: when the operator has nothing
\* to do, the generation it has seen is the one it reported and the one applied.
Accounted ==
    ~dirty /\ ~deleted =>
        IF pc = "idle" THEN status.observed = cache.gen /\ Complete(cache.gen)
                       ELSE work.gen = cache.gen

WorkloadInv == Typed /\ Ordered /\ PutSoFar /\ Routed /\ Accounted

\* What is put for a spec, step by step.
LEMMA RequiredFacts ==
    ASSUME NEW sp \in Specs
    PROVE  /\ Required(sp) \subseteq Children
           /\ \A c \in Required(sp) : \E i \in 1..Len(PlanOf[sp]) :
                /\ PlanOf[sp][i].do = "put"
                /\ c = <<PlanOf[sp][i].part, PlanOf[sp][i].what>>
           /\ \A i \in 1..Len(PlanOf[sp]) :
                PlanOf[sp][i].do = "put" =>
                  <<PlanOf[sp][i].part, PlanOf[sp][i].what>> \in Required(sp)
  <1> DEFINE p == PlanOf[sp]
  <1>1. p \in Seq(StepType) /\ DOMAIN p = 1..Len(p)
    BY PlanFacts
  <1>2. Required(sp) = {<<s.part, s.what>> : s \in {t \in Range(p) : t.do = "put"}}
    BY DEF Required, RequiredOf
  <1> HIDE DEF p
  <1>3. Range(p) = {p[i] : i \in 1..Len(p)}
    BY <1>1 DEF Range
  <1>4. \A i \in 1..Len(p) : p[i].part \in Parts /\ p[i].what \in Whats
    <2>1. \A i \in 1..Len(p) : p[i] \in StepType
      BY <1>1, ElementOfSeq
    <2>2. QED
      BY <2>1 DEF StepType
  <1>5. \A c \in Required(sp) : \E i \in 1..Len(p) :
           p[i].do = "put" /\ c = <<p[i].part, p[i].what>>
    BY <1>2, <1>3
  <1>6. \A i \in 1..Len(p) :
           p[i].do = "put" => <<p[i].part, p[i].what>> \in Required(sp)
    BY <1>2, <1>3
  <1>7. Required(sp) \subseteq Children
    BY <1>4, <1>5 DEF Children
  <1>8. QED
    BY <1>5, <1>6, <1>7 DEF p

LEMMA InvInit == Init => WorkloadInv
  <1> SUFFICES ASSUME Init PROVE WorkloadInv
    OBVIOUS
  <1>1. pc = "idle" /\ dirty = TRUE /\ gen = 1 /\ work = NoWork
        /\ cache = [gen |-> 1, deleted |-> FALSE, status |-> NoStatus]
    BY DEF Init
  <1>2. Ordered
    BY <1>1 DEF Ordered, NoWork
  <1>3. PutSoFar /\ Routed /\ Accounted
    BY <1>1 DEF PutSoFar, Routed, Accounted
  <1>4. QED
    BY <1>2, <1>3, TypedInit DEF WorkloadInv

\* The steps of a pass between its Get and its status update; the ways it ends;
\* and the steps of others.
PassStep == ResolveSource \/ ResolveFails \/ Apply \/ ReadReady \/ ReadFails

PassEnds == ApplyRefused \/ WriteStatus \/ Conflict \/ CallFails \/ Restart

Elsewhere ==
    \/ RequeueAfter \/ Sync \/ EditSpec \/ Delete \/ Collect \/ Autoscaler
    \/ \E p \in Parts, n \in 0..MaxPods : ReportReady(p, n)
    \/ \E s \in Inputs : SourceChanges(s)

LEMMA NextSplits == [Next]_vars <=> Fetch \/ PassStep \/ PassEnds \/ Elsewhere \/ UNCHANGED vars
  BY DEF Next, Operator, Environment, PassStep, PassEnds, Elsewhere

LEMMA PassStepFacts ==
    ASSUME Typed, PassStep
    PROVE  /\ pc = "pass" /\ pc' \in {"pass", "write"}
           /\ work'.gen = work.gen /\ work'.at = work.at + 1
           /\ ~At("resolve") => work'.input = work.input
           /\ ~At("put") => child' = child
           /\ spec' = spec /\ kind' = kind
           /\ UNCHANGED <<specOf, gen, deleted, status, cache>>
           /\ ~dirty' => ~dirty
  <1>1. pc = "pass"
    BY DEF PassStep, ResolveSource, ResolveFails, Apply, ReadReady, ReadFails, At
  <1>2. UNCHANGED <<specOf, gen, deleted, status, cache>>
    BY DEF PassStep, ResolveSource, ResolveFails, Apply, ReadReady, ReadFails,
           object, given
  <1>3. ~At("put") => child' = child
    BY DEF PassStep, ResolveSource, ResolveFails, Apply, ReadReady, ReadFails, cluster
  <1>4. ~dirty' => ~dirty
    BY DEF PassStep, ResolveSource, ResolveFails, Apply, ReadReady, ReadFails, queue
  <1>5. \E w \in WorkType :
           /\ Advance(w) /\ w.gen = work.gen /\ w.at = work.at
           /\ ~At("resolve") => w.input = work.input
    <2>1. CASE ResolveSource \/ ResolveFails
      <3>1. source \in Inputs /\ None \in Inputs
        BY DEF Typed, TypeOK, Inputs
      <3>2. \A x \in Inputs : /\ [work EXCEPT !.input = x] \in WorkType
                              /\ [work EXCEPT !.input = x].gen = work.gen
                              /\ [work EXCEPT !.input = x].at = work.at
        BY SpecFacts DEF WorkType
      <3>3. At("resolve")
        BY <2>1 DEF ResolveSource, ResolveFails
      <3>4. QED
        BY <2>1, <3>1, <3>2, <3>3 DEF ResolveSource, ResolveFails
    <2>2. CASE Apply
      BY <2>2, SpecFacts DEF Apply
    <2>3. CASE ReadReady
      <3>1. Step.do = "read"
        BY <2>3 DEF ReadReady, At
      <3>2. ready[Step.part] \in 0..MaxPods
        BY <1>1, StepFacts DEF Typed, TypeOK, StepType
      <3> DEFINE w == Counted(work, Step.part, ready[Step.part])
      <3>3. /\ w \in WorkType /\ w.gen = work.gen /\ w.at = work.at
            /\ w.input = work.input
        BY <1>1, <3>1, <3>2, CountedTyped
      <3>4. Advance(w)
        BY <2>3 DEF ReadReady
      <3> HIDE DEF w
      <3>5. QED
        BY <3>3, <3>4
    <2>4. CASE ReadFails
      <3> DEFINE w == IF kind = "Explorer" /\ Step.part = 0
                      THEN [work EXCEPT !.status.ready = 0] ELSE work
      <3>1. /\ w \in WorkType /\ w.gen = work.gen /\ w.at = work.at
            /\ w.input = work.input
        <4>1. work \in WorkType /\ work.status \in StatusType
          BY SpecFacts DEF WorkType
        <4>2. [work EXCEPT !.status = [work.status EXCEPT !.ready = 0]] \in WorkType
          BY <4>1 DEF WorkType, StatusType
        <4>3. QED
          BY <4>1, <4>2 DEF WorkType
      <3>2. Advance(w)
        BY <2>4 DEF ReadFails
      <3> HIDE DEF w
      <3>3. QED
        BY <3>1, <3>2
    <2>5. QED
      BY <2>1, <2>2, <2>3, <2>4 DEF PassStep
  <1>6. PICK w \in WorkType :
           /\ Advance(w) /\ w.gen = work.gen /\ w.at = work.at
           /\ ~At("resolve") => w.input = work.input
    BY <1>5
  <1>7. /\ work'.gen = work.gen /\ work'.at = work.at + 1
        /\ work'.input = w.input
        /\ pc' \in {"pass", "write"}
    BY <1>6 DEF Advance, WorkType
  <1>8. spec' = spec /\ kind' = kind
    BY <1>2, <1>7 DEF spec, kind
  <1>9. QED
    BY <1>1, <1>2, <1>3, <1>4, <1>6, <1>7, <1>8

LEMMA PassEndsFacts ==
    ASSUME PassEnds
    PROVE  /\ Return /\ pc' = "idle" /\ work' = NoWork /\ child' = child
           /\ UNCHANGED <<specOf, gen, deleted>>
           /\ WriteStatus \/ dirty' = TRUE \/ deleted'
  <1>1. Return
    BY DEF PassEnds, ApplyRefused, WriteStatus, Conflict, CallFails, Restart, Requeue
  <1>2. child' = child /\ UNCHANGED <<specOf, gen, deleted>>
    BY DEF PassEnds, ApplyRefused, WriteStatus, Conflict, CallFails, Restart,
           cluster, object, given
  <1>3. WriteStatus \/ dirty' = TRUE \/ deleted'
    <2>1. CASE ApplyRefused \/ Conflict \/ CallFails
      BY <2>1 DEF ApplyRefused, Conflict, CallFails, Requeue
    <2>2. CASE Restart
      BY <2>2 DEF Restart, object
    <2>3. QED
      BY <2>1, <2>2 DEF PassEnds
  <1>4. QED
    BY <1>1, <1>2, <1>3 DEF Return

\* The others do not touch the pass, and only the collector touches what it has
\* written.
LEMMA ElsewhereFacts ==
    ASSUME Elsewhere
    PROVE  /\ UNCHANGED <<specOf, status, pc, work>>
           /\ spec' = spec /\ kind' = kind
           /\ deleted => deleted'
           /\ child' = child \/ deleted'
  <1>1. UNCHANGED <<specOf, status, pc, work>>
    BY DEF Elsewhere, RequeueAfter, Sync, EditSpec, Delete, Collect, Autoscaler,
           Autoscale, ReportReady, SourceChanges, object, given
  <1>2. deleted => deleted'
    BY DEF Elsewhere, RequeueAfter, Sync, EditSpec, Delete, Collect, Autoscaler,
           Autoscale, ReportReady, SourceChanges, object
  <1>3. child' = child \/ deleted'
    <2>1. CASE Collect
      BY <2>1 DEF Collect, object
    <2>2. CASE ~Collect
      BY <2>2 DEF Elsewhere, RequeueAfter, Sync, EditSpec, Delete, Autoscaler,
                  Autoscale, ReportReady, SourceChanges, cluster
    <2>3. QED
      BY <2>1, <2>2
  <1>4. spec' = spec /\ kind' = kind
    BY <1>1 DEF spec, kind
  <1>5. QED
    BY <1>1, <1>2, <1>3, <1>4

-------------------------------------------------------------------------------
LEMMA OrderedNext ==
    ASSUME Typed, Ordered, [Next]_vars
    PROVE  Ordered'
  <1>1. /\ gen \in Nat /\ cache.gen \in Nat /\ cache.gen >= 1
        /\ work.gen \in Nat
    BY SpecFacts DEF Typed, TypeOK, Generations
  <1>2. NoWork.gen = 1 /\ Copy.gen = gen /\ Copy.deleted = deleted
    BY DEF NoWork, Copy
  <1>3. CASE Fetch
    <2>1. UNCHANGED <<gen, deleted, cache>>
      BY <1>3 DEF Fetch, object
    <2>2. CASE cache.deleted
      BY <1>1, <1>2, <1>3, <2>1, <2>2 DEF Fetch, Return, Ordered
    <2>3. CASE ~cache.deleted
      BY <1>1, <1>3, <2>1, <2>3, FetchTyped DEF Ordered
    <2>4. QED
      BY <2>2, <2>3
  <1>4. CASE PassStep
    BY <1>4, PassStepFacts DEF Ordered
  <1>5. CASE PassEnds
    <2>1. cache' = cache \/ cache' = Copy
      BY <1>5 DEF PassEnds, ApplyRefused, WriteStatus, Conflict, CallFails, Restart
    <2>2. QED
      BY <1>1, <1>2, <1>5, <2>1, PassEndsFacts DEF Ordered
  <1>6. CASE Elsewhere
    <2>1. work' = work /\ (deleted => deleted')
      BY <1>6, ElsewhereFacts
    <2>2. CASE Sync
      BY <1>1, <1>2, <2>1, <2>2 DEF Ordered, Sync, object
    <2>3. CASE EditSpec
      BY <1>1, <2>1, <2>3 DEF Ordered, EditSpec
    <2>4. CASE ~Sync /\ ~EditSpec
      <3>1. cache' = cache /\ gen' = gen
        BY <1>6, <2>4 DEF Elsewhere, RequeueAfter, Delete, Collect, Autoscaler,
                          Autoscale, ReportReady, SourceChanges, object
      <3>2. QED
        BY <2>1, <3>1 DEF Ordered
    <2>5. QED
      BY <2>2, <2>3, <2>4
  <1>7. CASE UNCHANGED vars
    BY <1>7 DEF Ordered, vars
  <1>8. QED
    BY <1>3, <1>4, <1>5, <1>6, <1>7, NextSplits

\* A child that is put is as its generation asks for, and the others stay as
\* they are.
LEMMA ApplyHas ==
    ASSUME Typed, Apply
    PROVE  LET c == <<Step.part, Step.what>>
           IN  /\ c \in Children
               /\ Has(child', c, work.gen)
               /\ \A d \in Children : Has(child, d, work.gen) => Has(child', d, work.gen)
               /\ Takes(kind, c) /\ Updated(c) => child'[c].input = work.input
               /\ \A d \in Children : d # c => child'[d] = child[d]
  <1> DEFINE c == <<Step.part, Step.what>>
  <1>1. pc = "pass"
    BY DEF Apply, At
  <1>2. c \in Children
    BY <1>1, StepFacts DEF StepType, Children
  <1>3. child' = IF child[c] = Absent \/ Updated(c)
                 THEN [child EXCEPT ![c] = Built(c)] ELSE child
    BY DEF Apply
  <1>4. DOMAIN child = Children
    BY DEF Typed, TypeOK
  <1>5. Built(c) # Absent /\ Built(c).gen = work.gen
    <2>1. work.gen # 0
      BY SpecFacts DEF Generations
    <2>2. QED
      BY <2>1 DEF Built, Absent
  <1>6. Takes(kind, c) => Built(c).input = work.input
    BY DEF Built
  <1> HIDE DEF c
  <1>7. \A d \in Children : d # c => child'[d] = child[d]
    BY <1>2, <1>3, <1>4
  <1>8. Has(child', c, work.gen)
    BY <1>2, <1>3, <1>4, <1>5 DEF Has
  <1>9. \A d \in Children : Has(child, d, work.gen) => Has(child', d, work.gen)
    BY <1>7, <1>8 DEF Has
  <1>10. Takes(kind, c) /\ Updated(c) => child'[c].input = work.input
    BY <1>2, <1>3, <1>4, <1>6
  <1>11. QED
    BY <1>2, <1>7, <1>8, <1>9, <1>10 DEF c

LEMMA PutSoFarNext ==
    ASSUME Typed, PutSoFar, [Next]_vars
    PROVE  PutSoFar'
  <1>1. CASE Fetch
    <2>1. CASE cache.deleted
      BY <1>1, <2>1 DEF Fetch, Return, PutSoFar
    <2>2. CASE ~cache.deleted
      <3>1. work'.at = 1
        BY <1>1, <2>2, FetchTyped
      <3>2. 1..(work'.at - 1) = {}
        BY <3>1
      <3>3. QED
        BY <3>2 DEF PutSoFar
    <2>3. QED
      BY <2>1, <2>2
  <1>2. CASE PassStep
    <2> SUFFICES ASSUME ~deleted', NEW i \in 1..(work'.at - 1),
                        PlanOf[spec'][i].do = "put"
                 PROVE  Has(child', <<PlanOf[spec'][i].part, PlanOf[spec'][i].what>>,
                            work'.gen)
      BY DEF PutSoFar
    <2> DEFINE p == PlanOf[spec]
    <2>1. /\ pc = "pass" /\ work'.gen = work.gen /\ work'.at = work.at + 1
          /\ spec' = spec /\ deleted' = deleted
      BY <1>2, PassStepFacts
    <2>2. work.at \in 1..Len(p) /\ Step = p[work.at] /\ Len(p) \in Nat
      BY <2>1, StepFacts, SpecFacts
    <2>3. i \in 1..(work.at - 1) \/ i = work.at
      BY <2>1, <2>2
    <2>4. CASE Apply
      <3>1. CASE i = work.at
        BY <2>1, <2>2, <2>4, <3>1, ApplyHas
      <3>2. CASE i \in 1..(work.at - 1)
        <4>1. Has(child, <<p[i].part, p[i].what>>, work.gen)
          BY <2>1, <3>2 DEF PutSoFar
        <4>2. <<p[i].part, p[i].what>> \in Children
          <5>1. i \in 1..Len(p) /\ p \in Seq(StepType)
            BY <2>2, <3>2, SpecFacts DEF Reads
          <5>2. p[i] \in StepType
            BY <5>1, ElementOfSeq
          <5>3. QED
            BY <5>2 DEF StepType, Children
        <4>3. QED
          BY <2>1, <2>4, <4>1, <4>2, ApplyHas
      <3>3. QED
        BY <2>3, <3>1, <3>2
    <2>5. CASE ~Apply
      <3>1. Step.do # "put" /\ child' = child
        BY <1>2, <2>1, <2>5
           DEF PassStep, ResolveSource, ResolveFails, ReadReady, ReadFails, At, cluster
      <3>2. i \in 1..(work.at - 1)
        BY <2>1, <2>2, <2>3, <3>1
      <3>3. QED
        BY <2>1, <3>1, <3>2 DEF PutSoFar
    <2>6. QED
      BY <2>4, <2>5
  <1>3. CASE PassEnds
    BY <1>3, PassEndsFacts DEF PutSoFar
  <1>4. CASE Elsewhere
    BY <1>4, ElsewhereFacts DEF PutSoFar
  <1>5. CASE UNCHANGED vars
    BY <1>5 DEF PutSoFar, vars, spec
  <1>6. QED
    BY <1>1, <1>2, <1>3, <1>4, <1>5, NextSplits

LEMMA RoutedNext ==
    ASSUME Typed, Routed, [Next]_vars
    PROVE  Routed'
  <1> DEFINE cm == <<0, "configmap">>
  <1>1. CASE Fetch
    <2>1. CASE cache.deleted
      BY <1>1, <2>1 DEF Fetch, Return, Routed
    <2>2. CASE ~cache.deleted
      BY <1>1, <2>2, FetchTyped DEF Routed
    <2>3. QED
      BY <2>1, <2>2
  <1>2. CASE PassStep
    <2> SUFFICES ASSUME ~deleted', kind' = "Gateway", work'.at > 2
                 PROVE  child'[cm].input = work'.input
      BY DEF Routed
    <2> DEFINE p == PlanOf[spec]
    <2>1. /\ pc = "pass" /\ work'.at = work.at + 1 /\ kind = "Gateway"
          /\ deleted' = deleted
          /\ ~At("resolve") => work'.input = work.input
          /\ ~At("put") => child' = child
      BY <1>2, PassStepFacts
    <2>2. work.at \in 2..Len(p) /\ Step = p[work.at]
      BY <2>1, StepFacts, SpecFacts
    <2>3. ResolvesFirst(p)
      BY <2>1, SpecFacts, GatewayPlanFacts
    <2>4. Step.do # "resolve"
      BY <2>2, <2>3 DEF ResolvesFirst
    <2>5. work'.input = work.input
      BY <2>1, <2>4 DEF At
    <2>6. CASE work.at = 2
      <3>1. Step = Put(0, "configmap")
        BY <2>2, <2>3, <2>6 DEF ResolvesFirst
      <3>2. Step.do = "put" /\ Step.part = 0 /\ Step.what = "configmap"
        BY <3>1 DEF Put
      <3>3. Apply
        BY <1>2, <3>2 DEF PassStep, ResolveSource, ResolveFails, ReadReady, ReadFails, At
      <3>4. Takes(kind, cm) /\ Updated(cm)
        BY <2>1 DEF Takes, Updated
      <3>5. QED
        BY <2>5, <3>2, <3>3, <3>4, ApplyHas
    <2>7. CASE work.at > 2
      <3>1. child[cm].input = work.input
        BY <2>1, <2>7 DEF Routed
      <3>2. CASE Apply
        <4>1. cm \in Children
          BY DEF Children, Parts, MaxSides, Whats
        <4>2. Takes(kind, cm) /\ Updated(cm)
          BY <2>1 DEF Takes, Updated
        <4>3. CASE <<Step.part, Step.what>> = cm
          BY <2>5, <3>2, <4>2, <4>3, ApplyHas
        <4>4. CASE <<Step.part, Step.what>> # cm
          BY <2>5, <3>1, <3>2, <4>1, <4>4, ApplyHas
        <4>5. QED
          BY <4>3, <4>4
      <3>3. CASE ~Apply
        <4>1. child' = child
          BY <1>2, <3>3
             DEF PassStep, ResolveSource, ResolveFails, ReadReady, ReadFails, cluster
        <4>2. QED
          BY <2>5, <3>1, <4>1
      <3>4. QED
        BY <3>2, <3>3
    <2>8. QED
      BY <2>2, <2>6, <2>7
  <1>3. CASE PassEnds
    BY <1>3, PassEndsFacts DEF Routed
  <1>4. CASE Elsewhere
    BY <1>4, ElsewhereFacts DEF Routed
  <1>5. CASE UNCHANGED vars
    BY <1>5 DEF Routed, vars, kind
  <1>6. QED
    BY <1>1, <1>2, <1>3, <1>4, <1>5, NextSplits

\* When a pass is at its status update, all that the spec asks for is put.
LEMMA WrittenComplete ==
    ASSUME WorkloadInv, pc = "write", ~deleted
    PROVE  \A c \in Required(spec) : Has(child, c, work.gen)
  <1>1. work.at = Len(PlanOf[spec]) + 1 /\ Len(PlanOf[spec]) \in Nat /\ spec \in Specs
    BY SpecFacts DEF WorkloadInv, Typed, Positioned
  <1>2. \A i \in 1..Len(PlanOf[spec]) :
          PlanOf[spec][i].do = "put" =>
            Has(child, <<PlanOf[spec][i].part, PlanOf[spec][i].what>>, work.gen)
    <2>1. 1..(work.at - 1) = 1..Len(PlanOf[spec])
      BY <1>1
    <2>2. QED
      BY <2>1 DEF WorkloadInv, PutSoFar
  <1>3. QED
    BY <1>1, <1>2, RequiredFacts

\* The status update of a pass tells of what the pass has applied.
LEMMA WriteFacts ==
    ASSUME WorkloadInv, WriteStatus
    PROVE  /\ ~deleted /\ gen = work.gen /\ spec = specOf[gen]
           /\ status'.observed = gen
           /\ kind = "Gateway" =>
                status'.routes = ChainRouteMap(Found(child[<<0, "configmap">>].input))
           /\ Complete(gen)
  <1>1. pc = "write" /\ ~deleted /\ gen = work.gen /\ status' = FinalStatus(work, spec)
    BY DEF WriteStatus, Unmodified
  <1>2. /\ work.status \in StatusType /\ work.gen \in 0..MaxGen
        /\ work.input \in Inputs /\ work.web \in Counts
        /\ spec \in SpecType /\ kind \in Kinds
    BY SpecFacts DEF WorkloadInv, WorkType, Generations
  <1>3. Reports(status', work.gen,
                IF kind = "Gateway" THEN ChainRouteMap(Found(work.input))
                                    ELSE work.status.routes)
    BY <1>1, <1>2, FinalStatusReports
  <1>4. ASSUME kind = "Gateway"
        PROVE  status'.routes = ChainRouteMap(Found(child[<<0, "configmap">>].input))
    <2>1. /\ spec \in Specs /\ spec.kind = "Gateway" /\ Len(PlanOf[spec]) \in Nat
          /\ work.at = Len(PlanOf[spec]) + 1
      BY <1>1, <1>4, SpecFacts DEF WorkloadInv, Typed, Positioned
    <2>2. Len(PlanOf[spec]) >= 2
      BY <2>1, GatewayPlanFacts DEF ResolvesFirst
    <2>3. work.at > 2
      BY <2>1, <2>2
    <2>4. child[<<0, "configmap">>].input = work.input
      BY <1>1, <1>4, <2>3 DEF WorkloadInv, Routed
    <2>5. QED
      BY <1>3, <1>4, <2>4 DEF Reports
  <1>5. spec = specOf[gen]
    BY <1>1 DEF spec
  <1>6. Complete(gen)
    BY <1>1, <1>5, WrittenComplete DEF Complete
  <1>7. QED
    BY <1>1, <1>3, <1>4, <1>5, <1>6 DEF Reports

LEMMA AccountedNext ==
    ASSUME WorkloadInv, [Next]_vars
    PROVE  Accounted'
  <1> SUFFICES ASSUME ~dirty', ~deleted'
               PROVE  IF pc' = "idle"
                      THEN status'.observed = cache'.gen /\ Complete(cache.gen)'
                      ELSE work'.gen = cache'.gen
    BY DEF Accounted
  <1>t. Typed /\ Ordered /\ Accounted
    BY DEF WorkloadInv
  <1>1. CASE Fetch
    <2>1. ~deleted /\ ~cache.deleted /\ cache' = cache
      BY <1>1, <1>t DEF Fetch, object, Ordered
    <2>2. QED
      BY <1>1, <1>t, <2>1, FetchTyped
  <1>2. CASE PassStep
    BY <1>2, <1>t, PassStepFacts DEF Accounted
  <1>3. CASE PassEnds
    <2>1. WriteStatus
      BY <1>3, PassEndsFacts
    <2>2. dirty' = dirty /\ cache' = cache /\ pc = "write" /\ pc' = "idle" 
          /\ UNCHANGED <<specOf, child>>
      BY <2>1 DEF WriteStatus, Return, cluster, given
    <2>3. gen = work.gen /\ ~deleted /\ status'.observed = gen /\ Complete(gen)
      BY <2>1, WriteFacts
    <2>4. work.gen = cache.gen
      BY <1>t, <2>2, <2>3 DEF Accounted
    <2>5. Complete(gen) => Complete(cache.gen)'
      BY <2>2, <2>3, <2>4 DEF Complete
    <2>6. QED
      BY <2>2, <2>3, <2>4, <2>5
  <1>4. CASE Elsewhere
    <2>1. /\ UNCHANGED <<specOf, status, pc, work, child>> /\ ~deleted
      BY <1>4, ElsewhereFacts
    <2>2. ~dirty /\ cache'.gen = cache.gen
      <3>1. CASE Sync
        <4>1. ~dirty /\ cache.gen = gen /\ cache' = Copy
          BY <2>1, <3>1 DEF Sync
        <4>2. QED
          BY <4>1 DEF Copy
      <3>2. CASE Autoscaler
        <4>1. PICK q \in Parts : Autoscale(q)
          BY <3>2 DEF Autoscaler
        <4>2. ~dirty /\ cache' = cache
          BY <4>1 DEF Autoscale
        <4>3. QED
          BY <4>2
      <3>3. ~RequeueAfter
        BY Zenon DEF RequeueAfter
      <3>4. CASE ~Sync /\ ~Autoscaler
        <4>1. dirty' = dirty /\ cache' = cache
          BY <1>4, <3>3, <3>4 DEF Elsewhere, EditSpec, Delete, Collect,
               ReportReady, SourceChanges, queue
        <4>2. QED
          BY <4>1
      <3>5. QED
        BY <3>1, <3>2, <3>4
    <2>3. Complete(cache.gen) => Complete(cache.gen)'
      BY <2>1, <2>2 DEF Complete
    <2>4. QED
      BY <1>t, <2>1, <2>2, <2>3 DEF Accounted
  <1>5. CASE UNCHANGED vars
    <2>1. Complete(cache.gen) => Complete(cache.gen)'
      BY <1>5 DEF vars, Complete
    <2>2. QED
      BY <1>5, <1>t, <2>1 DEF vars, Accounted
  <1>6. QED
    BY <1>1, <1>2, <1>3, <1>4, <1>5, NextSplits

LEMMA InvNext == WorkloadInv /\ [Next]_vars => WorkloadInv'
  <1> SUFFICES ASSUME WorkloadInv, [Next]_vars PROVE WorkloadInv'
    OBVIOUS
  <1>1. Typed /\ Ordered /\ PutSoFar /\ Routed
    BY DEF WorkloadInv
  <1>2. QED
    BY <1>1, TypedNext, OrderedNext, PutSoFarNext, RoutedNext, AccountedNext
       DEF WorkloadInv

-------------------------------------------------------------------------------
\* The inductive invariant: a pass has put what its position says, a Gateway's
\* ConfigMap carries what the pass found, and what is not queued is done, through
\* edits, deletions, conflicts, refused calls and restarts.
THEOREM WorkloadInvariant == Spec => []WorkloadInv
  BY InvInit, InvNext, PTL DEF Spec

\* For every kind of resource: when the operator has seen the current generation
\* and has nothing queued or in progress, it has reported that generation and
\* every child the spec asks for was built from it (the six Reconcile functions).
THEOREM NoEditForgotten == Spec => []NothingForgotten
  <1>1. WorkloadInv => NothingForgotten
    <2> SUFFICES ASSUME WorkloadInv, pc = "idle", ~dirty, ~deleted, cache.gen = gen
                 PROVE  /\ status.observed = gen
                        /\ \A c \in Required(specOf[gen]) :
                             IF Updated(c) THEN child[c].gen = gen ELSE child[c] # Absent
      BY DEF NothingForgotten
    <2>1. QED
      BY DEF WorkloadInv, Accounted, Complete, Has
  <1>2. QED
    BY <1>1, WorkloadInvariant, PTL

\* What a Gateway's status says of the chains its ConfigMap was built from.
RoutesAgree(routes, input) ==
    LET routed == Range(Found(input))
    IN  /\ \A name \in DOMAIN routes : [name |-> name, id |-> routes[name]] \in routed
        /\ \A c \in routed : c.name \in DOMAIN routes

\* Every entry of the map by name is one of the chains of that name, and every
\* chain's name has an entry.
LEMMA MapAgrees ==
    ASSUME NEW input \in Inputs
    PROVE  RoutesAgree(ChainRouteMap(Found(input)), input)
  <1> DEFINE chains == Found(input)
             routes == ChainRouteMap(chains)
             Named(name) == {i \in DOMAIN chains : chains[i].name = name}
  <1>1. PICK n \in Nat :
          /\ DOMAIN chains = 1..n
          /\ \A i \in 1..n : chains[i] = [name |-> chains[i].name, id |-> chains[i].id]
    <2>1. CASE input = None
      <3>1. DOMAIN chains = 1..0
        BY <2>1 DEF Found
      <3> HIDE DEF chains
      <3>2. QED
        BY <3>1
    <2>2. CASE input # None
      <3> DEFINE listed == Blockchains[input]
      <3>1. listed \in Seq([name : STRING, id : STRING])
        BY <2>2, ChainsAssumption DEF Inputs
      <3> HIDE DEF listed
      <3>2. chains = [i \in DOMAIN listed |->
                        [listed[i] EXCEPT !.name = IF listed[i].name = "" THEN "unknown"
                                                   ELSE listed[i].name]]
        BY <2>2 DEF Found, listed
      <3>3. DOMAIN listed = 1..Len(listed) /\ Len(listed) \in Nat
        BY <3>1
      <3>4. \A i \in DOMAIN listed : listed[i] \in [name : STRING, id : STRING]
        BY <3>1, <3>3, ElementOfSeq
      <3> HIDE DEF chains
      <3>5. \A i \in DOMAIN listed :
              chains[i] = [name |-> chains[i].name, id |-> chains[i].id]
        <4> SUFFICES ASSUME NEW i \in DOMAIN listed
                     PROVE  chains[i] = [name |-> chains[i].name, id |-> chains[i].id]
          OBVIOUS
        <4> DEFINE c == listed[i]
                   called == IF c.name = "" THEN "unknown" ELSE c.name
        <4>1. c \in [name : STRING, id : STRING]
          BY <3>4
        <4>2. chains[i] = [c EXCEPT !.name = called]
          BY <3>2
        <4> HIDE DEF c, called
        <4>3. QED
          BY <4>1, <4>2
      <3>6. QED
        BY <3>2, <3>3, <3>5
    <2>3. QED
      BY <2>1, <2>2
  <1>2. /\ DOMAIN routes = {chains[i].name : i \in DOMAIN chains}
        /\ \A name \in DOMAIN routes : routes[name] = chains[Max(Named(name))].id
    BY DEF ChainRouteMap
  <1> HIDE DEF chains, routes
  <1>3. ASSUME NEW name \in DOMAIN routes
        PROVE  [name |-> name, id |-> routes[name]] \in Range(chains)
    <2>1. Named(name) \in SUBSET (0..n) /\ Named(name) # {}
      BY <1>1, <1>2
    <2>2. Max(Named(name)) \in Named(name)
      BY <2>1, MaxFacts
    <2> DEFINE last == Max(Named(name))
    <2>3. last \in 1..n /\ chains[last].name = name /\ routes[name] = chains[last].id
      BY <1>1, <1>2, <2>2
    <2> HIDE DEF last
    <2>4. chains[last] = [name |-> name, id |-> routes[name]]
      BY <1>1, <2>3
    <2>5. QED
      BY <1>1, <2>3, <2>4 DEF Range
  <1>4. \A c \in Range(chains) : c.name \in DOMAIN routes
    BY <1>2 DEF Range
  <1>5. QED
    BY <1>3, <1>4 DEF RoutesAgree, chains, routes

\* A status update that goes through reports the current generation, with its
\* children built.  What a Gateway reports by name are chains its ConfigMap has
\* routes of, and of each of those the name is reported, however far apart the
\* discovery, the ConfigMap and the update are: chains that share a name share
\* the entry (chainRouteMap).
THEOREM ReportsApplied == Spec => ReportsWhatWasApplied
  <1>1. ASSUME WorkloadInv, [Next]_vars, status' # status
        PROVE  WriteStatus
    <2>1. ~Fetch
      BY <1>1 DEF Fetch, object
    <2>2. ~PassStep /\ ~Elsewhere
      BY <1>1, PassStepFacts, ElsewhereFacts DEF WorkloadInv
    <2>3. ~UNCHANGED vars
      BY <1>1 DEF vars
    <2>4. PassEnds
      BY <1>1, <2>1, <2>2, <2>3, NextSplits
    <2>5. QED
      BY <1>1, <2>4
         DEF PassEnds, ApplyRefused, Conflict, CallFails, Restart, object
  <1>2. ASSUME WorkloadInv, WriteStatus
        PROVE  /\ status'.observed = gen
               /\ \A c \in Required(specOf[gen]) : Updated(c) => child[c].gen = gen
               /\ kind = "Gateway" =>
                    RoutesAgree(status'.routes, child[<<0, "configmap">>].input)
    <2>1. \A c \in Required(specOf[gen]) : Updated(c) => child[c].gen = gen
      BY <1>2, WriteFacts DEF Complete, Has
    <2>2. ASSUME kind = "Gateway"
          PROVE  RoutesAgree(status'.routes, child[<<0, "configmap">>].input)
      <3>1. status'.routes = ChainRouteMap(Found(child[<<0, "configmap">>].input))
        BY <1>2, <2>2, WriteFacts
      <3>2. child[<<0, "configmap">>].input \in Inputs
        BY <1>2 DEF WorkloadInv, Typed, TypeOK, Children, Parts, Whats, MaxSides
      <3>3. QED
        BY <3>1, <3>2, MapAgrees
    <2>3. QED
      BY <1>2, <2>1, <2>2, WriteFacts
  <1>3. WorkloadInv /\ [Next]_vars =>
          [status' # status =>
             /\ status'.observed = gen
             /\ \A c \in Required(specOf[gen]) : Updated(c) => child[c].gen = gen
             /\ kind = "Gateway" =>
                  LET routed == Range(Found(child[<<0, "configmap">>].input))
                  IN  /\ \A name \in DOMAIN status'.routes :
                           [name |-> name, id |-> status'.routes[name]] \in routed
                      /\ \A c \in routed : c.name \in DOMAIN status'.routes]_vars
    BY <1>1, <1>2 DEF RoutesAgree
  <1>4. QED
    BY <1>3, WorkloadInvariant, PTL DEF Spec, ReportsWhatWasApplied
===============================================================================
