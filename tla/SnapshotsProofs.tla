---------------------------- MODULE SnapshotsProofs ----------------------------
(***************************************************************************)
(* What holds of the snapshots for every number of clusters and prefixes,  *)
(* for every retention and however long the clock runs.                    *)
(***************************************************************************)
EXTENDS Snapshots, FiniteSetTheorems, TLAPS

USE RetentionAssumption, TimeAssumption

-------------------------------------------------------------------------------
(* Types.                                                                  *)

\* A pod is only restarted while the Job's backoff limit allows it.
RestartsLeft == \A c \in Clusters : step[c] = "restart" => tries[c] < BackoffLimit

Typed == TypeOK /\ RestartsLeft

\* What a script that begins does to every variable but tries.
LEMMA BeginTyped ==
    ASSUME TypeOK, NEW c \in Clusters, Begin(c)
    PROVE  /\ ts' \in [Clusters -> Times]
           /\ step' \in [Clusters -> Steps]
           /\ \A d \in Clusters : step'[d] = "restart" => d # c /\ step[d] = "restart"
           /\ UNCHANGED <<prefixOf, retention, now, store, doomed, made>>
  BY DEF TypeOK, Begin, Steps, given

LEMMA TypedInit == Init => Typed
  BY DEF Init, Typed, TypeOK, RestartsLeft, Times, Steps, BackoffLimit

LEMMA TypedNext == Typed /\ [Next]_vars => Typed'
  <1> SUFFICES ASSUME Typed, [Next]_vars PROVE Typed'
    OBVIOUS
  <1> USE DEF Typed
  <1>1. CASE UNCHANGED vars
    BY <1>1 DEF vars, TypeOK, RestartsLeft
  <1>2. CASE Tick
    BY <1>2 DEF Tick, TypeOK, RestartsLeft, Times, given
  <1>3. ASSUME NEW c \in Clusters, StartJob(c) PROVE Typed'
    <2>1. Begin(c)
      BY <1>3 DEF StartJob
    <2>2. /\ tries' \in [Clusters -> 0..BackoffLimit]
          /\ \A d \in Clusters \ {c} : tries'[d] = tries[d]
      BY <1>3 DEF StartJob, TypeOK, BackoffLimit
    <2>3. TypeOK'
      BY <2>1, <2>2, BeginTyped DEF TypeOK
    <2>4. RestartsLeft'
      BY <2>1, <2>2, BeginTyped DEF RestartsLeft
    <2>5. QED
      BY <2>3, <2>4
  <1>4. ASSUME NEW c \in Clusters, Restart(c) PROVE Typed'
    <2>1. Begin(c)
      BY <1>4 DEF Restart
    <2>2. /\ tries' \in [Clusters -> 0..BackoffLimit]
          /\ \A d \in Clusters \ {c} : tries'[d] = tries[d]
      BY <1>4 DEF Restart, RestartsLeft, TypeOK, BackoffLimit
    <2>3. TypeOK'
      BY <2>1, <2>2, BeginTyped DEF TypeOK
    <2>4. RestartsLeft'
      BY <2>1, <2>2, BeginTyped DEF RestartsLeft
    <2>5. QED
      BY <2>3, <2>4
  <1>5. ASSUME NEW c \in Clusters, Fail(c) PROVE Typed'
    BY <1>5 DEF Fail, TypeOK, RestartsLeft, Steps, given
  <1>6. ASSUME NEW c \in Clusters, RequestSnapshot(c) PROVE Typed'
    BY <1>6 DEF RequestSnapshot, TypeOK, RestartsLeft, Steps, given
  <1>7. ASSUME NEW c \in Clusters, Upload(c) PROVE Typed'
    <2>1. store' \subseteq Archive
      BY <1>7 DEF Upload, TypeOK, Archive
    <2>2. /\ step' \in [Clusters -> Steps]
          /\ made' \in [Clusters -> Nat]
          /\ \A d \in Clusters : step'[d] = "restart" => step[d] = "restart"
      BY <1>7 DEF Upload, TypeOK, Steps
    <2>3. QED
      BY <1>7, <2>1, <2>2 DEF Upload, TypeOK, RestartsLeft, given
  <1>8. ASSUME NEW c \in Clusters, List(c) PROVE Typed'
    <2>1. BeyondRetention(c) \subseteq Key
      BY DEF BeyondRetention, KeyOf, Key, Archive, TypeOK
    <2>2. doomed' \in [Clusters -> SUBSET Key]
      BY <1>8, <2>1 DEF List, TypeOK
    <2>3. /\ step' \in [Clusters -> Steps]
          /\ \A d \in Clusters : step'[d] = "restart" => step[d] = "restart"
      BY <1>8 DEF List, TypeOK, Steps
    <2>4. QED
      BY <1>8, <2>2, <2>3 DEF List, TypeOK, RestartsLeft, given
  <1>9. ASSUME NEW c \in Clusters, Remove(c) PROVE Typed'
    <2>1. store' \subseteq store
      BY <1>9 DEF Remove
    <2>2. doomed' \in [Clusters -> SUBSET Key]
      BY <1>9 DEF Remove, TypeOK
    <2>3. QED
      BY <1>9, <2>1, <2>2 DEF Remove, TypeOK, RestartsLeft, given
  <1>10. ASSUME NEW c \in Clusters, Finish(c) PROVE Typed'
    BY <1>10 DEF Finish, TypeOK, RestartsLeft, Steps, given
  <1>11. QED
    BY <1>1, <1>2, <1>3, <1>4, <1>5, <1>6, <1>7, <1>8, <1>9, <1>10 DEF Next

-------------------------------------------------------------------------------
(* The bucket.                                                             *)

\* Archives have different keys, and the prefix and at most the time of the last
\* run of the cluster that made them.
Bucket ==
    /\ IsFiniteSet(store)
    /\ \A a, b \in store : KeyOf(a) = KeyOf(b) => a = b
    /\ \A a \in store : a.prefix = prefixOf[a.by] /\ a.ts <= ts[a.by]

\* As many archives are newer than a key as some cluster of the prefix retains.
Surplus(k) ==
    \E n \in RetainedBy(k.prefix) : Cardinality(Newer(k.prefix, k.ts)) >= n

\* What a run is about to remove is still surplus, whatever others removed.
DoomedAreSurplus ==
    \A c \in Clusters : \A k \in doomed[c] :
        /\ step[c] = "prune"
        /\ k.prefix = prefixOf[c]
        /\ Surplus(k)

\* From its upload on, the archive of a cluster alone under its prefix is there
\* and not among those the run removes.
OwnUploaded ==
    \A c \in Clusters : Unshared(c) /\ step[c] \in {"list", "prune", "done"} =>
        /\ \E a \in store : a.prefix = prefixOf[c] /\ a.ts = ts[c]
        /\ \A k \in doomed[c] : k.ts # ts[c]

PruneInv == Typed /\ Bucket /\ DoomedAreSurplus /\ OwnUploaded

LEMMA RetainPositive ==
    ASSUME TypeOK, NEW c \in Clusters
    PROVE  Retain(c) \in Nat \ {0}
  <1>1. retention[c] \in Int
    BY DEF TypeOK
  <1>2. QED
    BY <1>1 DEF Retain, DefaultRetention

LEMMA NewerFinite ==
    ASSUME IsFiniteSet(store), NEW p, NEW t
    PROVE  /\ IsFiniteSet(Newer(p, t))
           /\ Cardinality(Newer(p, t)) \in Nat
  <1>1. Newer(p, t) \in SUBSET store
    BY DEF Newer
  <1>2. QED
    BY <1>1, FS_Subset, FS_CardinalityType

\* A retention is a whole number of archives.
LEMMA RetainedNumbers ==
    ASSUME TypeOK, NEW p, NEW n \in RetainedBy(p)
    PROVE  n \in Nat
  BY RetainPositive DEF RetainedBy

\* Removing a surplus key leaves every surplus key surplus: those older than the
\* one removed have all that are newer than it.
LEMMA SurplusAfterRemoval ==
    ASSUME TypeOK, IsFiniteSet(store), UNCHANGED <<prefixOf, retention>>,
           NEW j \in Key, Surplus(j),
           store' = {a \in store : KeyOf(a) # j},
           NEW k \in Key, Surplus(k)
    PROVE  Surplus(k)'
  <1>1. RetainedBy(k.prefix)' = RetainedBy(k.prefix)
    BY DEF RetainedBy, Retain
  <1>2. \A a \in store : a.prefix \in Prefixes /\ a.ts \in Int
    BY DEF TypeOK, Archive, Times
  <1>3. k.ts \in Int /\ j.ts \in Int
    BY DEF Key, Times
  <1>4. CASE k.prefix = j.prefix /\ k.ts < j.ts
    <2>1. Newer(j.prefix, j.ts) \subseteq Newer(k.prefix, k.ts)'
      BY <1>2, <1>3, <1>4 DEF Newer, KeyOf
    <2>2. IsFiniteSet(store')
      BY FS_Subset
    <2>3. IsFiniteSet(Newer(k.prefix, k.ts)')
      <3>1. Newer(k.prefix, k.ts)' \in SUBSET store'
        BY DEF Newer
      <3>2. QED
        BY <2>2, <3>1, FS_Subset
    <2>4. Cardinality(Newer(j.prefix, j.ts)) <= Cardinality(Newer(k.prefix, k.ts)')
      BY <2>1, <2>3, FS_Subset
    <2>5. PICK n \in RetainedBy(j.prefix) :
             Cardinality(Newer(j.prefix, j.ts)) >= n
      BY DEF Surplus
    <2>6. /\ Cardinality(Newer(j.prefix, j.ts)) \in Nat
          /\ Cardinality(Newer(k.prefix, k.ts)') \in Nat
          /\ n \in Nat
      BY <2>3, <2>5, NewerFinite, RetainedNumbers, FS_CardinalityType
    <2>7. Cardinality(Newer(k.prefix, k.ts)') >= n
      BY <2>4, <2>5, <2>6
    <2>8. QED
      BY <1>1, <1>4, <2>5, <2>7 DEF Surplus
  <1>5. CASE ~(k.prefix = j.prefix /\ k.ts < j.ts)
    <2>1. Newer(k.prefix, k.ts)' = Newer(k.prefix, k.ts)
      BY <1>2, <1>3, <1>5 DEF Newer, KeyOf
    <2>2. QED
      BY <1>1, <2>1 DEF Surplus
  <1>6. QED
    BY <1>4, <1>5

\* An upload adds an archive, or puts one in the place of another.
LEMMA UploadedKeys ==
    ASSUME TypeOK, Bucket, NEW c \in Clusters, Upload(c),
           NEW new, new = [prefix |-> prefixOf[c], ts |-> ts[c], by |-> c]
    PROVE  \/ store' = store \cup {new}
           \/ \E o \in store : /\ KeyOf(o) = KeyOf(new)
                               /\ store' = (store \ {o}) \cup {new}
  <1>1. store' = {a \in store : KeyOf(a) # KeyOf(new)} \cup {new}
    BY DEF Upload
  <1>2. CASE \E o \in store : KeyOf(o) = KeyOf(new)
    <2>1. PICK o \in store : KeyOf(o) = KeyOf(new)
      BY <1>2
    <2>2. {a \in store : KeyOf(a) # KeyOf(new)} = store \ {o}
      BY <2>1 DEF Bucket
    <2>3. QED
      BY <1>1, <2>1, <2>2
  <1>3. CASE \A o \in store : KeyOf(o) # KeyOf(new)
    BY <1>1, <1>3
  <1>4. QED
    BY <1>2, <1>3

\* No upload makes a key needed that was surplus.
LEMMA SurplusAfterUpload ==
    ASSUME TypeOK, Bucket, NEW c \in Clusters, Upload(c), NEW k \in Key, Surplus(k)
    PROVE  Surplus(k)'
  <1> DEFINE new == [prefix |-> prefixOf[c], ts |-> ts[c], by |-> c]
             N == Newer(k.prefix, k.ts)
             M == Newer(k.prefix, k.ts)'
  <1>1. RetainedBy(k.prefix)' = RetainedBy(k.prefix)
    BY DEF RetainedBy, Retain, Upload, given
  <1>2. IsFiniteSet(N) /\ Cardinality(N) \in Nat
    BY NewerFinite DEF Bucket
  <1>3. Cardinality(M) \in Nat /\ Cardinality(M) >= Cardinality(N)
    <2>1. CASE store' = store \cup {new}
      <3>1. M = N \/ M = N \cup {new}
        BY <2>1 DEF Newer
      <3>2. /\ Cardinality(N \cup {new}) \in Nat
            /\ Cardinality(N \cup {new}) >= Cardinality(N)
        <4>1. Cardinality(N \cup {new}) =
                IF new \in N THEN Cardinality(N) ELSE Cardinality(N) + 1
          BY <1>2, FS_AddElement
        <4>2. QED
          BY <1>2, <4>1
      <3>3. QED
        BY <1>2, <3>1, <3>2
    <2>2. ASSUME NEW o \in store, KeyOf(o) = KeyOf(new),
                 store' = (store \ {o}) \cup {new}
          PROVE  Cardinality(M) \in Nat /\ Cardinality(M) >= Cardinality(N)
      <3>1. o.prefix = new.prefix /\ o.ts = new.ts
        BY <2>2 DEF KeyOf
      <3>2. CASE o \in N
        <4>1. M = (N \ {o}) \cup {new}
          BY <2>2, <3>1, <3>2 DEF Newer
        <4>2. new = o \/ new \notin N \ {o}
          BY <2>2 DEF Newer, Bucket
        <4>3. IsFiniteSet(N \ {o}) /\ Cardinality(N \ {o}) = Cardinality(N) - 1
          BY <1>2, <3>2, FS_RemoveElement
        <4>4. new \notin N \ {o}
          BY <4>2
        <4>5. Cardinality(M) = Cardinality(N \ {o}) + 1
          BY <4>1, <4>3, <4>4, FS_AddElement
        <4>6. QED
          BY <1>2, <4>3, <4>5
      <3>3. CASE o \notin N
        <4>1. M = N
          BY <2>2, <3>1, <3>3 DEF Newer
        <4>2. QED
          BY <1>2, <4>1
      <3>4. QED
        BY <3>2, <3>3
    <2>3. QED
      BY <2>1, <2>2, UploadedKeys
  <1>4. PICK n \in RetainedBy(k.prefix) : Cardinality(N) >= n
    BY DEF Surplus
  <1>5. n \in Nat
    BY <1>4, RetainedNumbers
  <1>6. Cardinality(M) >= n
    BY <1>2, <1>3, <1>4, <1>5
  <1>7. QED
    BY <1>1, <1>4, <1>6 DEF Surplus

LEMMA PruneInit == Init => PruneInv
  <1> SUFFICES ASSUME Init PROVE PruneInv
    OBVIOUS
  <1>1. Bucket
    BY FS_EmptySet DEF Init, Bucket
  <1>2. DoomedAreSurplus /\ OwnUploaded
    BY DEF Init, DoomedAreSurplus, OwnUploaded
  <1>3. QED
    BY <1>1, <1>2, TypedInit DEF PruneInv

\* While the bucket and the specs stay, what is surplus stays so.
LEMMA SurplusUnchanged ==
    ASSUME UNCHANGED <<prefixOf, retention, store>>, NEW k, Surplus(k)
    PROVE  Surplus(k)'
  BY DEF Surplus, RetainedBy, Retain, Newer

\* Steps that touch neither the bucket nor the times keep it in order.
LEMMA BucketUnchanged ==
    ASSUME Bucket, UNCHANGED <<prefixOf, store, ts>>
    PROVE  Bucket'
  BY DEF Bucket

LEMMA BeginPrune ==
    ASSUME PruneInv, NEW c \in Clusters, Begin(c), step[c] # "prune"
    PROVE  Bucket' /\ DoomedAreSurplus' /\ OwnUploaded'
  <1>1. /\ ts' = [ts EXCEPT ![c] = now] /\ ts[c] < now
        /\ step' = [step EXCEPT ![c] = "request"]
        /\ UNCHANGED <<prefixOf, retention, store, doomed>>
    BY DEF Begin, given
  <1>2. TypeOK
    BY DEF PruneInv, Typed
  <1>3. \A d \in Clusters : ts[d] \in Int /\ ts'[d] \in Int /\ ts[d] <= ts'[d]
    BY <1>1, <1>2 DEF TypeOK, Times
  <1>4. \A a \in store : a.by \in Clusters /\ a.ts \in Int
    BY <1>2 DEF TypeOK, Archive, Times
  <1>5. Bucket'
    BY <1>1, <1>3, <1>4 DEF PruneInv, Bucket, KeyOf
  <1>6. DoomedAreSurplus'
    <2> SUFFICES ASSUME NEW d \in Clusters, NEW k \in doomed'[d]
                 PROVE  step'[d] = "prune" /\ k.prefix = prefixOf'[d] /\ Surplus(k)'
      BY DEF DoomedAreSurplus
    <2>1. step[d] = "prune" /\ k.prefix = prefixOf[d] /\ Surplus(k)
      BY <1>1 DEF PruneInv, DoomedAreSurplus
    <2>2. Surplus(k)'
      BY <1>1, <2>1, SurplusUnchanged
    <2>3. QED
      BY <1>1, <1>2, <2>1, <2>2 DEF TypeOK
  <1>7. OwnUploaded'
    BY <1>1, <1>2 DEF PruneInv, OwnUploaded, Unshared, TypeOK
  <1>8. QED
    BY <1>5, <1>6, <1>7

LEMMA FailPrune ==
    ASSUME PruneInv, NEW c \in Clusters, Fail(c)
    PROVE  Bucket' /\ DoomedAreSurplus' /\ OwnUploaded'
  <1>1. /\ doomed' = [doomed EXCEPT ![c] = {}]
        /\ step'[c] \in {"restart", "idle"}
        /\ \A d \in Clusters \ {c} : step'[d] = step[d]
        /\ UNCHANGED <<prefixOf, retention, store, ts>>
    BY DEF Fail, given, PruneInv, Typed, TypeOK
  <1>2. Bucket'
    BY <1>1, BucketUnchanged DEF PruneInv
  <1>3. \A d \in Clusters : doomed'[d] = IF d = c THEN {} ELSE doomed[d]
    BY <1>1 DEF PruneInv, Typed, TypeOK
  <1>4. DoomedAreSurplus'
    <2> SUFFICES ASSUME NEW d \in Clusters, NEW k \in doomed'[d]
                 PROVE  step'[d] = "prune" /\ k.prefix = prefixOf'[d] /\ Surplus(k)'
      BY DEF DoomedAreSurplus
    <2>1. d # c /\ k \in doomed[d]
      BY <1>3
    <2>2. step[d] = "prune" /\ k.prefix = prefixOf[d] /\ Surplus(k)
      BY <2>1 DEF PruneInv, DoomedAreSurplus
    <2>3. QED
      BY <1>1, <2>1, <2>2, SurplusUnchanged
  <1>5. OwnUploaded'
    BY <1>1, <1>3 DEF PruneInv, OwnUploaded, Unshared
  <1>6. QED
    BY <1>2, <1>4, <1>5

LEMMA UploadPrune ==
    ASSUME PruneInv, NEW c \in Clusters, Upload(c)
    PROVE  Bucket' /\ DoomedAreSurplus' /\ OwnUploaded'
  <1> DEFINE new == [prefix |-> prefixOf[c], ts |-> ts[c], by |-> c]
  <1>1. /\ step[c] = "stream"
        /\ store' = {a \in store : KeyOf(a) # KeyOf(new)} \cup {new}
        /\ step' = [step EXCEPT ![c] = "list"]
        /\ UNCHANGED <<prefixOf, retention, ts, doomed>>
    BY DEF Upload, given
  <1>2. TypeOK /\ Bucket
    BY DEF PruneInv, Typed
  <1>3. Bucket'
    <2>1. IsFiniteSet(store')
      <3>1. {a \in store : KeyOf(a) # KeyOf(new)} \in SUBSET store
        OBVIOUS
      <3>2. IsFiniteSet({a \in store : KeyOf(a) # KeyOf(new)})
        BY <1>2, <3>1, FS_Subset DEF Bucket
      <3>3. QED
        BY <1>1, <3>2, FS_AddElement
    <2>2. \A a, b \in store' : KeyOf(a) = KeyOf(b) => a = b
      BY <1>1, <1>2 DEF Bucket
    <2>3. \A a \in store' : a.prefix = prefixOf'[a.by] /\ a.ts <= ts'[a.by]
      <3>1. ts[c] \in Int
        BY <1>2 DEF TypeOK, Times
      <3>2. QED
        BY <1>1, <1>2, <3>1 DEF Bucket
    <2>4. QED
      BY <2>1, <2>2, <2>3 DEF Bucket, KeyOf
  <1>4. DoomedAreSurplus'
    <2> SUFFICES ASSUME NEW d \in Clusters, NEW k \in doomed'[d]
                 PROVE  step'[d] = "prune" /\ k.prefix = prefixOf'[d] /\ Surplus(k)'
      BY DEF DoomedAreSurplus
    <2>1. step[d] = "prune" /\ k.prefix = prefixOf[d] /\ Surplus(k)
      BY <1>1 DEF PruneInv, DoomedAreSurplus
    <2>2. k \in Key
      BY <1>1, <1>2 DEF TypeOK
    <2>3. Surplus(k)'
      BY <1>2, <2>1, <2>2, SurplusAfterUpload
    <2>4. d # c
      BY <1>1, <2>1
    <2>5. QED
      BY <1>1, <1>2, <2>1, <2>3, <2>4 DEF TypeOK
  <1>5. OwnUploaded'
    <2> SUFFICES ASSUME NEW d \in Clusters, Unshared(d)',
                        step'[d] \in {"list", "prune", "done"}
                 PROVE  /\ \E a \in store' : a.prefix = prefixOf'[d] /\ a.ts = ts'[d]
                        /\ \A k \in doomed'[d] : k.ts # ts'[d]
      BY DEF OwnUploaded
    <2>1. Unshared(d)
      BY <1>1 DEF Unshared
    <2>2. CASE d = c
      <3>1. doomed[c] = {}
        BY <1>1 DEF PruneInv, DoomedAreSurplus
      <3>2. QED
        BY <1>1, <2>2, <3>1
    <2>3. CASE d # c
      <3>1. step[d] = step'[d]
        BY <1>1, <1>2, <2>3 DEF TypeOK
      <3>2. PICK a \in store : a.prefix = prefixOf[d] /\ a.ts = ts[d]
        BY <2>1, <3>1 DEF PruneInv, OwnUploaded
      <3>3. prefixOf[c] # prefixOf[d]
        BY <2>1, <2>3 DEF Unshared
      <3>4. KeyOf(a) # KeyOf(new)
        BY <3>2, <3>3 DEF KeyOf
      <3>5. a \in store'
        BY <1>1, <3>4
      <3>6. \A k \in doomed[d] : k.ts # ts[d]
        BY <2>1, <3>1 DEF PruneInv, OwnUploaded
      <3>7. QED
        BY <1>1, <3>2, <3>5, <3>6
    <2>4. QED
      BY <2>2, <2>3
  <1>6. QED
    BY <1>3, <1>4, <1>5

LEMMA ListPrune ==
    ASSUME PruneInv, NEW c \in Clusters, List(c)
    PROVE  Bucket' /\ DoomedAreSurplus' /\ OwnUploaded'
  <1>1. /\ step[c] = "list"
        /\ step' = [step EXCEPT ![c] = "prune"]
        /\ UNCHANGED <<prefixOf, retention, store, ts>>
    BY DEF List, given
  <1>2. PICK keys \in {BeyondRetention(c), {}} : doomed' = [doomed EXCEPT ![c] = keys]
    BY DEF List
  <1>3. TypeOK /\ Bucket
    BY DEF PruneInv, Typed
  <1>4. keys \subseteq BeyondRetention(c)
    BY <1>2
  <1>5. Bucket'
    BY <1>1, <1>3, BucketUnchanged
  <1>6. DoomedAreSurplus'
    <2> SUFFICES ASSUME NEW d \in Clusters, NEW k \in doomed'[d]
                 PROVE  step'[d] = "prune" /\ k.prefix = prefixOf'[d] /\ Surplus(k)'
      BY DEF DoomedAreSurplus
    <2>1. CASE d = c
      <3>1. k \in BeyondRetention(c)
        BY <1>2, <1>3, <1>4, <2>1 DEF TypeOK
      <3>2. /\ k.prefix = prefixOf[c]
            /\ Cardinality(Newer(k.prefix, k.ts)) >= Retain(c)
        BY <3>1 DEF BeyondRetention
      <3>3. Retain(c) \in RetainedBy(k.prefix)
        BY <3>2 DEF RetainedBy
      <3>4. Surplus(k)
        BY <3>2, <3>3 DEF Surplus
      <3>5. QED
        BY <1>1, <1>3, <2>1, <3>2, <3>4, SurplusUnchanged DEF TypeOK
    <2>2. CASE d # c
      <3>1. k \in doomed[d]
        BY <1>2, <1>3, <2>2 DEF TypeOK
      <3>2. step[d] = "prune" /\ k.prefix = prefixOf[d] /\ Surplus(k)
        BY <3>1 DEF PruneInv, DoomedAreSurplus
      <3>3. QED
        BY <1>1, <1>3, <2>2, <3>2, SurplusUnchanged DEF TypeOK
    <2>3. QED
      BY <2>1, <2>2
  <1>7. OwnUploaded'
    <2> SUFFICES ASSUME NEW d \in Clusters, Unshared(d)',
                        step'[d] \in {"list", "prune", "done"}
                 PROVE  /\ \E a \in store' : a.prefix = prefixOf'[d] /\ a.ts = ts'[d]
                        /\ \A k \in doomed'[d] : k.ts # ts'[d]
      BY DEF OwnUploaded
    <2>1. Unshared(d)
      BY <1>1 DEF Unshared
    <2>2. step[d] \in {"list", "prune", "done"}
      BY <1>1, <1>3 DEF TypeOK
    <2>3. /\ \E a \in store : a.prefix = prefixOf[d] /\ a.ts = ts[d]
          /\ \A k \in doomed[d] : k.ts # ts[d]
      BY <2>1, <2>2 DEF PruneInv, OwnUploaded
    <2>4. CASE d = c
      <3>1. \A a \in store : a.prefix = prefixOf[c] => a.by = c /\ a.ts <= ts[c]
        BY <1>3, <2>1, <2>4 DEF Unshared, Bucket, TypeOK, Archive
      <3>2. ts[c] \in Int /\ \A a \in store : a.ts \in Int
        BY <1>3 DEF TypeOK, Archive, Times
      <3>3. Newer(prefixOf[c], ts[c]) = {}
        BY <3>1, <3>2 DEF Newer
      <3>4. Cardinality(Newer(prefixOf[c], ts[c])) = 0
        BY <3>3, FS_EmptySet
      <3>5. Retain(c) \in Nat \ {0}
        BY <1>3, RetainPositive
      <3>6. \A k \in BeyondRetention(c) : k.ts # ts[c]
        <4> SUFFICES ASSUME NEW k \in BeyondRetention(c), k.ts = ts[c] PROVE FALSE
          OBVIOUS
        <4>1. /\ k.prefix = prefixOf[c]
              /\ Cardinality(Newer(k.prefix, k.ts)) >= Retain(c)
          BY DEF BeyondRetention
        <4>2. 0 >= Retain(c)
          BY <3>4, <4>1
        <4>3. QED
          BY <3>5, <4>2
      <3>7. doomed'[c] = keys
        BY <1>2, <1>3 DEF TypeOK
      <3>8. \A k \in doomed'[d] : k.ts # ts'[d]
        BY <1>1, <1>4, <2>4, <3>6, <3>7
      <3>9. QED
        BY <1>1, <2>3, <3>8
    <2>5. CASE d # c
      <3>1. doomed'[d] = doomed[d]
        BY <1>2, <1>3, <2>5 DEF TypeOK
      <3>2. QED
        BY <1>1, <2>3, <3>1
    <2>6. QED
      BY <2>4, <2>5
  <1>8. QED
    BY <1>5, <1>6, <1>7

\* What a removal does: the bucket stays, or loses the archive of one key that
\* the run of c held for surplus.
LEMMA Removal ==
    ASSUME PruneInv, NEW c \in Clusters, Remove(c)
    PROVE  \E k \in doomed[c] :
              /\ k \in Key /\ k.prefix = prefixOf[c] /\ Surplus(k)
              /\ store' = store \/ store' = {a \in store : KeyOf(a) # k}
  <1>1. PICK k \in doomed[c] :
           store' = {a \in store : KeyOf(a) # k} \/ store' = store
    BY DEF Remove
  <1>2. k \in Key /\ k.prefix = prefixOf[c] /\ Surplus(k)
    BY DEF PruneInv, Typed, TypeOK, DoomedAreSurplus
  <1>3. QED
    BY <1>1, <1>2

LEMMA RemovePrune ==
    ASSUME PruneInv, NEW c \in Clusters, Remove(c)
    PROVE  Bucket' /\ DoomedAreSurplus' /\ OwnUploaded'
  <1>1. UNCHANGED <<prefixOf, retention, step, ts>>
    BY DEF Remove, given
  <1>2. \A d \in Clusters : doomed'[d] \subseteq doomed[d]
    BY DEF Remove, PruneInv, Typed, TypeOK
  <1>3. TypeOK /\ Bucket
    BY DEF PruneInv, Typed
  <1>4. PICK j \in doomed[c] :
           /\ j \in Key /\ j.prefix = prefixOf[c] /\ Surplus(j)
           /\ store' = store \/ store' = {a \in store : KeyOf(a) # j}
    BY Removal
  <1>5. store' \subseteq store
    BY <1>4
  <1>6. Bucket'
    <2>1. IsFiniteSet(store')
      BY <1>3, <1>5, FS_Subset DEF Bucket
    <2>2. QED
      BY <1>1, <1>3, <1>5, <2>1 DEF Bucket
  <1>7. DoomedAreSurplus'
    <2> SUFFICES ASSUME NEW d \in Clusters, NEW k \in doomed'[d]
                 PROVE  step'[d] = "prune" /\ k.prefix = prefixOf'[d] /\ Surplus(k)'
      BY DEF DoomedAreSurplus
    <2>1. k \in doomed[d] /\ k \in Key
      BY <1>2, <1>3 DEF TypeOK
    <2>2. step[d] = "prune" /\ k.prefix = prefixOf[d] /\ Surplus(k)
      BY <2>1 DEF PruneInv, DoomedAreSurplus
    <2>3. CASE store' = store
      BY <1>1, <2>2, <2>3, SurplusUnchanged
    <2>4. CASE store' = {a \in store : KeyOf(a) # j}
      <3>1. Surplus(k)'
        BY <1>1, <1>3, <1>4, <2>1, <2>2, <2>4, SurplusAfterRemoval DEF Bucket
      <3>2. QED
        BY <1>1, <2>2, <3>1
    <2>5. QED
      BY <1>4, <2>3, <2>4
  <1>8. OwnUploaded'
    <2> SUFFICES ASSUME NEW d \in Clusters, Unshared(d)',
                        step'[d] \in {"list", "prune", "done"}
                 PROVE  /\ \E a \in store' : a.prefix = prefixOf'[d] /\ a.ts = ts'[d]
                        /\ \A k \in doomed'[d] : k.ts # ts'[d]
      BY DEF OwnUploaded
    <2>1. Unshared(d) /\ step[d] \in {"list", "prune", "done"}
      BY <1>1 DEF Unshared
    <2>2. \A k \in doomed[d] : k.ts # ts[d]
      BY <2>1 DEF PruneInv, OwnUploaded
    <2>3. PICK a \in store : a.prefix = prefixOf[d] /\ a.ts = ts[d]
      BY <2>1 DEF PruneInv, OwnUploaded
    <2>4. KeyOf(a) # j
      <3>1. CASE d = c
        BY <1>4, <2>2, <2>3, <3>1 DEF KeyOf
      <3>2. CASE d # c
        BY <1>4, <2>1, <2>3, <3>2 DEF KeyOf, Unshared
      <3>3. QED
        BY <3>1, <3>2
    <2>5. a \in store'
      BY <1>4, <2>4
    <2>6. QED
      BY <1>1, <1>2, <2>2, <2>3, <2>5
  <1>9. QED
    BY <1>6, <1>7, <1>8

\* Steps that only move a run on, or the clock.
LEMMA QuietPrune ==
    ASSUME PruneInv,
           UNCHANGED <<prefixOf, retention, store, ts, doomed>>,
           NEW c, \A d \in Clusters \ {c} : step'[d] = step[d],
           \/ step' = step
           \/ /\ step[c] # "prune" \/ doomed[c] = {}
              /\ step'[c] = "stream" \/ step[c] = "prune"
    PROVE  Bucket' /\ DoomedAreSurplus' /\ OwnUploaded'
  <1>1. Bucket'
    BY BucketUnchanged DEF PruneInv
  <1>2. DoomedAreSurplus'
    <2> SUFFICES ASSUME NEW d \in Clusters, NEW k \in doomed'[d]
                 PROVE  step'[d] = "prune" /\ k.prefix = prefixOf'[d] /\ Surplus(k)'
      BY DEF DoomedAreSurplus
    <2>1. step[d] = "prune" /\ k.prefix = prefixOf[d] /\ Surplus(k)
      BY DEF PruneInv, DoomedAreSurplus
    <2>2. step'[d] = step[d]
      BY <2>1
    <2>3. QED
      BY <2>1, <2>2, SurplusUnchanged
  <1>3. OwnUploaded'
    BY DEF PruneInv, OwnUploaded, Unshared
  <1>4. QED
    BY <1>1, <1>2, <1>3

LEMMA PruneNext == PruneInv /\ [Next]_vars => PruneInv'
  <1> SUFFICES ASSUME PruneInv, [Next]_vars PROVE PruneInv'
    OBVIOUS
  <1>1. Typed'
    BY TypedNext DEF PruneInv
  <1>2. TypeOK
    BY DEF PruneInv, Typed
  <1>3. CASE UNCHANGED vars \/ Tick
    <2>1. UNCHANGED <<prefixOf, retention, store, ts, doomed, step>>
      BY <1>3 DEF Tick, vars, given
    <2>2. Bucket' /\ DoomedAreSurplus' /\ OwnUploaded'
      BY <2>1, QuietPrune
    <2>3. QED
      BY <1>1, <2>2 DEF PruneInv
  <1>4. ASSUME NEW c \in Clusters, StartJob(c) PROVE PruneInv'
    <2>1. Begin(c) /\ step[c] # "prune"
      BY <1>4 DEF StartJob
    <2>2. QED
      BY <1>1, <2>1, BeginPrune DEF PruneInv
  <1>5. ASSUME NEW c \in Clusters, Restart(c) PROVE PruneInv'
    <2>1. Begin(c) /\ step[c] # "prune"
      BY <1>5 DEF Restart
    <2>2. QED
      BY <1>1, <2>1, BeginPrune DEF PruneInv
  <1>6. ASSUME NEW c \in Clusters, Fail(c) PROVE PruneInv'
    BY <1>1, <1>6, FailPrune DEF PruneInv
  <1>7. ASSUME NEW c \in Clusters, RequestSnapshot(c) PROVE PruneInv'
    <2>1. UNCHANGED <<prefixOf, retention, store, ts, doomed>>
      BY <1>7 DEF RequestSnapshot, given
    <2>2. /\ step[c] # "prune" /\ step'[c] = "stream"
          /\ \A d \in Clusters \ {c} : step'[d] = step[d]
      BY <1>2, <1>7 DEF RequestSnapshot, TypeOK
    <2>3. Bucket' /\ DoomedAreSurplus' /\ OwnUploaded'
      BY <2>1, <2>2, QuietPrune
    <2>4. QED
      BY <1>1, <2>3 DEF PruneInv
  <1>8. ASSUME NEW c \in Clusters, Upload(c) PROVE PruneInv'
    BY <1>1, <1>8, UploadPrune DEF PruneInv
  <1>9. ASSUME NEW c \in Clusters, List(c) PROVE PruneInv'
    BY <1>1, <1>9, ListPrune DEF PruneInv
  <1>10. ASSUME NEW c \in Clusters, Remove(c) PROVE PruneInv'
    BY <1>1, <1>10, RemovePrune DEF PruneInv
  <1>11. ASSUME NEW c \in Clusters, Finish(c) PROVE PruneInv'
    <2>1. UNCHANGED <<prefixOf, retention, store, ts, doomed>>
      BY <1>11 DEF Finish, given
    <2>2. /\ step[c] = "prune" /\ doomed[c] = {}
          /\ \A d \in Clusters \ {c} : step'[d] = step[d]
      BY <1>2, <1>11 DEF Finish, TypeOK
    <2>3. Bucket' /\ DoomedAreSurplus' /\ OwnUploaded'
      BY <2>1, <2>2, QuietPrune
    <2>4. QED
      BY <1>1, <2>3 DEF PruneInv
  <1>12. QED
    BY <1>3, <1>4, <1>5, <1>6, <1>7, <1>8, <1>9, <1>10, <1>11 DEF Next

-------------------------------------------------------------------------------
(* The theorems.                                                           *)

\* Clock, bucket and the runs of all clusters stay within their types.
THEOREM TypeCorrect == Spec => []TypeOK
  <1>1. Typed => TypeOK
    BY DEF Typed
  <1>2. QED
    BY <1>1, TypedInit, TypedNext, PTL DEF Spec

\* Whoever prunes a prefix beside whom, and whichever pods are killed: the
\* archive of a key only goes while as many newer ones stay as some cluster of
\* that prefix retains.
THEOREM NewestStayThere == Spec => NewestStay
  <1> DEFINE Kept ==
        \A a \in store :
          KeyOf(a) \notin {KeyOf(b) : b \in store'} =>
             \E n \in RetainedBy(a.prefix) :
                Cardinality({b \in store' : b.prefix = a.prefix /\ b.ts > a.ts}) >= n
  <1>1. ASSUME PruneInv, [Next]_vars PROVE Kept
    <2>1. TypeOK /\ Bucket
      BY <1>1 DEF PruneInv, Typed
    <2>2. CASE store' = store
      BY <2>2
    <2>3. ASSUME NEW c \in Clusters, Upload(c) PROVE Kept
      <3>1. \A a \in store : KeyOf(a) \in {KeyOf(b) : b \in store'}
        BY <2>1, <2>3, UploadedKeys
      <3>2. QED
        BY <3>1
    <2>4. ASSUME NEW c \in Clusters, Remove(c) PROVE Kept
      <3> SUFFICES ASSUME NEW a \in store, KeyOf(a) \notin {KeyOf(b) : b \in store'}
                   PROVE  \E n \in RetainedBy(a.prefix) :
                            Cardinality({b \in store' : b.prefix = a.prefix
                                                        /\ b.ts > a.ts}) >= n
        OBVIOUS
      <3>1. PICK k \in doomed[c] :
               /\ k \in Key /\ k.prefix = prefixOf[c] /\ Surplus(k)
               /\ store' = store \/ store' = {b \in store : KeyOf(b) # k}
        BY <1>1, <2>4, Removal
      <3>2. store' = {b \in store : KeyOf(b) # k} /\ KeyOf(a) = k
        BY <3>1
      <3>3. k.prefix = a.prefix /\ k.ts = a.ts
        BY <3>2 DEF KeyOf
      <3>4. \A b \in store : b.ts \in Int
        BY <2>1 DEF TypeOK, Archive, Times
      <3>5. {b \in store' : b.prefix = a.prefix /\ b.ts > a.ts}
              = Newer(k.prefix, k.ts)
        BY <3>2, <3>3, <3>4 DEF Newer, KeyOf
      <3>6. QED
        BY <3>1, <3>3, <3>5 DEF Surplus
    <2>5. CASE \/ UNCHANGED vars \/ Tick
               \/ \E c \in Clusters : \/ StartJob(c) \/ Restart(c) \/ Fail(c)
                                      \/ RequestSnapshot(c) \/ List(c) \/ Finish(c)
      <3>1. store' = store
        BY <2>5 DEF vars, Tick, StartJob, Restart, Begin, Fail, RequestSnapshot,
                    List, Finish
      <3>2. QED
        BY <2>2, <3>1
    <2>6. QED
      BY <1>1, <2>3, <2>4, <2>5 DEF Next
  <1>2. PruneInv /\ [Next]_vars => [Kept]_vars
    BY <1>1
  <1>3. QED
    BY <1>2, PruneInit, PruneNext, PTL DEF Spec, NewestStay

\* The Job of a cluster with a prefix of its own that succeeds leaves the archive
\* it made as the newest there.
THEOREM OwnIsNewest == Spec => []NewestIsOwn
  <1>1. ASSUME PruneInv PROVE NewestIsOwn
    <2> SUFFICES ASSUME NEW c \in Clusters, Unshared(c), step[c] = "done"
                 PROVE  \E a \in store : /\ a.prefix = prefixOf[c]
                                         /\ a.ts = ts[c]
                                         /\ Newer(a.prefix, a.ts) = {}
      BY DEF NewestIsOwn
    <2>1. TypeOK /\ Bucket
      BY <1>1 DEF PruneInv, Typed
    <2>2. PICK a \in store : a.prefix = prefixOf[c] /\ a.ts = ts[c]
      BY <1>1 DEF PruneInv, OwnUploaded
    <2>3. \A b \in store : b.prefix = prefixOf[c] => b.ts <= ts[c]
      BY <2>1 DEF Unshared, Bucket, TypeOK, Archive
    <2>4. ts[c] \in Int /\ \A b \in store : b.ts \in Int
      BY <2>1 DEF TypeOK, Archive, Times
    <2>5. Newer(a.prefix, a.ts) = {}
      BY <2>2, <2>3, <2>4 DEF Newer
    <2>6. QED
      BY <2>2, <2>5
  <1>2. PruneInv => NewestIsOwn
    BY <1>1
  <1>3. QED
    BY <1>2, PruneInit, PruneNext, PTL DEF Spec
-------------------------------------------------------------------------------
(* How many archives a cluster keeps.                                      *)

Own(c) == {a \in store : a.by = c}

KeepsEnough(c) ==
    Cardinality(Own(c)) >= Retain(c) \/ Cardinality(Own(c)) >= made[c]

\* A run that has not uploaded yet has a key of its own: the clock has moved
\* since the last one.
FreshKey ==
    \A c \in Clusters : step[c] \in {"request", "stream"} =>
        \A a \in Own(c) : a.ts < ts[c]

\* Under the prefix of a cluster that shares it with no other are its own.
LEMMA OwnPrefix ==
    ASSUME TypeOK, Bucket, NEW c \in Clusters, Unshared(c), NEW a \in store
    PROVE  a.prefix = prefixOf[c] <=> a \in Own(c)
  <1>1. a.by \in Clusters /\ a.prefix = prefixOf[a.by]
    BY DEF TypeOK, Archive, Bucket
  <1>2. QED
    BY <1>1 DEF Unshared, Own

LEMMA OwnFinite ==
    ASSUME Bucket, NEW c
    PROVE  IsFiniteSet(Own(c)) /\ Cardinality(Own(c)) \in Nat
  <1>1. Own(c) \in SUBSET store
    BY DEF Own
  <1>2. QED
    BY <1>1, FS_Subset, FS_CardinalityType DEF Bucket

LEMMA FreshKeyNext ==
    ASSUME PruneInv, FreshKey, [Next]_vars
    PROVE  FreshKey'
  <1>1. TypeOK /\ Bucket
    BY DEF PruneInv, Typed
  <1>2. \A a \in store : a.by \in Clusters /\ a.ts \in Int /\ a.ts <= ts[a.by]
    BY <1>1 DEF TypeOK, Archive, Times, Bucket
  <1>3. ASSUME store' \subseteq store, ts' = ts,
               \A d \in Clusters : step'[d] \in {"request", "stream"} =>
                                     step[d] \in {"request", "stream"}
        PROVE  FreshKey'
    BY <1>3 DEF FreshKey, Own
  <1>4. ASSUME NEW c \in Clusters, StartJob(c) \/ Restart(c) PROVE FreshKey'
    <2>1. /\ ts[c] < now /\ ts' = [ts EXCEPT ![c] = now]
          /\ step' = [step EXCEPT ![c] = "request"] /\ store' = store
      BY <1>4 DEF StartJob, Restart, Begin
    <2>2. ts[c] \in Int /\ now \in Int
      BY <1>1 DEF TypeOK, Times
    <2>3. \A a \in store : a.by = c => a.ts < now
      BY <1>2, <2>1, <2>2
    <2>4. QED
      BY <1>1, <2>1, <2>3 DEF FreshKey, Own, TypeOK
  <1>5. ASSUME NEW c \in Clusters, Upload(c) PROVE FreshKey'
    <2> DEFINE new == [prefix |-> prefixOf[c], ts |-> ts[c], by |-> c]
    <2>1. /\ store' \subseteq store \cup {new} /\ new.by = c
          /\ step' = [step EXCEPT ![c] = "list"] /\ ts' = ts
      BY <1>5 DEF Upload
    <2> HIDE DEF new
    <2>2. QED
      BY <1>1, <2>1 DEF FreshKey, Own, TypeOK
  <1>6. ASSUME NEW c \in Clusters, RequestSnapshot(c) \/ List(c) \/ Finish(c) \/ Fail(c)
        PROVE  FreshKey'
    <2>1. /\ store' = store /\ ts' = ts
          /\ \A d \in Clusters \ {c} : step'[d] = step[d]
          /\ \/ step[c] = "request"
             \/ step'[c] \in {"prune", "done", "restart", "idle"}
      BY <1>1, <1>6 DEF RequestSnapshot, List, Finish, Fail, TypeOK
    <2>2. QED
      BY <1>3, <2>1
  <1>7. ASSUME NEW c \in Clusters, Remove(c) PROVE FreshKey'
    <2>1. store' \subseteq store /\ ts' = ts /\ step' = step
      BY <1>7 DEF Remove
    <2>2. QED
      BY <1>3, <2>1
  <1>8. CASE Tick \/ UNCHANGED vars
    <2>1. store' = store /\ ts' = ts /\ step' = step
      BY <1>8 DEF Tick, vars
    <2>2. QED
      BY <1>3, <2>1
  <1>9. QED
    BY <1>4, <1>5, <1>6, <1>7, <1>8 DEF Next

\* An upload adds one archive to those of its cluster.
LEMMA UploadKeeps ==
    ASSUME PruneInv, FreshKey, NEW c \in Clusters, Upload(c),
           NEW d \in Clusters, Unshared(d), KeepsEnough(d)
    PROVE  KeepsEnough(d)'
  <1> DEFINE new == [prefix |-> prefixOf[c], ts |-> ts[c], by |-> c]
  <1>1. TypeOK /\ Bucket
    BY DEF PruneInv, Typed
  <1>2. /\ store' = {a \in store : KeyOf(a) # KeyOf(new)} \cup {new}
        /\ made' = [made EXCEPT ![c] = @ + 1]
        /\ step[c] = "stream"
        /\ UNCHANGED <<prefixOf, retention>>
    BY DEF Upload, given
  <1>3. \A a \in Own(d) : a \in store /\ a.prefix = prefixOf[d]
    BY <1>1, OwnPrefix DEF Own
  <1>4. Retain(d)' = Retain(d)
    BY <1>2 DEF Retain
  <1>5. CASE d = c
    <2>1. \A a \in Own(c) : a.ts # ts[c]
      BY <1>1, <1>2 DEF FreshKey, TypeOK, Times, Archive, Own
    <2>2. \A a \in Own(c) : KeyOf(a) # KeyOf(new)
      BY <2>1 DEF KeyOf
    <2>3. new \notin Own(c)
      BY <2>2
    <2>4. Own(c)' = Own(c) \cup {new}
      BY <1>2, <2>2 DEF Own
    <2>5. IsFiniteSet(Own(c)) /\ Cardinality(Own(c)) \in Nat
      BY <1>1, OwnFinite
    <2>6. Cardinality(Own(c) \cup {new}) = Cardinality(Own(c)) + 1
      BY <2>3, <2>5, FS_AddElement
    <2>7. made'[c] = made[c] + 1 /\ made[c] \in Nat /\ Retain(c) \in Nat
      BY <1>1, <1>2, RetainPositive DEF TypeOK
    <2>8. Cardinality(Own(c)') = Cardinality(Own(c)) + 1
      BY <2>4, <2>6
    <2>9. QED
      BY <1>4, <1>5, <2>5, <2>7, <2>8 DEF KeepsEnough
  <1>6. CASE d # c
    <2>1. prefixOf[d] # prefixOf[c]
      BY <1>6 DEF Unshared
    <2>2. \A a \in Own(d) : KeyOf(a) # KeyOf(new)
      BY <1>3, <2>1 DEF KeyOf
    <2>3. Own(d)' = Own(d)
      BY <1>2, <1>6, <2>2 DEF Own
    <2>4. made'[d] = made[d]
      BY <1>1, <1>2, <1>6 DEF TypeOK
    <2>5. QED
      BY <1>4, <2>3, <2>4 DEF KeepsEnough
  <1>7. QED
    BY <1>5, <1>6

\* What is removed from a prefix leaves as many archives as its cluster retains.
LEMMA RemoveKeeps ==
    ASSUME PruneInv, NEW c \in Clusters, Remove(c),
           NEW d \in Clusters, Unshared(d), KeepsEnough(d)
    PROVE  KeepsEnough(d)'
  <1>1. TypeOK /\ Bucket
    BY DEF PruneInv, Typed
  <1>2. UNCHANGED <<prefixOf, retention, made>>
    BY DEF Remove, given
  <1>3. PICK k \in doomed[c] :
           /\ k \in Key /\ k.prefix = prefixOf[c] /\ Surplus(k)
           /\ store' = store \/ store' = {a \in store : KeyOf(a) # k}
    BY Removal
  <1>4. Retain(d)' = Retain(d)
    BY <1>2 DEF Retain
  <1>5. CASE store' = store
    BY <1>2, <1>4, <1>5 DEF KeepsEnough, Own
  <1>6. CASE store' = {a \in store : KeyOf(a) # k} /\ d # c
    <2>1. \A a \in Own(d) : KeyOf(a) # k
      BY <1>1, <1>3, <1>6, OwnPrefix DEF Unshared, Own, KeyOf
    <2>2. Own(d)' = Own(d)
      BY <1>6, <2>1 DEF Own
    <2>3. QED
      BY <1>2, <1>4, <2>2 DEF KeepsEnough
  <1>7. CASE store' = {a \in store : KeyOf(a) # k} /\ d = c
    <2>1. Retain(c) \in Nat /\ Cardinality(Newer(k.prefix, k.ts)) >= Retain(c)
      BY <1>3, <1>1, <1>7, RetainPositive DEF Surplus, RetainedBy, Unshared
    <2>2. Newer(k.prefix, k.ts) \subseteq Own(c)'
      <3>1. \A a \in Newer(k.prefix, k.ts) :
                /\ a \in store /\ a.prefix = prefixOf[c] /\ a.ts > k.ts
        BY <1>3 DEF Newer
      <3>2. \A a \in Newer(k.prefix, k.ts) : a.by = c
        BY <1>1, <1>7, <3>1, OwnPrefix DEF Own
      <3>3. \A a \in Newer(k.prefix, k.ts) : KeyOf(a) # k
        <4>1. k.ts \in Int
          BY <1>3 DEF Key, Times
        <4>2. QED
          BY <3>1, <4>1 DEF KeyOf
      <3>4. QED
        BY <1>7, <3>1, <3>2, <3>3 DEF Own
    <2>3. IsFiniteSet(Own(c)')
      <3>1. Own(c)' \in SUBSET store
        BY <1>7 DEF Own
      <3>2. QED
        BY <1>1, <3>1, FS_Subset DEF Bucket
    <2>4. /\ Cardinality(Newer(k.prefix, k.ts)) <= Cardinality(Own(c)')
          /\ Cardinality(Newer(k.prefix, k.ts)) \in Nat
          /\ Cardinality(Own(c)') \in Nat
      BY <1>1, <2>2, <2>3, FS_Subset, FS_CardinalityType, NewerFinite DEF Bucket
    <2>5. Cardinality(Own(c)') >= Retain(c)
      BY <2>1, <2>4
    <2>6. QED
      BY <1>4, <1>7, <2>5 DEF KeepsEnough
  <1>8. QED
    BY <1>3, <1>5, <1>6, <1>7

\* A cluster with a prefix of its own keeps what it is told to retain, or all it
\* ever made, however often its runs fail and start anew.
THEOREM OwnAreKept == Spec => []OwnKept
  <1>d. OwnKept <=> \A c \in Clusters : Unshared(c) => KeepsEnough(c)
    BY DEF OwnKept, KeepsEnough, Own
  <1>e. OwnKept' <=> \A c \in Clusters : Unshared(c)' => KeepsEnough(c)'
    BY DEF OwnKept, KeepsEnough, Own
  <1>1. Init => OwnKept /\ FreshKey
    <2> SUFFICES ASSUME Init PROVE OwnKept /\ FreshKey
      OBVIOUS
    <2>1. \A c \in Clusters : Own(c) = {} /\ made[c] = 0
      BY DEF Init, Own
    <2>2. QED
      BY <1>d, <2>1, FS_EmptySet DEF Init, FreshKey, KeepsEnough
  <1>2. PruneInv /\ OwnKept /\ FreshKey /\ [Next]_vars => (OwnKept /\ FreshKey)'
    <2> SUFFICES ASSUME PruneInv, OwnKept, FreshKey, [Next]_vars
                 PROVE  OwnKept'
      BY FreshKeyNext
    <2>1. prefixOf' = prefixOf /\ retention' = retention
      BY DEF Next, Tick, StartJob, Restart, Begin, Fail, RequestSnapshot, Upload,
             List, Remove, Finish, given, vars
    <2>2. \A d \in Clusters : Unshared(d)' <=> Unshared(d)
      BY <2>1 DEF Unshared
    <2>3. ASSUME NEW c \in Clusters, Upload(c) PROVE OwnKept'
      BY <1>d, <1>e, <2>2, <2>3, UploadKeeps
    <2>4. ASSUME NEW c \in Clusters, Remove(c) PROVE OwnKept'
      BY <1>d, <1>e, <2>2, <2>4, RemoveKeeps
    <2>5. ASSUME \A c \in Clusters : ~Upload(c) /\ ~Remove(c)
          PROVE  store' = store /\ made' = made
      BY <2>5 DEF Next, Tick, StartJob, Restart, Begin, Fail, RequestSnapshot,
             List, Finish, vars
    <2>6. CASE store' = store /\ made' = made
      BY <1>d, <1>e, <2>1, <2>2, <2>6 DEF KeepsEnough, Own, Retain
    <2>7. QED
      BY <2>3, <2>4, <2>5, <2>6
  <1>3. Spec => []PruneInv
    BY PruneInit, PruneNext, PTL DEF Spec
  <1>4. QED
    BY <1>1, <1>2, <1>3, PTL DEF Spec
===============================================================================
