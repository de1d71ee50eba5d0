------------------------- MODULE MachinePoolProofs -------------------------
(***************************************************************************)
(* The MachinePool reconciler, for every value of the constants: it is     *)
(* type correct, it never updates a pool of another tool, its status       *)
(* always has what the delete of its pool needs, the resource outlives the *)
(* nodes, and it implements Custody.                                       *)
(***************************************************************************)
EXTENDS MachinePool, TLAPS

-----------------------------------------------------------------------------
(* Facts about the data *)

AllConditions == CommonConditions \cup {MachinePoolDeleted}

LEMMA ObjectNotNone == ASSUME NEW o \in Objects PROVE o # None
  BY NoneAssumption

LEMMA NewObjectsTyped ==
  ASSUME NEW o \in NewObjects
  PROVE  /\ o \in Objects /\ o # None
         /\ ~o.deleting /\ ~o.finalizer /\ o.status.conditions = {}
  <1>1. PICK wait \in Waits, spec \in Specs :
          o = [generation |-> 1, deleting |-> FALSE, finalizer |-> FALSE, wait |-> wait,
               spec |-> spec,
               status |-> [clusterID |-> NoID, zones |-> 0, hosted |-> FALSE, conditions |-> {}]]
    BY DEF NewObjects
  <1>2. 1 \in 1..MaxGeneration /\ wait \in BOOLEAN
    BY ChildAssumption, MachinePoolAssumption
  <1>3. [clusterID |-> NoID, zones |-> 0, hosted |-> FALSE, conditions |-> {}] \in Status
    BY DEF Status
  <1>4. o \in Objects
    BY <1>1, <1>2, <1>3 DEF Objects
  <1> QED
    BY <1>1, <1>4, ObjectNotNone

LEMMA AddConditionTyped ==
  ASSUME NEW cs \in SUBSET AllConditions, NEW c \in AllConditions
  PROVE  AddCondition(cs, c) \in SUBSET AllConditions
  BY DEF AddCondition

LEMMA WithStatus ==
  ASSUME NEW o \in Objects, NEW st \in Status
  PROVE  /\ [o EXCEPT !.status = st] \in Objects
         /\ [o EXCEPT !.status = st].status = st
         /\ [o EXCEPT !.status = st].finalizer = o.finalizer
         /\ [o EXCEPT !.status = st].deleting = o.deleting
         /\ [o EXCEPT !.status = st].wait = o.wait
  BY DEF Objects

LEMMA WithConditions ==
  ASSUME NEW o \in Objects, NEW cs \in SUBSET AllConditions
  PROVE  /\ [o EXCEPT !.status.conditions = cs] \in Objects
         /\ [o EXCEPT !.status.conditions = cs].status.conditions = cs
         /\ [o EXCEPT !.status.conditions = cs].status.clusterID = o.status.clusterID
         /\ [o EXCEPT !.status.conditions = cs].status.hosted = o.status.hosted
         /\ [o EXCEPT !.status.conditions = cs].finalizer = o.finalizer
         /\ [o EXCEPT !.status.conditions = cs].deleting = o.deleting
         /\ [o EXCEPT !.status.conditions = cs].wait = o.wait
  <1> DEFINE st == [o.status EXCEPT !.conditions = cs]
  <1>1. /\ st \in Status /\ st.conditions = cs
        /\ st.clusterID = o.status.clusterID /\ st.hosted = o.status.hosted
    BY DEF Objects, Status, AllConditions
  <1>2. [o EXCEPT !.status.conditions = cs] = [o EXCEPT !.status = st]
    BY DEF Objects
  <1> HIDE DEF st
  <1> QED
    BY <1>1, <1>2, WithStatus

\* The patch of a status, field by field.
LEMMA MergeFields ==
  ASSUME NEW s \in Status, NEW f \in Status, NEW t \in Status
  PROVE  MergePatch(s, f, t) =
           [clusterID  |-> Merged(s.clusterID, f.clusterID, t.clusterID),
            zones      |-> Merged(s.zones, f.zones, t.zones),
            hosted     |-> Merged(s.hosted, f.hosted, t.hosted),
            conditions |-> Merged(s.conditions, f.conditions, t.conditions)]
  <1>1. DOMAIN s = {"clusterID", "zones", "hosted", "conditions"}
    BY DEF Status
  <1> QED
    BY <1>1 DEF MergePatch

LEMMA MergeTyped ==
  ASSUME NEW s \in Status, NEW f \in Status, NEW t \in Status
  PROVE  /\ MergePatch(s, f, t) \in Status
         /\ MergePatch(s, f, t).clusterID = Merged(s.clusterID, f.clusterID, t.clusterID)
         /\ MergePatch(s, f, t).hosted = Merged(s.hosted, f.hosted, t.hosted)
         /\ MergePatch(s, f, t).conditions = Merged(s.conditions, f.conditions, t.conditions)
  <1> DEFINE id == Merged(s.clusterID, f.clusterID, t.clusterID)
             zs == Merged(s.zones, f.zones, t.zones)
             h  == Merged(s.hosted, f.hosted, t.hosted)
             cs == Merged(s.conditions, f.conditions, t.conditions)
  <1>1. id \in ClusterIDs \cup {NoID} /\ zs \in {0, Zones}
    BY DEF Status, Merged
  <1>2. h \in BOOLEAN
    BY DEF Status, Merged
  <1>3. cs \in SUBSET AllConditions
    BY DEF Status, Merged, AllConditions
  <1>4. MergePatch(s, f, t) = [clusterID |-> id, zones |-> zs, hosted |-> h, conditions |-> cs]
    BY MergeFields
  <1> HIDE DEF id, zs, h, cs
  <1>5. /\ MergePatch(s, f, t) \in Status
        /\ MergePatch(s, f, t).clusterID = id
        /\ MergePatch(s, f, t).hosted = h
        /\ MergePatch(s, f, t).conditions = cs
    BY <1>1, <1>2, <1>3, <1>4 DEF Status, AllConditions
  <1> QED
    BY <1>5 DEF id, h, cs

\* What SetClusterStatus makes of the fields.
LEMMA SetClusterStatusFacts ==
  ASSUME NEW s \in Status, NEW u \in Clusters \cup {None}
  PROVE  /\ SetClusterStatus(s, u) \in Status
         /\ SetClusterStatus(s, u).conditions = s.conditions
         /\ SetClusterStatus(s, u).clusterID
              = IF u # None /\ s.clusterID = NoID THEN u.id ELSE s.clusterID
         /\ SetClusterStatus(s, u).hosted = (u # None /\ u.id \in Hosted)
  <1>1. CASE u = None
    <2>1. SetClusterStatus(s, u) = [s EXCEPT !.hosted = FALSE]
      BY <1>1 DEF SetClusterStatus
    <2> QED
      BY <1>1, <2>1 DEF Status
  <1>2. CASE u # None
    <2> DEFINE id == IF s.clusterID = NoID THEN u.id ELSE s.clusterID
               zs == IF s.zones = 0 THEN Zones ELSE s.zones
               h  == u.id \in Hosted
    <2>1. id \in ClusterIDs \cup {NoID} /\ zs \in {0, Zones} /\ h \in BOOLEAN
      BY <1>2 DEF Status, Clusters
    <2>2. SetClusterStatus(s, u) = [s EXCEPT !.clusterID = id, !.zones = zs, !.hosted = h]
      BY <1>2 DEF SetClusterStatus
    <2> HIDE DEF id, zs, h
    <2>3. /\ [s EXCEPT !.clusterID = id, !.zones = zs, !.hosted = h] \in Status
          /\ [s EXCEPT !.clusterID = id, !.zones = zs, !.hosted = h].conditions = s.conditions
          /\ [s EXCEPT !.clusterID = id, !.zones = zs, !.hosted = h].clusterID = id
          /\ [s EXCEPT !.clusterID = id, !.zones = zs, !.hosted = h].hosted = h
      BY <2>1 DEF Status
    <2> QED
      BY <1>2, <2>2, <2>3 DEF id, h
  <1> QED
    BY <1>1, <1>2

LEMMA WithFinalizer ==
  ASSUME NEW o \in Objects, NEW b \in BOOLEAN
  PROVE  /\ [o EXCEPT !.finalizer = b] \in Objects
         /\ [o EXCEPT !.finalizer = b].finalizer = b
         /\ [o EXCEPT !.finalizer = b].status = o.status
         /\ [o EXCEPT !.finalizer = b].deleting = o.deleting
         /\ [o EXCEPT !.finalizer = b].wait = o.wait
  BY DEF Objects

LEMMA WithDeleting ==
  ASSUME NEW o \in Objects
  PROVE  /\ [o EXCEPT !.deleting = TRUE] \in Objects
         /\ [o EXCEPT !.deleting = TRUE].deleting
         /\ [o EXCEPT !.deleting = TRUE].status = o.status
         /\ [o EXCEPT !.deleting = TRUE].finalizer = o.finalizer
         /\ [o EXCEPT !.deleting = TRUE].wait = o.wait
  BY DEF Objects

LEMMA WithSpec ==
  ASSUME NEW o \in Objects, NEW spec \in Specs, o.generation < MaxGeneration
  PROVE  LET p == [o EXCEPT !.generation = o.generation + 1, !.spec = spec]
         IN  /\ p \in Objects
             /\ p.status = o.status
             /\ p.finalizer = o.finalizer
             /\ p.deleting = o.deleting
             /\ p.wait = o.wait
  <1>1. o.generation + 1 \in 1..MaxGeneration
    BY ChildAssumption DEF Objects
  <1> QED
    BY <1>1 DEF Objects

-----------------------------------------------------------------------------
(* Type correctness *)

UpdatePath ==
    {"AddFinalizer", "GetUpstreamCluster", "SaveClusterStatus", "UpdateUpstream",
     "GetCurrentState", "Apply", "WaitUntilReady", "Complete"}

DeletePath ==
    {"Destroy", "DeletePool", "NotifyDeleted", "WaitUntilMissing", "RemoveFinalizer"}

Steps == {"Idle", "Reconciling"} \cup UpdatePath \cup DeletePath

StoreTyped == {obj, cache} \subseteq Objects \cup {None}

QueueTyped == queued \in BOOLEAN /\ timer \in BOOLEAN

\* A request in progress has an object and a spec.
RequestTyped ==
    /\ pc \in Steps
    /\ original \in Objects \cup {None} /\ desired \in Specs \cup {None}
    /\ pc # "Idle" => original \in Objects /\ desired \in Specs
    /\ found \in Clusters \cup {None} /\ current \in [min: Nat, max: Nat] \cup {None}

\* The ids in use are known to OCM.
WorldTyped ==
    /\ cluster \in Clusters \cup {None} /\ used \subseteq ClusterIDs
    /\ cluster # None => cluster.id \in used
    /\ pool \in Pools \cup {None} /\ nodes \in {"none", "unready", "ready"}
    /\ pool # None => cluster # None /\ cluster.id = pool.cluster

Typed == StoreTyped /\ QueueTyped /\ RequestTyped /\ WorldTyped

\* The ids that the delete of the pool is addressed to, and the wait flag.
Same(a, b) ==
    /\ a.status.clusterID = b.status.clusterID
    /\ a.status.hosted = b.status.hosted
    /\ a.wait = b.wait

\* What a patch of the status leaves alone.
Alike(a, b) == b.deleting = a.deleting /\ b.finalizer = a.finalizer /\ b.wait = a.wait

\* The object is patched, read back, and the reconcile goes on.
Patched(next) ==
    /\ obj \in Objects /\ obj' \in Objects
    /\ original' = obj' /\ Alike(obj, obj')
    /\ Goto(next)
    /\ UNCHANGED <<desired, found, current>>

\* The object was gone.
Gone == obj = None /\ obj' = None /\ Return(TRUE)

LEMMA PatchStatusFacts ==
  ASSUME StoreTyped, original \in Objects, NEW to \in Status, NEW next, PatchStatus(to, next)
  PROVE  \/ Gone
         \/ /\ Patched(next)
            /\ obj'.status.clusterID
                 = Merged(obj.status.clusterID, original.status.clusterID, to.clusterID)
            /\ obj'.status.hosted = Merged(obj.status.hosted, original.status.hosted, to.hosted)
            /\ obj'.status.conditions
                 = Merged(obj.status.conditions, original.status.conditions, to.conditions)
  <1>1. CASE obj = None
    BY <1>1 DEF PatchStatus, Gone
  <1>2. CASE obj # None
    <2> DEFINE st == MergePatch(obj.status, original.status, to)
    <2>1. obj \in Objects
      BY <1>2 DEF StoreTyped
    <2>2. obj.status \in Status /\ original.status \in Status
      BY <2>1 DEF Objects
    <2>3. /\ st \in Status
          /\ st.clusterID = Merged(obj.status.clusterID, original.status.clusterID, to.clusterID)
          /\ st.hosted = Merged(obj.status.hosted, original.status.hosted, to.hosted)
          /\ st.conditions = Merged(obj.status.conditions, original.status.conditions, to.conditions)
      BY <2>2, MergeTyped
    <2>4. /\ obj' = [obj EXCEPT !.status = st]
          /\ original' = obj' /\ Goto(next) /\ UNCHANGED <<desired, found, current>>
      BY <1>2 DEF PatchStatus
    <2> HIDE DEF st
    <2>5. obj' \in Objects /\ obj'.status = st /\ Alike(obj, obj')
      BY <2>1, <2>3, <2>4, WithStatus DEF Alike
    <2> QED
      BY <2>1, <2>3, <2>4, <2>5 DEF Patched
  <1> QED
    BY <1>1, <1>2

LEMMA UpdateConditionFacts ==
  ASSUME StoreTyped, original \in Objects, NEW c \in AllConditions, NEW next,
         UpdateCondition(c, next)
  PROVE  \/ /\ c \in original.status.conditions
            /\ Goto(next) /\ UNCHANGED <<obj, request>>
         \/ Gone
         \/ /\ Patched(next) /\ Same(obj, obj')
            /\ obj'.status.conditions = AddCondition(original.status.conditions, c)
  <1>1. CASE c \in original.status.conditions
    BY <1>1 DEF UpdateCondition, IsSet
  <1>2. CASE c \notin original.status.conditions
    <2> DEFINE cs == AddCondition(original.status.conditions, c)
               to == [original.status EXCEPT !.conditions = cs]
    <2>1. original.status \in Status
      BY DEF Objects
    <2>2. cs \in SUBSET AllConditions /\ cs # original.status.conditions
      <3>1. c \in cs
        BY DEF AddCondition
      <3>2. original.status.conditions \in SUBSET AllConditions
        BY <2>1 DEF Status, AllConditions
      <3> QED
        BY <1>2, <3>1, <3>2, AddConditionTyped
    <2> HIDE DEF cs
    <2>3. /\ to \in Status /\ to.conditions = cs
          /\ to.clusterID = original.status.clusterID /\ to.hosted = original.status.hosted
      BY <2>1, <2>2 DEF Status, AllConditions
    <2>4. PatchStatus(to, next)
      BY <1>2 DEF UpdateCondition, IsSet, cs
    <2> HIDE DEF to
    <2>5. \/ Gone
          \/ /\ Patched(next)
             /\ obj'.status.clusterID
                  = Merged(obj.status.clusterID, original.status.clusterID, to.clusterID)
             /\ obj'.status.hosted = Merged(obj.status.hosted, original.status.hosted, to.hosted)
             /\ obj'.status.conditions
                  = Merged(obj.status.conditions, original.status.conditions, to.conditions)
      BY <2>3, <2>4, PatchStatusFacts
    <2>6. CASE Gone
      BY <2>6
    <2>7. CASE /\ Patched(next)
               /\ obj'.status.clusterID
                    = Merged(obj.status.clusterID, original.status.clusterID, to.clusterID)
               /\ obj'.status.hosted
                    = Merged(obj.status.hosted, original.status.hosted, to.hosted)
               /\ obj'.status.conditions
                    = Merged(obj.status.conditions, original.status.conditions, to.conditions)
      <3>1. Same(obj, obj') /\ obj'.status.conditions = cs
        BY <2>2, <2>3, <2>7 DEF Merged, Same, Patched, Alike
      <3> QED
        BY <2>7, <3>1 DEF cs
    <2> QED
      BY <2>5, <2>6, <2>7
  <1> QED
    BY <1>1, <1>2

LEMMA UpdateConditionAndReturnFacts ==
  ASSUME StoreTyped, original \in Objects, NEW c \in AllConditions, UpdateConditionAndReturn(c)
  PROVE  /\ Return(TRUE)
         /\ \/ obj' = obj
            \/ /\ obj \in Objects /\ obj' \in Objects
               /\ Alike(obj, obj') /\ Same(obj, obj')
               /\ obj'.status.conditions = AddCondition(original.status.conditions, c)
  <1> DEFINE cs == AddCondition(original.status.conditions, c)
  <1>1. cs \in SUBSET AllConditions
    <2>1. original.status.conditions \in SUBSET AllConditions
      BY DEF Objects, Status, AllConditions
    <2> QED
      BY <2>1, AddConditionTyped
  <1>2. /\ Return(TRUE)
        /\ \/ obj' = obj
           \/ obj # None /\ obj' = [obj EXCEPT !.status.conditions = cs]
    BY DEF UpdateConditionAndReturn
  <1> HIDE DEF cs
  <1>3. CASE obj # None /\ obj' = [obj EXCEPT !.status.conditions = cs]
    <2>1. obj \in Objects
      BY <1>3 DEF StoreTyped
    <2>2. /\ obj' \in Objects /\ Alike(obj, obj') /\ Same(obj, obj')
          /\ obj'.status.conditions = cs
      BY <1>1, <1>3, <2>1, WithConditions DEF Alike, Same
    <2> QED
      BY <1>2, <2>1, <2>2 DEF cs
  <1> QED
    BY <1>2, <1>3

LEMMA ReturnTyped ==
  ASSUME QueueTyped, NEW b \in BOOLEAN, Return(b)
  PROVE  QueueTyped' /\ RequestTyped'
  <1>1. queued' = queued /\ timer' = (timer \/ b)
    BY DEF Return
  <1>2. QueueTyped'
    BY <1>1, Zenon DEF QueueTyped
  <1>3. RequestTyped'
    BY DEF Return, RequestTyped, Steps
  <1> QED
    BY <1>2, <1>3

LEMMA GotoTyped ==
  ASSUME QueueTyped, RequestTyped, pc # "Idle", NEW next \in Steps, Goto(next),
         original' \in Objects, desired' = desired,
         found' \in Clusters \cup {None}, current' \in [min: Nat, max: Nat] \cup {None}
  PROVE  QueueTyped' /\ RequestTyped'
  <1>1. queued' = queued /\ timer' = timer /\ pc' = next
    BY DEF Goto, queue
  <1>2. QueueTyped'
    BY <1>1, Zenon DEF QueueTyped
  <1>3. RequestTyped'
    BY <1>1 DEF RequestTyped
  <1> QED
    BY <1>2, <1>3

LEMMA SameRequestTyped ==
  ASSUME QueueTyped, RequestTyped, pc # "Idle", NEW next \in Steps, Goto(next), UNCHANGED request
  PROVE  QueueTyped' /\ RequestTyped'
  <1>1. /\ original' \in Objects /\ desired' = desired
        /\ found' \in Clusters \cup {None} /\ current' \in [min: Nat, max: Nat] \cup {None}
    BY DEF request, RequestTyped
  <1> QED
    BY <1>1, GotoTyped

LEMMA PatchedTyped ==
  ASSUME StoreTyped, QueueTyped, RequestTyped, pc # "Idle", cache' = cache,
         NEW next \in Steps, Patched(next) \/ Gone
  PROVE  StoreTyped' /\ QueueTyped' /\ RequestTyped'
  <1>1. CASE Patched(next)
    <2>1. StoreTyped'
      BY <1>1 DEF Patched, StoreTyped
    <2>2. /\ Goto(next) /\ original' \in Objects /\ desired' = desired
          /\ found' \in Clusters \cup {None} /\ current' \in [min: Nat, max: Nat] \cup {None}
      BY <1>1 DEF Patched, RequestTyped
    <2> QED
      BY <2>1, <2>2, GotoTyped
  <1>2. CASE Gone
    <2>1. StoreTyped' /\ Return(TRUE)
      BY <1>2 DEF Gone, StoreTyped
    <2> QED
      BY <2>1, ReturnTyped
  <1> QED
    BY <1>1, <1>2

LEMMA UpdateConditionTyped ==
  ASSUME StoreTyped, QueueTyped, RequestTyped, pc # "Idle", cache' = cache,
         NEW c \in AllConditions, NEW next \in Steps, UpdateCondition(c, next)
  PROVE  StoreTyped' /\ QueueTyped' /\ RequestTyped'
  <1>1. original \in Objects
    BY DEF RequestTyped
  <1>2. \/ Goto(next) /\ obj' = obj /\ UNCHANGED request
        \/ Patched(next) \/ Gone
    BY <1>1, UpdateConditionFacts
  <1>3. CASE Goto(next) /\ obj' = obj /\ UNCHANGED request
    <2>1. StoreTyped'
      BY <1>3 DEF StoreTyped
    <2> QED
      BY <1>3, <2>1, SameRequestTyped
  <1> QED
    BY <1>2, <1>3, PatchedTyped

LEMMA UpdateConditionAndReturnTyped ==
  ASSUME StoreTyped, QueueTyped, RequestTyped, pc # "Idle", cache' = cache,
         NEW c \in AllConditions, UpdateConditionAndReturn(c)
  PROVE  StoreTyped' /\ QueueTyped' /\ RequestTyped'
  <1>1. original \in Objects
    BY DEF RequestTyped
  <1>2. Return(TRUE) /\ (obj' = obj \/ obj' \in Objects)
    BY <1>1, UpdateConditionAndReturnFacts
  <1>3. StoreTyped'
    BY <1>2 DEF StoreTyped
  <1> QED
    BY <1>2, <1>3, ReturnTyped

LEMMA WorldKept ==
  ASSUME WorldTyped, UNCHANGED <<cluster, used, pool, nodes>>
  PROVE  WorldTyped'
  BY DEF WorldTyped

LEMMA StoreKept ==
  ASSUME StoreTyped, UNCHANGED kubernetes
  PROVE  StoreTyped'
  BY DEF StoreTyped, kubernetes

LEMMA RequestKept ==
  ASSUME RequestTyped, UNCHANGED <<pc, request>>
  PROVE  RequestTyped'
  BY DEF RequestTyped, request

LEMMA QueueKept ==
  ASSUME QueueTyped, UNCHANGED queue
  PROVE  QueueTyped'
  <1>1. queued' = queued /\ timer' = timer
    BY DEF queue
  <1> QED
    BY <1>1, Zenon DEF QueueTyped

\* The sizes the builders make and the copies the reconciler compares.
LEMMA SizesTyped ==
  ASSUME WorldTyped, RequestTyped, pc # "Idle"
  PROVE  /\ PoolBuilder \in [min: Nat, max: Nat, replicas: Nat]
         /\ pool # None => CopyFromPool \in [min: Nat, max: Nat]
  <1>1. desired.min \in Nat /\ desired.max \in Nat /\ original.status.zones \in Nat /\ Zones \in Nat \ {0}
    BY MachinePoolAssumption DEF RequestTyped, Objects, Status
  <1>2. \A x, y \in Nat : x * y \in Nat
    OBVIOUS
  <1>3. PoolBuilder \in [min: Nat, max: Nat, replicas: Nat]
    <2>1. /\ desired.min * original.status.zones \in Nat
          /\ desired.max * original.status.zones \in Nat
      BY <1>1, <1>2
    <2> QED
      BY <1>1, <2>1
      DEF PoolBuilder, NodePoolBuilder, MachinePoolBuilder, Autoscaling, Fixed
  <1>4. ASSUME pool # None
        PROVE  CopyFromPool \in [min: Nat, max: Nat]
    <2>1. pool.size.min \in Nat /\ pool.size.max \in Nat /\ pool.size.replicas \in Nat
      BY <1>4 DEF WorldTyped, Pools
    <2>2. \A x \in Nat : x \div Zones \in Nat
      BY <1>1
    <2> QED
      BY <2>1, <2>2 DEF CopyFromPool, CopyFromNodePool, CopyFromMachinePool
  <1> QED
    BY <1>3, <1>4

LEMMA ChildStepTyped ==
  ASSUME Typed, ChildStep, UNCHANGED <<pool, nodes>>
  PROVE  Typed'
  <1> USE DEF Typed
  <1>1. WorldTyped'
    <2>1. UNCHANGED <<cluster, used>>
      BY DEF ChildStep, ReconcileTrigger, AddFinalizer, GetUpstreamCluster, UpdateUpstream,
             Complete, RemoveFinalizer
    <2> QED
      BY <2>1, WorldKept
  <1>2. CASE ReconcileTrigger
    <2> DEFINE trigger == GetTrigger(original.deleting)
               next == IF trigger = "Delete" THEN "Destroy" ELSE "AddFinalizer"
    <2>1. /\ pc = "Reconciling" /\ cache' = cache
          /\ UpdateCondition(Reconciling(trigger), next)
      BY <1>2 DEF ReconcileTrigger
    <2>2. Reconciling(trigger) \in AllConditions /\ next \in Steps
      BY DEF GetTrigger, AllConditions, CommonConditions, Steps, UpdatePath, DeletePath
    <2> HIDE DEF trigger, next
    <2> QED
      BY <1>1, <2>1, <2>2, UpdateConditionTyped
  <1>3. CASE AddFinalizer
    <2>1. pc = "AddFinalizer" /\ cache' = cache /\ original \in Objects
      BY <1>3 DEF AddFinalizer, RequestTyped
    <2>2. CASE original.finalizer
      <3>1. Goto("GetUpstreamCluster") /\ obj' = obj /\ UNCHANGED request
        BY <1>3, <2>2 DEF AddFinalizer
      <3>2. StoreTyped'
        BY <2>1, <3>1 DEF StoreTyped
      <3> QED
        BY <1>1, <2>1, <3>1, <3>2, SameRequestTyped DEF Steps, UpdatePath
    <2>3. CASE ~original.finalizer /\ obj = None
      <3>1. Return(TRUE) /\ obj' = obj
        BY <1>3, <2>3 DEF AddFinalizer
      <3>2. StoreTyped'
        BY <2>1, <3>1 DEF StoreTyped
      <3> QED
        BY <1>1, <3>1, <3>2, ReturnTyped
    <2>4. CASE ~original.finalizer /\ obj # None
      <3>1. /\ obj' = [obj EXCEPT !.finalizer = TRUE] /\ original' = obj'
            /\ Goto("GetUpstreamCluster") /\ UNCHANGED <<desired, found, current>>
        BY <1>3, <2>4 DEF AddFinalizer
      <3>2. obj \in Objects
        BY <2>4 DEF StoreTyped
      <3>3. obj' \in Objects
        BY <3>1, <3>2, WithFinalizer
      <3>4. StoreTyped'
        BY <2>1, <3>3 DEF StoreTyped
      <3>5. found' \in Clusters \cup {None} /\ current' \in [min: Nat, max: Nat] \cup {None}
        BY <3>1 DEF RequestTyped
      <3> QED
        BY <1>1, <2>1, <3>1, <3>3, <3>4, <3>5, GotoTyped DEF Steps, UpdatePath
    <2> QED
      BY <2>2, <2>3, <2>4
  <1>4. CASE GetUpstreamCluster
    <2> DEFINE next == IF found' = None THEN "UpdateUpstream" ELSE "SaveClusterStatus"
    <2>1. /\ pc = "GetUpstreamCluster" /\ found' \in {cluster, None} /\ Goto(next)
          /\ UNCHANGED <<kubernetes, original, desired, current>>
      BY <1>4 DEF GetUpstreamCluster
    <2>2. next \in Steps
      BY DEF Steps, UpdatePath
    <2>3. found' \in Clusters \cup {None} /\ current' \in [min: Nat, max: Nat] \cup {None}
      BY <2>1 DEF WorldTyped, RequestTyped
    <2>4. original' \in Objects
      BY <2>1 DEF RequestTyped
    <2> HIDE DEF next
    <2> QED
      BY <1>1, <2>1, <2>2, <2>3, <2>4, StoreKept, GotoTyped
  <1>5. CASE UpdateUpstream
    <2> DEFINE c == UpstreamCluster("Create", found # None)
    <2>1. /\ pc = "UpdateUpstream" /\ cache' = cache
          /\ UpdateCondition(c, "GetCurrentState") \/ UpdateConditionAndReturn(c)
      BY <1>5 DEF UpdateUpstream
    <2>2. c \in AllConditions /\ "GetCurrentState" \in Steps
      BY DEF AllConditions, CommonConditions, Steps, UpdatePath
    <2> HIDE DEF c
    <2>3. CASE UpdateCondition(c, "GetCurrentState")
      BY <1>1, <2>1, <2>2, <2>3, UpdateConditionTyped
    <2>4. CASE UpdateConditionAndReturn(c)
      BY <1>1, <2>1, <2>2, <2>4, UpdateConditionAndReturnTyped
    <2> QED
      BY <2>1, <2>3, <2>4
  <1>6. CASE Complete
    <2>1. pc = "Complete" /\ cache' = cache /\ UpdateConditionAndReturn(Reconciled("Create"))
      BY <1>6 DEF Complete
    <2>2. Reconciled("Create") \in AllConditions
      BY DEF AllConditions, CommonConditions
    <2> QED
      BY <1>1, <2>1, <2>2, UpdateConditionAndReturnTyped
  <1>7. CASE RemoveFinalizer
    <2>1. /\ cache' = cache
          /\ \/ Return(TRUE) /\ obj' = obj
             \/ Return(FALSE) /\ obj' \in {obj, None}
             \/ Return(FALSE) /\ obj # None /\ obj' = [obj EXCEPT !.finalizer = FALSE]
      BY <1>7 DEF RemoveFinalizer
    <2>2. StoreTyped'
      <3>1. obj # None => [obj EXCEPT !.finalizer = FALSE] \in Objects
        BY WithFinalizer DEF StoreTyped
      <3> QED
        BY <2>1, <3>1 DEF StoreTyped
    <2> QED
      BY <1>1, <2>1, <2>2, ReturnTyped
  <1> QED
    BY <1>2, <1>3, <1>4, <1>5, <1>6, <1>7 DEF ChildStep

LEMMA PhasesTyped ==
  ASSUME Typed,
         \/ NewRequest \/ SaveUpstreamCluster \/ GetCurrentState \/ Apply \/ WaitUntilReady
         \/ Destroy \/ DeletePool \/ DeletePoolRefused \/ NotifyDeleted \/ WaitUntilMissing
  PROVE  Typed'
  <1> USE DEF Typed
  <1>1. CASE NewRequest
    <2>1. /\ queued' = FALSE /\ UNCHANGED <<kubernetes, found, current, cluster, used, pool, nodes>>
          /\ pc = "Idle"
      BY <1>1 DEF NewRequest, Dequeue
    <2>2. CASE cache # None /\ Accept
      <3>1. /\ original' = cache /\ desired' = cache.spec /\ pc' = "Reconciling"
            /\ timer' = timer
        BY <2>2 DEF Accept
      <3>2. QueueTyped'
        BY <2>1, <3>1, Zenon DEF QueueTyped
      <3>3. cache \in Objects /\ cache.spec \in Specs
        BY <2>2 DEF StoreTyped, Objects
      <3>4. RequestTyped'
        BY <2>1, <3>1, <3>3 DEF RequestTyped, Steps
      <3> QED
        BY <2>1, <3>2, <3>4, StoreKept, WorldKept
    <2>3. ASSUME NEW retry \in BOOLEAN, Reject(retry)
          PROVE  Typed'
      <3>1. timer' = (timer \/ retry) /\ UNCHANGED <<pc, original, desired>>
        BY <2>3 DEF Reject
      <3>2. QueueTyped'
        BY <2>1, <3>1, Zenon DEF QueueTyped
      <3>3. RequestTyped'
        BY <2>1, <3>1 DEF RequestTyped
      <3> QED
        BY <2>1, <3>2, <3>3, StoreKept, WorldKept
    <2> QED
      BY <1>1, <2>2, <2>3 DEF NewRequest
  <1>2. CASE SaveUpstreamCluster
    <2> DEFINE to == SetClusterStatus(original.status, found)
    <2>1. /\ pc = "SaveClusterStatus" /\ cache' = cache /\ UNCHANGED <<cluster, used, pool, nodes>>
          /\ \/ Return(TRUE) /\ obj' = obj
             \/ PatchStatus(to, "UpdateUpstream")
      BY <1>2 DEF SaveUpstreamCluster, SaveClusterStatus
    <2>2. original \in Objects /\ original.status \in Status /\ found \in Clusters \cup {None}
      BY <2>1 DEF RequestTyped, Objects
    <2>3. to \in Status
      BY <2>2, SetClusterStatusFacts
    <2> HIDE DEF to
    <2>4. CASE Return(TRUE) /\ obj' = obj
      <3>1. StoreTyped'
        BY <2>1, <2>4 DEF StoreTyped
      <3> QED
        BY <2>1, <2>4, <3>1, ReturnTyped, WorldKept
    <2>5. CASE PatchStatus(to, "UpdateUpstream")
      <3>1. Patched("UpdateUpstream") \/ Gone
        BY <2>2, <2>3, <2>5, PatchStatusFacts
      <3> QED
        BY <2>1, <3>1, PatchedTyped, WorldKept DEF Steps, UpdatePath
    <2> QED
      BY <2>1, <2>4, <2>5
  <1>3. CASE GetCurrentState
    <2>1. pc = "GetCurrentState" /\ UNCHANGED <<kubernetes, cluster, used, pool, nodes>>
      BY <1>3 DEF GetCurrentState
    <2>2. CASE Return(TRUE)
      BY <2>1, <2>2, ReturnTyped, StoreKept, WorldKept
    <2>3. CASE /\ current' = IF Reachable THEN CopyFromPool ELSE None
               /\ Goto("Apply") /\ UNCHANGED <<original, desired, found>>
      <3>1. current' \in [min: Nat, max: Nat] \cup {None}
        BY <2>1, <2>3, SizesTyped DEF Reachable
      <3>2. original' \in Objects /\ desired' = desired /\ found' \in Clusters \cup {None}
        BY <2>1, <2>3 DEF RequestTyped
      <3> QED
        BY <2>1, <2>3, <3>1, <3>2, GotoTyped, StoreKept, WorldKept DEF Steps, UpdatePath
    <2> QED
      BY <1>3, <2>2, <2>3 DEF GetCurrentState
  <1>4. CASE Apply
    <2>1. /\ pc = "Apply" /\ UNCHANGED <<kubernetes, cluster, used, nodes>>
          /\ Return(TRUE) \/ (Goto("WaitUntilReady") /\ UNCHANGED request)
      BY <1>4 DEF Apply, Create, Update, AlreadyApplied
    <2>2. QueueTyped' /\ RequestTyped'
      BY <2>1, ReturnTyped, SameRequestTyped DEF Steps, UpdatePath
    <2>3. PoolBuilder \in [min: Nat, max: Nat, replicas: Nat]
      BY <2>1, SizesTyped
    <2>4. CASE pool' = pool
      BY <2>1, <2>2, <2>4, StoreKept, WorldKept
    <2>5. CASE /\ cluster # None
               /\ pool' = [cluster |-> cluster.id, managed |-> TRUE, state |-> "live",
                           size |-> PoolBuilder]
      <3>1. cluster.id \in ClusterIDs
        BY <2>5 DEF WorldTyped, Clusters
      <3>2. pool' \in Pools /\ pool'.cluster = cluster.id
        BY <2>3, <2>5, <3>1 DEF Pools
      <3>3. WorldTyped'
        BY <2>1, <2>5, <3>2 DEF WorldTyped
      <3> QED
        BY <2>1, <2>2, <3>3, StoreKept
    <2>6. CASE pool # None /\ pool' = [pool EXCEPT !.size = PoolBuilder]
      <3>1. pool \in Pools /\ cluster # None /\ cluster.id = pool.cluster
        BY <2>6 DEF WorldTyped
      <3>2. pool' \in Pools /\ pool'.cluster = pool.cluster
        BY <2>3, <2>6, <3>1 DEF Pools
      <3>3. WorldTyped'
        BY <2>1, <3>1, <3>2 DEF WorldTyped
      <3> QED
        BY <2>1, <2>2, <3>3, StoreKept
    <2> QED
      BY <1>4, <2>4, <2>5, <2>6 DEF Apply, Create, Update, AlreadyApplied, Reachable
  <1>5. CASE WaitUntilReady
    <2>1. /\ pc = "WaitUntilReady" /\ UNCHANGED <<kubernetes, cluster, used, pool, nodes>>
          /\ Return(TRUE) \/ (Goto("Complete") /\ UNCHANGED request)
      BY <1>5 DEF WaitUntilReady
    <2> QED
      BY <2>1, ReturnTyped, SameRequestTyped, StoreKept, WorldKept DEF Steps, UpdatePath
  <1>6. CASE Destroy
    <2>1. /\ pc = "Destroy" /\ UNCHANGED <<kubernetes, request, cluster, used, pool, nodes>>
          /\ Goto("WaitUntilMissing") \/ Goto("DeletePool")
      BY <1>6 DEF Destroy
    <2> QED
      BY <2>1, SameRequestTyped, StoreKept, WorldKept DEF Steps, DeletePath
  <1>7. CASE DeletePool
    <2>1. /\ pc = "DeletePool" /\ UNCHANGED <<kubernetes, request, cluster, used, nodes>>
          /\ Goto("NotifyDeleted")
          /\ \/ pool' = pool
             \/ pool # None /\ pool' = [pool EXCEPT !.state = "deleting"]
      BY <1>7 DEF DeletePool, Reachable
    <2>2. WorldTyped'
      <3>1. pool # None => /\ [pool EXCEPT !.state = "deleting"] \in Pools
                           /\ [pool EXCEPT !.state = "deleting"].cluster = pool.cluster
        BY DEF WorldTyped, Pools
      <3> QED
        BY <2>1, <3>1 DEF WorldTyped
    <2> QED
      BY <2>1, <2>2, SameRequestTyped, StoreKept DEF Steps, DeletePath
  <1>8. CASE DeletePoolRefused
    <2>1. Return(TRUE) /\ UNCHANGED <<kubernetes, cluster, used, pool, nodes>>
      BY <1>8 DEF DeletePoolRefused
    <2> QED
      BY <2>1, ReturnTyped, StoreKept, WorldKept
  <1>9. CASE NotifyDeleted
    <2>1. /\ pc = "NotifyDeleted" /\ cache' = cache /\ UNCHANGED <<cluster, used, pool, nodes>>
          /\ UpdateCondition(MachinePoolDeleted, "WaitUntilMissing")
      BY <1>9 DEF NotifyDeleted
    <2>2. MachinePoolDeleted \in AllConditions /\ "WaitUntilMissing" \in Steps
      BY DEF AllConditions, Steps, DeletePath
    <2> QED
      BY <2>1, <2>2, UpdateConditionTyped, WorldKept
  <1>10. CASE WaitUntilMissing
    <2>1. /\ pc = "WaitUntilMissing" /\ UNCHANGED <<kubernetes, cluster, used, pool, nodes>>
          /\ Return(TRUE) \/ (Goto("RemoveFinalizer") /\ UNCHANGED request)
      BY <1>10 DEF WaitUntilMissing
    <2> QED
      BY <2>1, ReturnTyped, SameRequestTyped, StoreKept, WorldKept DEF Steps, DeletePath
  <1> QED
    BY <1>1, <1>2, <1>3, <1>4, <1>5, <1>6, <1>7, <1>8, <1>9, <1>10

LEMMA OutageTyped ==
  ASSUME Typed, Outage
  PROVE  Typed'
  <1> USE DEF Typed
  <1>1. WorldTyped'
    <2>1. UNCHANGED <<cluster, used, pool, nodes>>
      BY DEF Outage, ChildOutage, GetUpstreamClusterFails, CallFails, Crash
    <2> QED
      BY <2>1, WorldKept
  <1>2. CASE GetUpstreamClusterFails
    <2>1. /\ pc = "GetUpstreamCluster" /\ found' = None /\ Goto("SaveClusterStatus")
          /\ UNCHANGED <<kubernetes, original, desired, current>>
      BY <1>2 DEF GetUpstreamClusterFails
    <2>2. original' \in Objects /\ current' \in [min: Nat, max: Nat] \cup {None}
      BY <2>1 DEF RequestTyped
    <2> QED
      BY <1>1, <2>1, <2>2, StoreKept, GotoTyped DEF Steps, UpdatePath
  <1>3. CASE CallFails
    BY <1>1, <1>3, StoreKept, ReturnTyped DEF CallFails
  <1>4. CASE Crash
    <2>1. queued' = (obj # None) /\ timer' = FALSE
      BY <1>4 DEF Crash
    <2>2. QueueTyped'
      BY <2>1, Zenon DEF QueueTyped
    <2>3. StoreTyped' /\ RequestTyped'
      BY <1>4 DEF Crash, StoreTyped, RequestTyped, Steps
    <2> QED
      BY <1>1, <2>2, <2>3
  <1> QED
    BY <1>2, <1>3, <1>4 DEF Outage, ChildOutage

LEMMA EnvironmentTyped ==
  ASSUME Typed, World
  PROVE  Typed'
  <1> USE DEF Typed
  <1>1. CASE SyncCache /\ UNCHANGED <<pool, nodes>>
    <2> DEFINE event == \/ cache = None \/ obj = None
                        \/ cache # None /\ obj # None /\ ~cache.deleting /\ obj.deleting
                        \/ cache # None /\ obj # None /\ cache.generation # obj.generation
    <2>1. /\ cache' = obj /\ queued' = (queued \/ event) /\ timer' = timer
          /\ UNCHANGED <<obj, pc, request, cluster, used>>
      BY <1>1, Zenon DEF SyncCache
    <2>2. QueueTyped'
      BY <2>1, Zenon DEF QueueTyped
    <2>3. StoreTyped'
      BY <2>1 DEF StoreTyped
    <2> QED
      BY <1>1, <2>1, <2>2, <2>3, RequestKept, WorldKept
  <1>2. CASE TimerFires /\ UNCHANGED <<pool, nodes>>
    <2>1. timer' = FALSE /\ queued' = TRUE /\ UNCHANGED <<kubernetes, pc, request, cluster, used>>
      BY <1>2 DEF TimerFires
    <2>2. QueueTyped'
      BY <2>1, Zenon DEF QueueTyped
    <2> QED
      BY <1>2, <2>1, <2>2, StoreKept, RequestKept, WorldKept
  <1>3. CASE UserEdits /\ UNCHANGED <<pool, nodes>>
    <2>1. obj \in Objects /\ obj.generation < MaxGeneration
      BY <1>3 DEF UserEdits, StoreTyped
    <2>2. PICK spec \in Specs : obj' = [obj EXCEPT !.generation = obj.generation + 1, !.spec = spec]
      BY <1>3 DEF UserEdits
    <2>3. obj' \in Objects
      BY <2>1, <2>2, WithSpec
    <2>4. UNCHANGED <<cache, queue, pc, request, cluster, used>>
      BY <1>3 DEF UserEdits
    <2>5. StoreTyped'
      BY <2>3, <2>4 DEF StoreTyped
    <2> QED
      BY <1>3, <2>4, <2>5, QueueKept, RequestKept, WorldKept
  <1>4. CASE UserDeletes /\ UNCHANGED <<pool, nodes>>
    <2>1. obj \in Objects /\ (obj' = [obj EXCEPT !.deleting = TRUE] \/ obj' = None)
      BY <1>4 DEF UserDeletes, StoreTyped
    <2>2. obj' \in Objects \cup {None}
      BY <2>1, WithDeleting
    <2>3. UNCHANGED <<cache, queue, pc, request, cluster, used>>
      BY <1>4 DEF UserDeletes
    <2>4. StoreTyped'
      BY <2>2, <2>3 DEF StoreTyped
    <2> QED
      BY <1>4, <2>3, <2>4, QueueKept, RequestKept, WorldKept
  <1>5. CASE UserRecreates(NewObjects) /\ UNCHANGED <<pool, nodes>>
    <2>1. obj' \in Objects
      BY <1>5, NewObjectsTyped DEF UserRecreates
    <2>2. queued' = TRUE /\ timer' = timer /\ UNCHANGED <<cache, pc, request, cluster, used>>
      BY <1>5 DEF UserRecreates
    <2>3. QueueTyped'
      BY <2>2, Zenon DEF QueueTyped
    <2>4. StoreTyped'
      BY <2>1, <2>2 DEF StoreTyped
    <2> QED
      BY <1>5, <2>2, <2>3, <2>4, RequestKept, WorldKept
  <1>6. CASE ClusterAppears /\ UNCHANGED <<pool, nodes>>
    <2>1. PICK id \in ClusterIDs \ used :
            cluster' = [id |-> id, state |-> "installing"] /\ used' = used \cup {id}
      BY <1>6 DEF ClusterAppears
    <2>2. cluster = None /\ UNCHANGED <<kubernetes, queue, pc, request>>
      BY <1>6 DEF ClusterAppears
    <2>3. cluster' \in Clusters /\ cluster'.id = id
      BY <2>1 DEF Clusters
    <2>4. WorldTyped'
      BY <1>6, <2>1, <2>2, <2>3 DEF WorldTyped
    <2> QED
      BY <2>2, <2>4, StoreKept, QueueKept, RequestKept
  <1>7. CASE (ClusterInstalled \/ ClusterUninstalls) /\ UNCHANGED <<pool, nodes>>
    <2>1. /\ cluster # None /\ UNCHANGED <<kubernetes, queue, pc, request, used>>
          /\ \/ cluster' = [cluster EXCEPT !.state = "ready"]
             \/ cluster' = [cluster EXCEPT !.state = "uninstalling"]
      BY <1>7 DEF ClusterInstalled, ClusterUninstalls
    <2>2. cluster \in Clusters
      BY <2>1 DEF WorldTyped
    <2>3. cluster' \in Clusters /\ cluster'.id = cluster.id
      BY <2>1, <2>2 DEF Clusters
    <2>4. cluster' # None
      BY <2>3, NoneAssumption
    <2>5. WorldTyped'
      BY <1>7, <2>1, <2>3, <2>4 DEF WorldTyped
    <2> QED
      BY <2>1, <2>5, StoreKept, QueueKept, RequestKept
  <1>8. CASE PoolRemoved \/ NodesJoin \/ NodesLeave
    <2>1. UNCHANGED childVars /\ pool' \in {pool, None} /\ nodes' \in {nodes, "none", "unready", "ready"}
      BY <1>8 DEF PoolRemoved, NodesJoin, NodesLeave
    <2>2. UNCHANGED <<kubernetes, queue, pc, request, cluster, used>>
      BY <2>1 DEF childVars
    <2>3. WorldTyped'
      BY <2>1, <2>2 DEF WorldTyped
    <2> QED
      BY <2>2, <2>3, StoreKept, QueueKept, RequestKept
  <1>9. CASE OthersCreatePool
    <2>1. /\ cluster # None /\ UNCHANGED childVars /\ nodes' = nodes
          /\ pool' = [cluster |-> cluster.id, managed |-> FALSE, state |-> "live", size |-> Fixed(1)]
      BY <1>9 DEF OthersCreatePool
    <2>2. UNCHANGED <<kubernetes, queue, pc, request, cluster, used>>
      BY <2>1 DEF childVars
    <2>3. cluster.id \in ClusterIDs /\ Fixed(1) \in [min: Nat, max: Nat, replicas: Nat]
      BY <2>1 DEF WorldTyped, Clusters, Fixed
    <2>4. pool' \in Pools /\ pool'.cluster = cluster.id
      BY <2>1, <2>3 DEF Pools
    <2>5. WorldTyped'
      BY <2>1, <2>2, <2>4 DEF WorldTyped
    <2> QED
      BY <2>2, <2>5, StoreKept, QueueKept, RequestKept
  <1>10. CASE ParentGone
    <2>1. /\ cluster' = None /\ pool' = None /\ nodes' = "none"
          /\ UNCHANGED <<kubernetes, queue, pc, request, used>>
      BY <1>10 DEF ParentGone, ClusterGone
    <2>2. WorldTyped'
      BY <2>1 DEF WorldTyped
    <2> QED
      BY <2>1, <2>2, StoreKept, QueueKept, RequestKept
  <1> QED
    BY <1>1, <1>2, <1>3, <1>4, <1>5, <1>6, <1>7, <1>8, <1>9, <1>10 DEF World, ChildWorld

LEMMA InitTyped ==
  ASSUME Init
  PROVE  Typed
  <1>1. queued = FALSE /\ timer = FALSE
    BY DEF Init, ChildInit
  <1>2. QueueTyped
    BY <1>1, Zenon DEF QueueTyped
  <1>3. obj \in Objects
    BY NewObjectsTyped DEF Init, ChildInit
  <1>4. StoreTyped /\ RequestTyped /\ WorldTyped
    BY <1>3 DEF Init, ChildInit, StoreTyped, RequestTyped, WorldTyped, Steps
  <1> QED
    BY <1>2, <1>4 DEF Typed

LEMMA StepTyped ==
  ASSUME Typed, [Next]_vars
  PROVE  Typed'
  <1>1. CASE Next
    BY <1>1, ChildStepTyped, PhasesTyped, OutageTyped, EnvironmentTyped DEF Next, ReconcileStep
  <1>2. CASE UNCHANGED vars
    <2>1. UNCHANGED <<kubernetes, queue, pc, request, cluster, used, pool, nodes>>
      BY <1>2 DEF vars, childVars
    <2> QED
      BY <2>1, StoreKept, QueueKept, RequestKept, WorldKept DEF Typed
  <1> QED
    BY <1>1, <1>2

LEMMA AlwaysTyped == Spec => []Typed
  <1>1. Init => Typed
    BY InitTyped
  <1>2. Typed /\ [Next]_vars => Typed'
    BY StepTyped
  <1> QED
    BY <1>1, <1>2, PTL DEF Spec

\* Every variable of the MachinePool reconciler keeps its type, whatever
\* happens in the environment: a request in progress has an object and a spec,
\* and a pool exists only in a cluster.
THEOREM TypeCorrect == Spec => []TypeOK
  <1>1. Typed => TypeOK
    <2>1. ASSUME QueueTyped PROVE {queued, timer} \subseteq BOOLEAN
      BY <2>1, Zenon DEF QueueTyped
    <2> QED
      BY <2>1 DEF Typed, TypeOK, StoreTyped, RequestTyped, WorldTyped
  <1> QED
    BY <1>1, AlwaysTyped, PTL

-----------------------------------------------------------------------------
(* Pools of other tools *)

LiveOwn == OwnPool /\ pool.state = "live"

\* A pool that GetCurrentState found to be the operator's still is when Apply
\* comes to update it, or its cluster is gone for good: OCM never hands out
\* the recorded id again.
StillOwn ==
    pc = "Apply" /\ current # None =>
        /\ original.status.clusterID \in used
        /\ LiveOwn \/ cluster = None \/ cluster.id # original.status.clusterID

LEMMA StillOwnKept ==
  ASSUME Typed, StillOwn, [Next]_vars
  PROVE  StillOwn'
  <1>1. CASE UNCHANGED <<pc, current, original, used, pool, cluster>>
    BY <1>1 DEF StillOwn, LiveOwn, OwnPool
  <1>2. CASE pc' # "Apply"
    BY <1>2 DEF StillOwn
  <1>3. CASE GetCurrentState
    <2>1. CASE Return(TRUE)
      BY <2>1, <1>2 DEF Return
    <2>2. CASE Reachable /\ pool.managed /\ UNCHANGED <<original, cluster, used, pool>>
      <3>1. /\ LiveOwn /\ cluster # None /\ cluster.id \in used
            /\ cluster.id = original.status.clusterID
        BY <2>2 DEF Reachable, LiveOwn, OwnPool, Typed, WorldTyped
      <3> QED
        BY <2>2, <3>1 DEF StillOwn, LiveOwn, OwnPool
    <2>3. CASE current' = None
      BY <2>3 DEF StillOwn
    <2> QED
      BY <1>3, <2>1, <2>2, <2>3 DEF GetCurrentState
  <1>4. ASSUME pc = "Apply", UNCHANGED <<pc, current, original>>, StillOwn,
               used \subseteq used',
               \/ LiveOwn => LiveOwn' /\ cluster' # None
               \/ cluster' = None,
               \/ cluster' = None
               \/ cluster # None /\ cluster' # None /\ cluster'.id = cluster.id
               \/ cluster = None /\ pool = None /\ cluster'.id \notin used
        PROVE  StillOwn'
    BY <1>4 DEF StillOwn, LiveOwn, OwnPool
  <1>5. CASE pc = "Apply" /\ World
    <2>1. CASE ClusterAppears /\ UNCHANGED <<pool, nodes>>
      <3>1. PICK id \in ClusterIDs \ used :
              cluster' = [id |-> id, state |-> "installing"] /\ used' = used \cup {id}
        BY <2>1 DEF ClusterAppears
      <3>2. cluster = None /\ UNCHANGED <<pc, current, original>>
        BY <2>1 DEF ClusterAppears, request
      <3>3. pool = None
        BY <3>2 DEF Typed, WorldTyped
      <3> QED
        BY <1>4, <1>5, <3>1, <3>2, <3>3 DEF LiveOwn, OwnPool
    <2>2. CASE (ClusterInstalled \/ ClusterUninstalls) /\ UNCHANGED <<pool, nodes>>
      <3>1. /\ cluster # None /\ UNCHANGED <<pc, current, original, used, pool>>
            /\ \/ cluster' = [cluster EXCEPT !.state = "ready"]
               \/ cluster' = [cluster EXCEPT !.state = "uninstalling"]
        BY <2>2 DEF ClusterInstalled, ClusterUninstalls, request
      <3>2. cluster \in Clusters
        BY <3>1 DEF Typed, WorldTyped
      <3>3. cluster' \in Clusters /\ cluster'.id = cluster.id
        BY <3>1, <3>2 DEF Clusters
      <3>4. cluster' # None
        BY <3>3, NoneAssumption
      <3> QED
        BY <1>4, <1>5, <3>1, <3>3, <3>4 DEF LiveOwn, OwnPool
    <2>3. CASE ParentGone
      BY <1>4, <1>5, <2>3 DEF ParentGone, ClusterGone, request
    <2>4. CASE PoolRemoved \/ OthersCreatePool
      <3>1. ~LiveOwn /\ UNCHANGED <<pc, current, original, used, cluster>>
        BY <2>4 DEF PoolRemoved, OthersCreatePool, LiveOwn, OwnPool, childVars, request
      <3> QED
        BY <1>5, <3>1 DEF StillOwn
    <2>5. CASE NodesJoin \/ NodesLeave
      BY <1>1, <2>5 DEF NodesJoin, NodesLeave, childVars, request
    <2>6. CASE /\ SyncCache \/ TimerFires \/ UserEdits \/ UserDeletes \/ UserRecreates(NewObjects)
               /\ UNCHANGED <<pool, nodes>>
      BY <1>1, <2>6 DEF SyncCache, TimerFires, UserEdits, UserDeletes, UserRecreates, request
    <2> QED
      BY <1>5, <2>1, <2>2, <2>3, <2>4, <2>5, <2>6 DEF World, ChildWorld
  <1>6. CASE pc # "Apply" /\ World
    <2>1. pc' = pc
      BY <1>6 DEF World, ChildWorld, SyncCache, TimerFires, UserEdits, UserDeletes, UserRecreates,
                  ClusterAppears, ClusterInstalled, ClusterUninstalls, ParentGone, ClusterGone,
                  PoolRemoved, OthersCreatePool, NodesJoin, NodesLeave, childVars
    <2> QED
      BY <1>2, <1>6, <2>1
  <1>7. CASE Outage
    BY <1>2, <1>7 DEF Outage, ChildOutage, GetUpstreamClusterFails, CallFails, Crash, Return, Goto
  <1>8. CASE ChildStep
    <2>1. pc' # "Apply"
      BY <1>8 DEF ChildStep, ReconcileTrigger, AddFinalizer, GetUpstreamCluster, UpdateUpstream,
                  Complete, RemoveFinalizer, UpdateCondition, UpdateConditionAndReturn,
                  PatchStatus, Goto, Return
    <2> QED
      BY <1>2, <2>1
  <1>9. CASE \/ NewRequest \/ SaveUpstreamCluster \/ Apply \/ WaitUntilReady \/ Destroy
             \/ DeletePool \/ DeletePoolRefused \/ NotifyDeleted \/ WaitUntilMissing
    <2>1. pc' # "Apply"
      BY <1>9 DEF NewRequest, Dequeue, Accept, Reject, SaveUpstreamCluster, SaveClusterStatus,
                  Apply, Create, Update, AlreadyApplied, WaitUntilReady, Destroy, DeletePool,
                  DeletePoolRefused, NotifyDeleted, WaitUntilMissing, UpdateCondition,
                  PatchStatus, Goto, Return
    <2> QED
      BY <1>2, <2>1
  <1>10. CASE UNCHANGED vars
    BY <1>1, <1>10 DEF vars, childVars, request
  <1> QED
    BY <1>3, <1>5, <1>6, <1>7, <1>8, <1>9, <1>10 DEF Next, ReconcileStep

LEMMA OthersPoolKept ==
  ASSUME Typed, StillOwn, [Next]_vars, pool # None, ~pool.managed, pool' # None
  PROVE  pool'.size = pool.size
  <1>1. CASE pool' = pool
    BY <1>1
  <1>2. CASE Apply
    <2>1. ~Update \/ pool' = pool
      <3>1. SUFFICES ASSUME Update, Reachable PROVE FALSE
        BY DEF Update
      <3>2. /\ cluster # None /\ cluster.id = original.status.clusterID
            /\ pc = "Apply" /\ current # None
        BY <3>1 DEF Update, Reachable, Typed, WorldTyped
      <3> QED
        BY <3>2 DEF StillOwn, LiveOwn, OwnPool
    <2> QED
      BY <1>1, <1>2, <2>1 DEF Apply, Create, AlreadyApplied
  <1>3. CASE DeletePool
    <2>1. pool \in Pools
      BY DEF Typed, WorldTyped
    <2> QED
      BY <1>1, <1>3, <2>1 DEF DeletePool, Pools
  <1>4. CASE World
    BY <1>1, <1>4 DEF World, PoolRemoved, OthersCreatePool, NodesJoin, NodesLeave, ParentGone
  <1>5. CASE \/ ChildStep /\ UNCHANGED <<pool, nodes>>
             \/ NewRequest \/ SaveUpstreamCluster \/ GetCurrentState \/ WaitUntilReady \/ Destroy
             \/ DeletePoolRefused \/ NotifyDeleted \/ WaitUntilMissing \/ Outage
             \/ UNCHANGED vars
    BY <1>1, <1>5 DEF NewRequest, SaveUpstreamCluster, GetCurrentState, WaitUntilReady, Destroy,
                      DeletePoolRefused, NotifyDeleted, WaitUntilMissing, Outage, vars
  <1> QED
    BY <1>2, <1>3, <1>4, <1>5 DEF Next, ReconcileStep

\* GetCurrentState stops at a pool without the managed labels, and what it read
\* does not go stale before Apply acts on it: in no environment does the
\* reconciler update a pool of another tool.
THEOREM OthersUntouched == Spec => OthersPoolNotUpdated
  <1>1. Init => StillOwn
    BY DEF Init, ChildInit, StillOwn
  <1>2. StillOwn /\ Typed /\ [Next]_vars => StillOwn'
    BY StillOwnKept
  <1>3. StillOwn /\ Typed /\ [Next]_vars
          => [pool # None /\ ~pool.managed /\ pool' # None => pool'.size = pool.size]_vars
    BY OthersPoolKept
  <1> QED
    BY <1>1, <1>2, <1>3, AlwaysTyped, PTL DEF Spec, OthersPoolNotUpdated

-----------------------------------------------------------------------------
(* What a step does to the object, the copies of it and the pool *)

\* The conditions that only a deletion sets.
Marks == {Reconciling("Delete"), MachinePoolDeleted}

Marked(o) == o # None /\ o.status.conditions \cap Marks # {}

Says(o) == o # None /\ MachinePoolDeleted \in o.status.conditions

StatusKept(a, b) == Alike(a, b) /\ b.status = a.status

\* The conditions of original, one of them replaced, are stored.
Noted ==
    /\ obj # None /\ obj' # None /\ Alike(obj, obj') /\ Same(obj, obj')
    /\ obj'.status.conditions \cap Marks \subseteq original.status.conditions

Stops ==
    /\ pc' = "Idle" /\ original' = None
    /\ cache' \in {cache, obj} /\ UNCHANGED <<obj, pool, nodes>>

Reports ==
    /\ pc \in {"UpdateUpstream", "Complete"}
    /\ pc' = "Idle" /\ original' = None /\ Noted
    /\ UNCHANGED <<cache, pool, nodes>>

Starts ==
    /\ pc = "Idle" /\ pc' = "Reconciling"
    /\ cache # None /\ original' = cache
    /\ "lag" \in Environment \/ cache = obj
    /\ UNCHANGED <<obj, cache, pool, nodes>>

Triggers ==
    /\ pc = "Reconciling" /\ pc' = IF original.deleting THEN "Destroy" ELSE "AddFinalizer"
    /\ \/ UNCHANGED <<obj, original>> /\ (original.deleting => Marked(original))
       \/ /\ obj # None /\ obj' # None /\ Alike(obj, obj') /\ Same(obj, obj') /\ original' = obj'
          /\ ~original.deleting => obj'.status.conditions \cap Marks \subseteq original.status.conditions
          /\ Says(obj') => Says(original)
    /\ UNCHANGED <<cache, pool, nodes>>

Finalizes ==
    /\ pc = "AddFinalizer" /\ pc' = "GetUpstreamCluster"
    /\ \/ original.finalizer /\ UNCHANGED <<obj, original>>
       \/ /\ obj # None /\ obj' # None /\ original' = obj'
          /\ obj'.finalizer /\ obj'.deleting = obj.deleting /\ obj'.wait = obj.wait
          /\ obj'.status = obj.status
    /\ UNCHANGED <<cache, pool, nodes>>

LooksUp ==
    /\ pc = "GetUpstreamCluster"
    /\ \/ found' = None /\ pc' = "UpdateUpstream"
       \/ found' = cluster /\ cluster # None /\ pc' = "SaveClusterStatus"
       \/ "flaky" \in Environment /\ found' = None /\ pc' = "SaveClusterStatus"
    /\ UNCHANGED <<obj, cache, original, pool, nodes>>

Saves ==
    /\ pc = "SaveClusterStatus" /\ pc' = "UpdateUpstream"
    /\ obj # None /\ obj' # None /\ Alike(obj, obj') /\ original' = obj'
    /\ obj'.status.conditions = obj.status.conditions
    /\ \/ obj'.status.clusterID = obj.status.clusterID
       \/ found # None /\ obj'.status.clusterID = found.id
    /\ \/ obj'.status.hosted = obj.status.hosted
       \/ obj'.status.hosted = (found # None /\ found.id \in Hosted)
    /\ UNCHANGED <<cache, pool, nodes>>

Checks ==
    /\ pc = "UpdateUpstream" /\ pc' = "GetCurrentState" /\ found # None
    /\ UNCHANGED <<obj, original>> \/ (Noted /\ original' = obj')
    /\ UNCHANGED <<cache, pool, nodes>>

Reads ==
    /\ pc = "GetCurrentState" /\ pc' = "Apply"
    /\ UNCHANGED <<obj, cache, original, pool, nodes>>

\* No pool of the operator turns up, and one that it has stays where it is.
PoolStays == LiveOwn' => LiveOwn /\ pool'.cluster = pool.cluster

Applies ==
    /\ pc = "Apply" /\ pc' = "WaitUntilReady"
    /\ \/ PoolStays
       \/ /\ pool'.cluster = original.status.clusterID
          /\ original.status.hosted = (pool'.cluster \in Hosted)
    /\ UNCHANGED <<obj, cache, original, nodes>>

Settles ==
    /\ pc = "WaitUntilReady" /\ pc' = "Complete"
    /\ UNCHANGED <<obj, cache, original, pool, nodes>>

Destroys ==
    /\ pc = "Destroy"
    /\ \/ pc' = "DeletePool"
       \/ pc' = "WaitUntilMissing" /\ (Says(original) \/ pool = None)
    /\ UNCHANGED <<obj, cache, original, pool, nodes>>

Deletes ==
    /\ pc = "DeletePool" /\ pc' = "NotifyDeleted"
    /\ IF Reachable THEN ~LiveOwn' ELSE pool' = pool
    /\ UNCHANGED <<obj, cache, original, nodes>>

Notifies ==
    /\ pc = "NotifyDeleted" /\ pc' = "WaitUntilMissing"
    /\ \/ UNCHANGED <<obj, original>>
       \/ obj # None /\ obj' # None /\ Alike(obj, obj') /\ Same(obj, obj') /\ original' = obj'
    /\ UNCHANGED <<cache, pool, nodes>>

Passes ==
    /\ pc = "WaitUntilMissing" /\ pc' = "RemoveFinalizer"
    /\ original.wait => nodes = "none"
    /\ UNCHANGED <<obj, cache, original, pool, nodes>>

Releases ==
    /\ pc = "RemoveFinalizer" /\ pc' = "Idle" /\ original' = None
    /\ obj # None /\ (obj.deleting => obj' = None)
    /\ UNCHANGED <<cache, pool, nodes>>

Syncs ==
    /\ pc = "Idle" \/ "lag" \in Environment
    /\ cache' = obj
    /\ UNCHANGED <<obj, original, pc, found, pool, nodes>>

Edits ==
    /\ obj # None /\ obj' # None /\ StatusKept(obj, obj')
    /\ UNCHANGED <<cache, original, pc, found, pool, nodes>>

Removes ==
    /\ obj # None /\ ~obj.deleting
    /\ IF obj.finalizer
       THEN /\ obj' # None /\ obj'.deleting /\ obj'.finalizer
            /\ obj'.status = obj.status /\ obj'.wait = obj.wait
       ELSE obj' = None
    /\ UNCHANGED <<cache, original, pc, found, pool, nodes>>

Recreates ==
    /\ "recreate" \in Environment
    /\ obj = None /\ obj' # None
    /\ ~obj'.deleting /\ ~obj'.finalizer /\ obj'.status.conditions = {}
    /\ UNCHANGED <<cache, original, pc, found, pool, nodes>>

\* Nodes come only to a pool of the operator that is not being deleted.
Turns ==
    /\ PoolStays
    /\ nodes' \in {nodes, "none"} \/ LiveOwn
    /\ UNCHANGED <<obj, cache, original, pc, found>>

Effect ==
    \/ Stops \/ Reports \/ Starts \/ Triggers \/ Finalizes \/ LooksUp \/ Saves \/ Checks
    \/ Reads \/ Applies \/ Settles \/ Destroys \/ Deletes \/ Notifies \/ Passes \/ Releases
    \/ Syncs \/ Edits \/ Removes \/ Recreates \/ Turns

LEMMA AddConditionKeeps ==
  ASSUME NEW cs, NEW c, NEW d, d \in AddCondition(cs, c)
  PROVE  d \in cs \/ d = c
  BY DEF AddCondition

LEMMA StopsOnReturn ==
  ASSUME NEW b, Return(b), UNCHANGED <<obj, cache, pool, nodes>>
  PROVE  Stops
  BY DEF Return, Stops

LEMMA StopsOnGone ==
  ASSUME Gone, UNCHANGED <<cache, pool, nodes>>
  PROVE  Stops
  BY DEF Gone, Return, Stops

\* Every step has one of these effects.
LEMMA EffectOfReconcile ==
  ASSUME Typed, ReconcileStep
  PROVE  Effect
  <1> USE DEF Typed
  <1>1. CASE ReconcileTrigger /\ UNCHANGED <<pool, nodes>>
    <2> DEFINE trigger == GetTrigger(original.deleting)
               next == IF trigger = "Delete" THEN "Destroy" ELSE "AddFinalizer"
               c == Reconciling(trigger)
    <2>1. pc = "Reconciling" /\ cache' = cache /\ UpdateCondition(c, next)
      BY <1>1 DEF ReconcileTrigger
    <2>2. original \in Objects /\ original # None /\ original.deleting \in BOOLEAN
      BY <2>1, ObjectNotNone DEF RequestTyped, Objects
    <2>3. c \in AllConditions
      BY DEF GetTrigger, AllConditions, CommonConditions
    <2>4. /\ next = IF original.deleting THEN "Destroy" ELSE "AddFinalizer"
          /\ original.deleting => c \in Marks
          /\ ~original.deleting => c \notin Marks
          /\ c # MachinePoolDeleted
      BY <2>2 DEF GetTrigger, Marks, MachinePoolDeleted, Reconciling, Condition
    <2> HIDE DEF c, next
    <2>5. \/ /\ c \in original.status.conditions
             /\ Goto(next) /\ UNCHANGED <<obj, request>>
          \/ Gone
          \/ /\ Patched(next) /\ Same(obj, obj')
             /\ obj'.status.conditions = AddCondition(original.status.conditions, c)
      BY <2>1, <2>2, <2>3, UpdateConditionFacts
    <2>6. CASE c \in original.status.conditions /\ Goto(next) /\ UNCHANGED <<obj, request>>
      <3>1. Triggers
        BY <1>1, <2>1, <2>2, <2>4, <2>6 DEF Triggers, Goto, request, Marked
      <3> QED
        BY <3>1 DEF Effect
    <2>7. CASE Gone
      BY <1>1, <2>1, <2>7, StopsOnGone DEF Effect
    <2>8. CASE /\ Patched(next) /\ Same(obj, obj')
               /\ obj'.status.conditions = AddCondition(original.status.conditions, c)
      <3>1. \A d \in obj'.status.conditions : d \in original.status.conditions \/ d = c
        BY <2>8, AddConditionKeeps
      <3>2. obj # None /\ obj' # None
        BY <2>8, ObjectNotNone DEF Patched
      <3>3. ~original.deleting => obj'.status.conditions \cap Marks \subseteq original.status.conditions
        BY <2>4, <3>1
      <3>4. Says(obj') => Says(original)
        BY <2>2, <2>4, <3>1 DEF Says
      <3>5. Triggers
        BY <1>1, <2>1, <2>4, <2>8, <3>2, <3>3, <3>4 DEF Triggers, Patched, Goto
      <3> QED
        BY <3>5 DEF Effect
    <2> QED
      BY <2>5, <2>6, <2>7, <2>8
  <1>2. CASE AddFinalizer /\ UNCHANGED <<pool, nodes>>
    <2>1. pc = "AddFinalizer" /\ cache' = cache
      BY <1>2 DEF AddFinalizer
    <2>2. CASE original.finalizer
      <3>1. Finalizes
        BY <1>2, <2>1, <2>2 DEF AddFinalizer, Finalizes, Goto, request
      <3> QED
        BY <3>1 DEF Effect
    <2>3. CASE ~original.finalizer /\ obj = None
      <3>1. Stops
        BY <1>2, <2>1, <2>3 DEF AddFinalizer, Stops, Return
      <3> QED
        BY <3>1 DEF Effect
    <2>4. CASE ~original.finalizer /\ obj # None
      <3>1. /\ obj' = [obj EXCEPT !.finalizer = TRUE] /\ original' = obj'
            /\ pc' = "GetUpstreamCluster"
        BY <1>2, <2>4 DEF AddFinalizer, Goto
      <3>2. obj \in Objects
        BY <2>4 DEF StoreTyped
      <3>3. /\ obj' \in Objects /\ obj'.finalizer /\ obj'.deleting = obj.deleting
            /\ obj'.wait = obj.wait /\ obj'.status = obj.status
        BY <3>1, <3>2, WithFinalizer
      <3>4. obj' # None
        BY <3>3, ObjectNotNone
      <3>5. Finalizes
        BY <1>2, <2>1, <2>4, <3>1, <3>3, <3>4 DEF Finalizes
      <3> QED
        BY <3>5 DEF Effect
    <2> QED
      BY <2>2, <2>3, <2>4
  <1>3. CASE GetUpstreamCluster /\ UNCHANGED <<pool, nodes>>
    <2>1. LooksUp
      BY <1>3 DEF GetUpstreamCluster, LooksUp, Goto, kubernetes
    <2> QED
      BY <2>1 DEF Effect
  <1>4. ASSUME NEW c \in AllConditions \ Marks, UpdateConditionAndReturn(c),
               pc \in {"UpdateUpstream", "Complete"}, UNCHANGED <<cache, pool, nodes>>
        PROVE  Effect
    <2>1. original \in Objects
      BY <1>4 DEF RequestTyped
    <2>2. /\ Return(TRUE)
          /\ \/ obj' = obj
             \/ /\ obj \in Objects /\ obj' \in Objects
                /\ Alike(obj, obj') /\ Same(obj, obj')
                /\ obj'.status.conditions = AddCondition(original.status.conditions, c)
      BY <1>4, <2>1, UpdateConditionAndReturnFacts
    <2>3. CASE obj' = obj
      BY <1>4, <2>2, <2>3, StopsOnReturn DEF Effect
    <2>4. CASE /\ obj \in Objects /\ obj' \in Objects
               /\ Alike(obj, obj') /\ Same(obj, obj')
               /\ obj'.status.conditions = AddCondition(original.status.conditions, c)
      <3>1. obj # None /\ obj' # None
        BY <2>4, ObjectNotNone
      <3>2. obj'.status.conditions \cap Marks \subseteq original.status.conditions
        BY <1>4, <2>4, AddConditionKeeps
      <3>3. Reports
        BY <1>4, <2>2, <2>4, <3>1, <3>2 DEF Reports, Noted, Return
      <3> QED
        BY <3>3 DEF Effect
    <2> QED
      BY <2>2, <2>3, <2>4
  <1>5. CASE UpdateUpstream /\ UNCHANGED <<pool, nodes>>
    <2> DEFINE c == UpstreamCluster("Create", found # None)
    <2>1. /\ pc = "UpdateUpstream" /\ cache' = cache
          /\ \/ found # None /\ UpdateCondition(c, "GetCurrentState")
             \/ UpdateConditionAndReturn(c)
      BY <1>5 DEF UpdateUpstream
    <2>2. c \in AllConditions \ Marks
      BY DEF AllConditions, CommonConditions, Marks, MachinePoolDeleted, Reconciling,
             UpstreamCluster, Condition
    <2> HIDE DEF c
    <2>3. CASE found # None /\ UpdateCondition(c, "GetCurrentState")
      <3>1. original \in Objects
        BY <2>1 DEF RequestTyped
      <3>2. \/ Goto("GetCurrentState") /\ UNCHANGED <<obj, request>>
            \/ Gone
            \/ /\ Patched("GetCurrentState") /\ Same(obj, obj')
               /\ obj'.status.conditions = AddCondition(original.status.conditions, c)
        BY <2>2, <2>3, <3>1, UpdateConditionFacts
      <3>3. CASE Goto("GetCurrentState") /\ UNCHANGED <<obj, request>>
        <4>1. Checks
          BY <1>5, <2>1, <2>3, <3>3 DEF Checks, Goto, request
        <4> QED
          BY <4>1 DEF Effect
      <3>4. CASE Gone
        BY <1>5, <2>1, <3>4, StopsOnGone DEF Effect
      <3>5. CASE /\ Patched("GetCurrentState") /\ Same(obj, obj')
                 /\ obj'.status.conditions = AddCondition(original.status.conditions, c)
        <4>1. obj'.status.conditions \cap Marks \subseteq original.status.conditions
          BY <2>2, <3>5, AddConditionKeeps
        <4>2. obj # None /\ obj' # None
          BY <3>5, ObjectNotNone DEF Patched
        <4>3. Checks
          BY <1>5, <2>1, <2>3, <3>5, <4>1, <4>2 DEF Checks, Noted, Patched, Goto
        <4> QED
          BY <4>3 DEF Effect
      <3> QED
        BY <3>2, <3>3, <3>4, <3>5
    <2> QED
      BY <1>4, <1>5, <2>1, <2>2, <2>3
  <1>6. CASE Complete /\ UNCHANGED <<pool, nodes>>
    <2>1. Reconciled("Create") \in AllConditions \ Marks
      BY DEF AllConditions, CommonConditions, Marks, MachinePoolDeleted, Reconciling, Reconciled,
             Condition
    <2> QED
      BY <1>4, <1>6, <2>1 DEF Complete
  <1>7. CASE RemoveFinalizer /\ UNCHANGED <<pool, nodes>>
    <2>1. CASE original.finalizer /\ obj # None
      <3>1. Releases
        BY <1>7, <2>1 DEF RemoveFinalizer, Releases, Return
      <3> QED
        BY <3>1 DEF Effect
    <2>2. CASE ~(original.finalizer /\ obj # None)
      <3>1. Stops
        BY <1>7, <2>2 DEF RemoveFinalizer, Stops, Return
      <3> QED
        BY <3>1 DEF Effect
    <2> QED
      BY <2>1, <2>2
  <1>8. CASE NewRequest
    <2>1. CASE cache # None /\ Accept
      <3>1. Starts
        BY <1>8, <2>1 DEF NewRequest, Dequeue, Accept, Starts, kubernetes
      <3> QED
        BY <3>1 DEF Effect
    <2>2. CASE \E retry \in BOOLEAN : Reject(retry)
      <3>1. Turns
        BY <1>8, <2>2 DEF NewRequest, Dequeue, Reject, Turns, PoolStays, LiveOwn, OwnPool, kubernetes
      <3> QED
        BY <3>1 DEF Effect
    <2> QED
      BY <1>8, <2>1, <2>2 DEF NewRequest
  <1>9. CASE SaveUpstreamCluster
    <2> DEFINE to == SetClusterStatus(original.status, found)
    <2>1. /\ pc = "SaveClusterStatus" /\ cache' = cache /\ UNCHANGED <<pool, nodes>>
          /\ \/ Return(TRUE) /\ obj' = obj
             \/ PatchStatus(to, "UpdateUpstream")
      BY <1>9 DEF SaveUpstreamCluster, SaveClusterStatus
    <2>2. original \in Objects /\ original.status \in Status /\ found \in Clusters \cup {None}
      BY <2>1 DEF RequestTyped, Objects
    <2>3. /\ to \in Status /\ to.conditions = original.status.conditions
          /\ to.clusterID = IF found # None /\ original.status.clusterID = NoID
                            THEN found.id ELSE original.status.clusterID
          /\ to.hosted = (found # None /\ found.id \in Hosted)
      BY <2>2, SetClusterStatusFacts
    <2> HIDE DEF to
    <2>4. CASE Return(TRUE) /\ obj' = obj
      BY <2>1, <2>4, StopsOnReturn DEF Effect
    <2>5. CASE PatchStatus(to, "UpdateUpstream")
      <3>1. \/ Gone
            \/ /\ Patched("UpdateUpstream")
               /\ obj'.status.clusterID
                    = Merged(obj.status.clusterID, original.status.clusterID, to.clusterID)
               /\ obj'.status.hosted = Merged(obj.status.hosted, original.status.hosted, to.hosted)
               /\ obj'.status.conditions
                    = Merged(obj.status.conditions, original.status.conditions, to.conditions)
        BY <2>2, <2>3, <2>5, PatchStatusFacts
      <3>2. CASE Gone
        BY <2>1, <3>2, StopsOnGone DEF Effect
      <3>3. CASE /\ Patched("UpdateUpstream")
                 /\ obj'.status.clusterID
                      = Merged(obj.status.clusterID, original.status.clusterID, to.clusterID)
                 /\ obj'.status.hosted = Merged(obj.status.hosted, original.status.hosted, to.hosted)
                 /\ obj'.status.conditions
                      = Merged(obj.status.conditions, original.status.conditions, to.conditions)
        <4>1. obj # None /\ obj' # None
          BY <3>3, ObjectNotNone DEF Patched
        <4>2. Saves
          BY <2>1, <2>3, <3>3, <4>1 DEF Saves, Patched, Goto, Merged
        <4> QED
          BY <4>2 DEF Effect
      <3> QED
        BY <3>1, <3>2, <3>3
    <2> QED
      BY <2>1, <2>4, <2>5
  <1>10. CASE GetCurrentState
    <2>1. Stops \/ Reads
      BY <1>10 DEF GetCurrentState, Stops, Reads, Return, Goto, kubernetes
    <2> QED
      BY <2>1 DEF Effect
  <1>11. CASE Apply
    <2>1. UNCHANGED <<obj, cache, nodes>> /\ pc = "Apply"
      BY <1>11 DEF Apply, Create, Update, AlreadyApplied, kubernetes
    <2>2. CASE Return(TRUE) /\ pool' = pool
      BY <2>1, <2>2, StopsOnReturn DEF Effect
    <2>3. CASE pc' = "WaitUntilReady" /\ original' = original /\ pool' = pool
      <3>1. Applies
        BY <2>1, <2>3 DEF Applies, PoolStays, LiveOwn, OwnPool
      <3> QED
        BY <3>1 DEF Effect
    <2>4. CASE /\ Create /\ pc' = "WaitUntilReady" /\ original' = original
               /\ cluster.id = original.status.clusterID
               /\ original.status.hosted = (cluster.id \in Hosted)
               /\ pool' = [cluster |-> cluster.id, managed |-> TRUE, state |-> "live",
                           size |-> PoolBuilder]
      <3>1. pool'.cluster = original.status.clusterID
        BY <2>4
      <3>2. Applies
        BY <2>1, <2>4, <3>1 DEF Applies
      <3> QED
        BY <3>2 DEF Effect
    <2>5. CASE /\ pc' = "WaitUntilReady" /\ original' = original /\ Reachable
               /\ pool' = [pool EXCEPT !.size = PoolBuilder]
      <3>1. pool \in Pools
        BY <2>5 DEF Reachable, WorldTyped
      <3>2. /\ pool # None /\ pool'.cluster = pool.cluster /\ pool'.managed = pool.managed
            /\ pool'.state = pool.state
        BY <2>5, <3>1 DEF Pools, Reachable
      <3>3. Applies
        BY <2>1, <2>5, <3>2 DEF Applies, PoolStays, LiveOwn, OwnPool
      <3> QED
        BY <3>3 DEF Effect
    <2>6. CASE Create
      BY <2>2, <2>4, <2>6 DEF Create, Goto, request
    <2>7. CASE Update
      BY <2>2, <2>5, <2>7 DEF Update, Goto, request
    <2>8. CASE AlreadyApplied
      BY <2>3, <2>8 DEF AlreadyApplied, Goto, request
    <2> QED
      BY <1>11, <2>6, <2>7, <2>8 DEF Apply
  <1>12. CASE WaitUntilReady
    <2>1. Stops \/ Settles
      BY <1>12 DEF WaitUntilReady, Stops, Settles, Return, Goto, kubernetes, request
    <2> QED
      BY <2>1 DEF Effect
  <1>13. CASE Destroy
    <2>1. pc = "Destroy" /\ original # None /\ UNCHANGED <<obj, cache, original, pool, nodes>>
      BY <1>13, ObjectNotNone DEF Destroy, kubernetes, request, RequestTyped
    <2>2. \/ pc' = "DeletePool"
          \/ pc' = "WaitUntilMissing" /\ (Says(original) \/ cluster = None)
      BY <1>13, <2>1 DEF Destroy, Goto, Says, IsSet
    <2>3. Destroys
      BY <2>1, <2>2 DEF Destroys, WorldTyped
    <2> QED
      BY <2>3 DEF Effect
  <1>14. CASE DeletePool
    <2>1. /\ pc = "DeletePool" /\ pc' = "NotifyDeleted" /\ UNCHANGED <<obj, cache, original, nodes>>
          /\ pool' = IF Reachable THEN [pool EXCEPT !.state = "deleting"] ELSE pool
      BY <1>14 DEF DeletePool, Goto, kubernetes, request
    <2>2. Reachable => ~LiveOwn'
      <3>1. SUFFICES ASSUME Reachable PROVE pool'.state # "live"
        BY DEF LiveOwn
      <3>2. pool \in Pools
        BY <3>1 DEF Reachable, WorldTyped
      <3> QED
        BY <2>1, <3>1, <3>2 DEF Pools
    <2>3. Deletes
      BY <2>1, <2>2 DEF Deletes
    <2> QED
      BY <2>3 DEF Effect
  <1>15. CASE DeletePoolRefused
    BY <1>15, StopsOnReturn DEF DeletePoolRefused, kubernetes, Effect
  <1>16. CASE NotifyDeleted
    <2>1. /\ pc = "NotifyDeleted" /\ cache' = cache /\ UNCHANGED <<pool, nodes>>
          /\ UpdateCondition(MachinePoolDeleted, "WaitUntilMissing")
      BY <1>16 DEF NotifyDeleted
    <2>2. original \in Objects /\ MachinePoolDeleted \in AllConditions
      BY <2>1 DEF RequestTyped, AllConditions
    <2>3. \/ Goto("WaitUntilMissing") /\ UNCHANGED <<obj, request>>
          \/ Gone
          \/ Patched("WaitUntilMissing") /\ Same(obj, obj')
      BY <2>1, <2>2, UpdateConditionFacts
    <2>4. CASE Gone
      BY <2>1, <2>4, StopsOnGone DEF Effect
    <2>5. CASE Goto("WaitUntilMissing") /\ UNCHANGED <<obj, request>>
      <3>1. Notifies
        BY <2>1, <2>5 DEF Notifies, Goto, request
      <3> QED
        BY <3>1 DEF Effect
    <2>6. CASE Patched("WaitUntilMissing") /\ Same(obj, obj')
      <3>1. Notifies
        BY <2>1, <2>6, ObjectNotNone DEF Notifies, Patched, Goto
      <3> QED
        BY <3>1 DEF Effect
    <2> QED
      BY <2>3, <2>4, <2>5, <2>6
  <1>17. CASE WaitUntilMissing
    <2>1. Stops \/ Passes
      BY <1>17 DEF WaitUntilMissing, Stops, Passes, Return, Goto, kubernetes, request
    <2> QED
      BY <2>1 DEF Effect
  <1> QED
    BY <1>1, <1>2, <1>3, <1>5, <1>6, <1>7, <1>8, <1>9, <1>10, <1>11, <1>12, <1>13, <1>14, <1>15,
       <1>16, <1>17
    DEF ReconcileStep, ChildStep

LEMMA EffectOfWorld ==
  ASSUME Typed, Outage \/ World \/ UNCHANGED vars
  PROVE  Effect
  <1> USE DEF Typed
  <1>1. CASE GetUpstreamClusterFails /\ UNCHANGED <<pool, nodes>>
    <2>1. LooksUp
      BY <1>1 DEF GetUpstreamClusterFails, LooksUp, Goto, kubernetes
    <2> QED
      BY <2>1 DEF Effect
  <1>2. CASE CallFails /\ UNCHANGED <<pool, nodes>>
    BY <1>2, StopsOnReturn DEF CallFails, kubernetes, Effect
  <1>3. CASE Crash /\ UNCHANGED <<pool, nodes>>
    <2>1. Stops
      BY <1>3 DEF Crash, Stops
    <2> QED
      BY <2>1 DEF Effect
  <1>4. CASE SyncCache /\ UNCHANGED <<pool, nodes>>
    <2>1. Syncs
      BY <1>4 DEF SyncCache, Syncs, request
    <2> QED
      BY <2>1 DEF Effect
  <1>5. CASE UserEdits /\ UNCHANGED <<pool, nodes>>
    <2>1. obj \in Objects /\ obj # None /\ obj.generation < MaxGeneration
      BY <1>5 DEF UserEdits, StoreTyped
    <2>2. PICK spec \in Specs : obj' = [obj EXCEPT !.generation = obj.generation + 1, !.spec = spec]
      BY <1>5 DEF UserEdits
    <2>3. obj' \in Objects /\ StatusKept(obj, obj')
      BY <2>1, <2>2, WithSpec DEF StatusKept, Alike
    <2>4. Edits
      BY <1>5, <2>1, <2>3, ObjectNotNone DEF UserEdits, Edits, request
    <2> QED
      BY <2>4 DEF Effect
  <1>6. CASE UserDeletes /\ UNCHANGED <<pool, nodes>>
    <2>1. obj \in Objects /\ obj # None
      BY <1>6 DEF UserDeletes, StoreTyped
    <2>2. obj.finalizer => /\ obj' \in Objects /\ obj'.deleting /\ obj'.finalizer
                           /\ obj'.status = obj.status /\ obj'.wait = obj.wait
      BY <1>6, <2>1, WithDeleting DEF UserDeletes
    <2>3. Removes
      BY <1>6, <2>1, <2>2, ObjectNotNone DEF UserDeletes, Removes, request
    <2> QED
      BY <2>3 DEF Effect
  <1>7. CASE UserRecreates(NewObjects) /\ UNCHANGED <<pool, nodes>>
    <2>1. Recreates
      BY <1>7, NewObjectsTyped DEF UserRecreates, Recreates, request
    <2> QED
      BY <2>1 DEF Effect
  <1>8. CASE /\ TimerFires \/ ClusterAppears \/ ClusterInstalled \/ ClusterUninstalls
             /\ UNCHANGED <<pool, nodes>>
    <2>1. Turns
      BY <1>8 DEF TimerFires, ClusterAppears, ClusterInstalled, ClusterUninstalls, Turns,
                  PoolStays, LiveOwn, OwnPool, kubernetes, request
    <2> QED
      BY <2>1 DEF Effect
  <1>9. CASE \/ PoolRemoved \/ NodesJoin \/ NodesLeave \/ ParentGone \/ UNCHANGED vars
    <2>1. Turns
      BY <1>9 DEF PoolRemoved, NodesJoin, NodesLeave, ParentGone, ClusterGone, Turns, PoolStays,
                  LiveOwn, OwnPool, vars, childVars, kubernetes, request
    <2> QED
      BY <2>1 DEF Effect
  <1>10. CASE OthersCreatePool
    <2>1. ~pool'.managed /\ UNCHANGED <<obj, cache, original, pc, found, nodes>>
      BY <1>10 DEF OthersCreatePool, childVars, kubernetes, request
    <2>2. Turns
      BY <2>1 DEF Turns, PoolStays, LiveOwn, OwnPool
    <2> QED
      BY <2>2 DEF Effect
  <1> QED
    BY <1>1, <1>2, <1>3, <1>4, <1>5, <1>6, <1>7, <1>8, <1>9, <1>10
    DEF Outage, ChildOutage, World, ChildWorld

LEMMA StepEffect ==
  ASSUME Typed, [Next]_vars
  PROVE  Effect
  BY EffectOfReconcile, EffectOfWorld DEF Next

-----------------------------------------------------------------------------
(* The inductive invariant *)

Updating == pc \in UpdatePath \/ (pc = "Reconciling" /\ ~original.deleting)

Deleting == pc \in DeletePath \/ (pc = "Reconciling" /\ original.deleting)

\* A resource is marked as deleted only once it is, and a reconcile works
\* towards a deletion only when the object is being deleted as well.  A cache
\* that lags behind has at least seen the deletion before the marks were set.
DeletionInv ==
    /\ Marked(obj) => obj.deleting
    /\ Updating => ~Marked(obj) /\ ~Marked(original)
    /\ Deleting => original.deleting
    /\ Deleting /\ obj # None => obj.deleting
    /\ Deleting /\ "lag" \notin Environment => obj # None
    /\ "lag" \in Environment =>
        /\ Marked(cache) => cache.deleting
        /\ cache # None /\ obj # None /\ cache.deleting => obj.deleting
        /\ Marked(obj) => cache # None /\ cache.deleting
        /\ Updating => ~Marked(cache)
        /\ Deleting /\ obj # None => cache # None /\ cache.deleting

\* Whoever relies on the finalizer has it.
FinalizerInv ==
    /\ Updating /\ original.finalizer => FinalizerHeld
    /\ pc \in UpdatePath \ {"AddFinalizer"} => FinalizerHeld
    /\ "lag" \in Environment =>
        (cache # None /\ cache.finalizer /\ ~cache.deleting => FinalizerHeld)

\* The copies of the object have the ids of the object where they are used: in
\* a deletion from its first condition on, and in an update from the lookup of
\* the cluster to the creation of the pool.
IdentityInv ==
    /\ Deleting /\ obj # None => original.wait = obj.wait
    /\ pc = "Reconciling" /\ Marked(original) /\ obj # None => Same(original, obj)
    /\ pc \in DeletePath /\ obj # None => Same(original, obj)
    /\ pc = "UpdateUpstream" /\ found # None => Same(original, obj)
    /\ pc \in {"GetCurrentState", "Apply"} => Same(original, obj)
    /\ "lag" \in Environment =>
        /\ cache # None /\ obj # None => cache.wait = obj.wait
        /\ Marked(cache) /\ obj # None => Same(cache, obj)

\* The pool is recorded, and is not live any more once the reconciler says so.
PoolInv ==
    /\ PoolRecorded
    /\ Says(obj) \/ Says(original) => ~LiveOwn
    /\ "lag" \in Environment => (Says(cache) => ~LiveOwn)
    /\ pc \in {"NotifyDeleted", "WaitUntilMissing", "RemoveFinalizer"} => ~LiveOwn
    /\ pc = "RemoveFinalizer" /\ original.wait => nodes = "none"
    /\ pc = "SaveClusterStatus" => found # None \/ Hosted = {}
    /\ pc = "SaveClusterStatus" /\ LiveOwn /\ found # None => found.id = pool.cluster

CustodyInv == DeletionInv /\ FinalizerInv /\ IdentityInv /\ PoolInv

\* The environments in which the record of the pool can be relied upon: the cache
\* does not lag behind a resource that is created anew, and a lookup that OCM
\* fails to answer does not read as a cluster without a hosted control plane.
Dependable ==
    /\ ~({"lag", "recreate"} \subseteq Environment)
    /\ "flaky" \notin Environment \/ Hosted = {}

\* What the proofs below need of Typed: a reconcile in progress has an object.
LEMMA OriginalNotNone ==
  ASSUME Typed
  PROVE  pc # "Idle" => original # None
  BY ObjectNotNone DEF Typed, RequestTyped

LEMMA DeletionKept ==
  ASSUME Typed, DeletionInv, Effect, Dependable
  PROVE  DeletionInv'
  <1> USE DEF DeletionInv, Updating, Deleting, UpdatePath, DeletePath, Marked, Alike, Same
  <1>0. pc # "Idle" => original # None
    BY OriginalNotNone
  <1>1. CASE Stops
    BY <1>1 DEF Stops
  <1>2. CASE Reports
    BY <1>0, <1>2 DEF Reports, Noted
  <1>3. CASE Starts
    BY <1>3 DEF Starts
  <1>4. CASE Triggers
    BY <1>0, <1>4 DEF Triggers
  <1>5. CASE Finalizes
    BY <1>0, <1>5 DEF Finalizes
  <1>6. CASE LooksUp
    BY <1>6 DEF LooksUp
  <1>7. CASE Saves
    BY <1>0, <1>7 DEF Saves
  <1>8. CASE Checks
    BY <1>0, <1>8 DEF Checks, Noted
  <1>9. CASE Reads \/ Applies \/ Settles \/ Destroys \/ Deletes \/ Passes
    BY <1>9 DEF Reads, Applies, Settles, Destroys, Deletes, Passes
  <1>10. CASE Notifies
    BY <1>0, <1>10 DEF Notifies
  <1>11. CASE Releases
    BY <1>0, <1>11 DEF Releases
  <1>12. CASE Syncs
    BY <1>12 DEF Syncs
  <1>13. CASE Edits
    BY <1>13 DEF Edits, StatusKept
  <1>14. CASE Removes
    BY <1>14 DEF Removes
  <1>15. CASE Recreates
    BY <1>15 DEF Recreates, Dependable
  <1>16. CASE Turns
    BY <1>16 DEF Turns
  <1> QED
    BY <1>1, <1>2, <1>3, <1>4, <1>5, <1>6, <1>7, <1>8, <1>9, <1>10, <1>11, <1>12, <1>13, <1>14,
       <1>15, <1>16 DEF Effect

LEMMA FinalizerKept ==
  ASSUME Typed, DeletionInv, FinalizerInv, Effect
  PROVE  FinalizerInv'
  <1> USE DEF FinalizerInv, FinalizerHeld, Updating, UpdatePath, DeletePath, Alike
  <1>0. pc # "Idle" => original # None
    BY OriginalNotNone
  <1>1. CASE Stops
    BY <1>1 DEF Stops
  <1>2. CASE Reports
    BY <1>2 DEF Reports, Noted
  <1>3. CASE Starts
    BY <1>3 DEF Starts
  <1>4. CASE Triggers
    BY <1>4 DEF Triggers
  <1>5. CASE Finalizes
    BY <1>5 DEF Finalizes
  <1>6. CASE LooksUp
    BY <1>6 DEF LooksUp
  <1>7. CASE Saves
    BY <1>7 DEF Saves
  <1>8. CASE Checks
    BY <1>8 DEF Checks, Noted
  <1>9. CASE Reads \/ Applies \/ Settles \/ Destroys \/ Deletes \/ Passes
    BY <1>9 DEF Reads, Applies, Settles, Destroys, Deletes, Passes
  <1>10. CASE Notifies
    BY <1>10 DEF Notifies
  <1>11. CASE Releases
    BY <1>11 DEF Releases, DeletionInv, Deleting
  <1>12. CASE Syncs
    BY <1>12 DEF Syncs
  <1>13. CASE Edits
    BY <1>13 DEF Edits, StatusKept
  <1>14. CASE Removes
    BY <1>14 DEF Removes
  <1>15. CASE Recreates
    BY <1>15 DEF Recreates
  <1>16. CASE Turns
    BY <1>16 DEF Turns
  <1> QED
    BY <1>1, <1>2, <1>3, <1>4, <1>5, <1>6, <1>7, <1>8, <1>9, <1>10, <1>11, <1>12, <1>13, <1>14,
       <1>15, <1>16 DEF Effect

LEMMA IdentityKept ==
  ASSUME Typed, DeletionInv, FinalizerInv, IdentityInv, Effect, Dependable
  PROVE  IdentityInv'
  <1> USE DEF IdentityInv, DeletionInv, Updating, Deleting, UpdatePath, DeletePath, Marked, Alike, Same
  <1>0. pc # "Idle" => original # None
    BY OriginalNotNone
  <1>1. CASE Stops
    BY <1>1 DEF Stops
  <1>2. CASE Reports
    BY <1>2 DEF Reports, Noted
  <1>3. CASE Starts
    BY <1>3 DEF Starts
  <1>4. CASE Triggers
    BY <1>4 DEF Triggers
  <1>5. CASE Finalizes
    BY <1>5 DEF Finalizes
  <1>6. CASE LooksUp
    BY <1>6 DEF LooksUp
  <1>7. CASE Saves
    BY <1>7 DEF Saves
  <1>8. CASE Checks
    BY <1>8 DEF Checks, Noted
  <1>9. CASE Reads \/ Applies \/ Settles \/ Destroys \/ Deletes \/ Passes
    BY <1>9 DEF Reads, Applies, Settles, Destroys, Deletes, Passes
  <1>10. CASE Notifies
    BY <1>10 DEF Notifies
  <1>11. CASE Releases
    BY <1>11 DEF Releases
  <1>12. CASE Syncs
    BY <1>12 DEF Syncs
  <1>13. CASE Edits
    BY <1>13 DEF Edits, StatusKept
  <1>14. CASE Removes
    BY <1>14 DEF Removes, FinalizerInv, FinalizerHeld
  <1>15. CASE Recreates
    BY <1>15 DEF Recreates, Dependable, FinalizerInv, FinalizerHeld
  <1>16. CASE Turns
    BY <1>16 DEF Turns
  <1> QED
    BY <1>1, <1>2, <1>3, <1>4, <1>5, <1>6, <1>7, <1>8, <1>9, <1>10, <1>11, <1>12, <1>13, <1>14,
       <1>15, <1>16 DEF Effect

\* A live pool of the operator, with the object that records it.
LEMMA Recorded ==
  ASSUME PoolInv, LiveOwn
  PROVE  /\ obj # None /\ obj.finalizer
         /\ obj.status.clusterID = pool.cluster
         /\ obj.status.hosted = (pool.cluster \in Hosted)
  BY DEF PoolInv, PoolRecorded, LiveOwn, FinalizerHeld

\* The object keeps the record when its ids and the finalizer stay.
LEMMA RecordKept ==
  ASSUME PoolInv, PoolStays,
         obj # None => \/ obj' # None /\ Same(obj, obj') /\ obj'.finalizer = obj.finalizer
                       \/ ~LiveOwn
  PROVE  PoolRecorded'
  <1>1. SUFFICES ASSUME LiveOwn' PROVE PoolRecorded'
    BY DEF LiveOwn, PoolRecorded, OwnPool
  <1>2. LiveOwn /\ pool'.cluster = pool.cluster
    BY <1>1 DEF PoolStays
  <1> QED
    BY <1>2, Recorded DEF PoolRecorded, FinalizerHeld, Same

LEMMA PoolKept ==
  ASSUME Typed, CustodyInv, Effect, Dependable
  PROVE  PoolInv'
  <1> USE DEF Says, Updating, Deleting, UpdatePath, DeletePath, Alike, Same
  <1>0. pc # "Idle" => original # None
    BY OriginalNotNone
  <1>a. PoolInv /\ DeletionInv /\ FinalizerInv /\ IdentityInv
    BY DEF CustodyInv
  <1>b. pool' = pool => PoolStays /\ (LiveOwn' <=> LiveOwn)
    BY DEF PoolStays, LiveOwn, OwnPool
  <1>1. CASE Stops
    <2>1. PoolRecorded'
      BY <1>1, <1>a, <1>b, RecordKept DEF Stops
    <2> QED
      BY <1>1, <1>a, <1>b, <2>1 DEF Stops, PoolInv
  <1>2. CASE Reports
    <2>1. PoolRecorded'
      BY <1>2, <1>a, <1>b, RecordKept DEF Reports, Noted
    <2> QED
      BY <1>0, <1>2, <1>a, <1>b, <2>1 DEF Reports, Noted, Marks, PoolInv
  <1>3. CASE Starts
    <2>1. PoolRecorded'
      BY <1>3, <1>a, <1>b, RecordKept DEF Starts
    <2> QED
      BY <1>3, <1>a, <1>b, <2>1 DEF Starts, PoolInv
  <1>4. CASE Triggers
    <2>1. PoolRecorded'
      BY <1>4, <1>a, <1>b, RecordKept DEF Triggers
    <2> QED
      BY <1>4, <1>a, <1>b, <2>1 DEF Triggers, PoolInv
  <1>5. CASE Finalizes
    <2>1. PoolRecorded'
      <3>1. LiveOwn => obj # None /\ obj.finalizer
        BY <1>a, Recorded
      <3> QED
        BY <1>5, <1>a, <1>b, <3>1, RecordKept DEF Finalizes
    <2> QED
      BY <1>5, <1>a, <1>b, <2>1 DEF Finalizes, PoolInv
  <1>6. CASE LooksUp
    <2>1. PoolRecorded'
      BY <1>6, <1>a, <1>b, RecordKept DEF LooksUp
    <2>2. pc' = "SaveClusterStatus" => found' # None \/ Hosted = {}
      BY <1>6 DEF LooksUp, Dependable
    <2>3. pc' = "SaveClusterStatus" /\ LiveOwn' /\ found' # None => found'.id = pool'.cluster
      BY <1>6 DEF LooksUp, LiveOwn, OwnPool, Typed, WorldTyped
    <2> QED
      BY <1>6, <1>a, <1>b, <2>1, <2>2, <2>3 DEF LooksUp, PoolInv
  <1>7. CASE Saves
    <2>1. LiveOwn => /\ obj # None /\ obj.finalizer
                     /\ obj.status.clusterID = pool.cluster
                     /\ obj.status.hosted = (pool.cluster \in Hosted)
      BY <1>a, Recorded
    <2>2. LiveOwn => /\ obj'.status.clusterID = pool.cluster
                     /\ obj'.status.hosted = (pool.cluster \in Hosted)
      BY <1>7, <1>a, <2>1 DEF Saves, PoolInv
    <2>3. PoolRecorded'
      BY <1>7, <1>b, <2>1, <2>2 DEF Saves, PoolRecorded, FinalizerHeld, LiveOwn, OwnPool
    <2> QED
      BY <1>7, <1>a, <1>b, <2>3 DEF Saves, PoolInv
  <1>8. CASE Checks
    <2>1. PoolRecorded'
      BY <1>8, <1>a, <1>b, RecordKept DEF Checks, Noted
    <2> QED
      BY <1>0, <1>8, <1>a, <1>b, <2>1 DEF Checks, Noted, Marks, PoolInv
  <1>9. CASE Reads \/ Settles
    <2>1. PoolRecorded'
      BY <1>9, <1>a, <1>b, RecordKept DEF Reads, Settles
    <2> QED
      BY <1>9, <1>a, <1>b, <2>1 DEF Reads, Settles, PoolInv
  <1>10. CASE Applies
    <2>1. FinalizerHeld /\ Same(original, obj) /\ obj' = obj
      BY <1>10, <1>a DEF Applies, FinalizerInv, IdentityInv
    <2>2. PoolRecorded'
      <3>1. CASE PoolStays
        BY <1>a, <2>1, <3>1, RecordKept
      <3>2. CASE /\ pool'.cluster = original.status.clusterID
                 /\ original.status.hosted = (pool'.cluster \in Hosted)
        BY <2>1, <3>2 DEF PoolRecorded, FinalizerHeld
      <3> QED
        BY <1>10, <3>1, <3>2 DEF Applies
    <2>3. /\ ~Says(obj) /\ ~Says(original)
          /\ "lag" \in Environment => ~Says(cache)
      BY <1>10, <1>a DEF Applies, DeletionInv, Marked, Marks
    <2> QED
      BY <1>10, <2>2, <2>3 DEF Applies, PoolInv
  <1>11. CASE Destroys
    <2>1. PoolRecorded'
      BY <1>11, <1>a, <1>b, RecordKept DEF Destroys
    <2> QED
      BY <1>11, <1>a, <1>b, <2>1 DEF Destroys, PoolInv, LiveOwn, OwnPool
  <1>12. CASE Deletes
    <2>1. ~LiveOwn'
      <3>1. CASE Reachable
        BY <1>12, <3>1 DEF Deletes
      <3>2. CASE ~Reachable
        <4>1. pool' = pool /\ obj' = obj /\ pc = "DeletePool"
          BY <1>12, <3>2 DEF Deletes
        <4>2. SUFFICES ASSUME LiveOwn PROVE FALSE
          BY <1>b, <4>1
        <4>3. /\ obj # None /\ obj.status.clusterID = pool.cluster
              /\ obj.status.hosted = (pool.cluster \in Hosted)
          BY <1>a, <4>2, Recorded
        <4>4. Same(original, obj)
          BY <1>a, <4>1, <4>3 DEF IdentityInv
        <4> QED
          BY <3>2, <4>2, <4>3, <4>4 DEF Reachable, LiveOwn, OwnPool
      <3> QED
        BY <3>1, <3>2
    <2> QED
      BY <1>12, <2>1 DEF Deletes, PoolInv, PoolRecorded, LiveOwn, OwnPool
  <1>13. CASE Notifies
    <2>1. ~LiveOwn'
      BY <1>13, <1>a, <1>b DEF Notifies, PoolInv
    <2> QED
      BY <1>13, <2>1 DEF Notifies, PoolInv, PoolRecorded, LiveOwn, OwnPool
  <1>14. CASE Passes
    <2>1. PoolRecorded'
      BY <1>14, <1>a, <1>b, RecordKept DEF Passes
    <2> QED
      BY <1>14, <1>a, <1>b, <2>1 DEF Passes, PoolInv
  <1>15. CASE Releases
    <2>1. ~LiveOwn'
      BY <1>15, <1>a, <1>b DEF Releases, PoolInv
    <2> QED
      BY <1>15, <2>1 DEF Releases, PoolInv, PoolRecorded, LiveOwn, OwnPool
  <1>16. CASE Syncs
    <2>1. PoolRecorded'
      BY <1>16, <1>a, <1>b, RecordKept DEF Syncs
    <2> QED
      BY <1>16, <1>a, <1>b, <2>1 DEF Syncs, PoolInv
  <1>17. CASE Edits
    <2>1. PoolRecorded'
      BY <1>17, <1>a, <1>b, RecordKept DEF Edits, StatusKept
    <2> QED
      BY <1>17, <1>a, <1>b, <2>1 DEF Edits, StatusKept, PoolInv
  <1>18. CASE Removes
    <2>1. PoolRecorded'
      <3>1. LiveOwn => obj.finalizer
        BY <1>a, Recorded
      <3> QED
        BY <1>18, <1>a, <1>b, <3>1, RecordKept DEF Removes
    <2> QED
      BY <1>18, <1>a, <1>b, <2>1 DEF Removes, PoolInv
  <1>19. CASE Recreates
    <2>1. PoolRecorded'
      BY <1>19, <1>a, <1>b, RecordKept DEF Recreates
    <2> QED
      BY <1>19, <1>a, <1>b, <2>1 DEF Recreates, PoolInv
  <1>20. CASE Turns
    <2>1. PoolRecorded'
      BY <1>20, <1>a, RecordKept DEF Turns
    <2> QED
      BY <1>20, <1>a, <2>1 DEF Turns, PoolStays, PoolInv
  <1> QED
    BY <1>1, <1>2, <1>3, <1>4, <1>5, <1>6, <1>7, <1>8, <1>9, <1>10, <1>11, <1>12, <1>13, <1>14,
       <1>15, <1>16, <1>17, <1>18, <1>19, <1>20 DEF Effect

LEMMA InitCustody ==
  ASSUME Init
  PROVE  CustodyInv
  <1>1. /\ obj # None /\ obj.status.conditions = {} /\ cache = None /\ original = None
        /\ pc = "Idle" /\ pool = None
    BY NewObjectsTyped DEF Init, ChildInit
  <1> QED
    BY <1>1 DEF CustodyInv, DeletionInv, FinalizerInv, IdentityInv, PoolInv, PoolRecorded, LiveOwn,
                OwnPool, Marked, Says, Updating, Deleting, UpdatePath, DeletePath

LEMMA CustodyInvKept ==
  ASSUME Typed, CustodyInv, [Next]_vars, Dependable
  PROVE  CustodyInv'
  BY StepEffect, DeletionKept, FinalizerKept, IdentityKept, PoolKept DEF CustodyInv

LEMMA AlwaysCustody ==
  ASSUME Dependable
  PROVE  Spec => []CustodyInv
  <1>1. Init => CustodyInv
    BY InitCustody
  <1>2. Typed /\ CustodyInv /\ [Next]_vars => CustodyInv'
    BY CustodyInvKept
  <1> QED
    BY <1>1, <1>2, AlwaysTyped, PTL DEF Spec

\* GetUpstreamCluster stores the id and the kind of the cluster before Apply
\* creates the pool, and nothing that the reconciler, a stale cache, a crash or
\* the user does takes them away while the pool is live.
THEOREM PoolAlwaysRecorded ==
  ASSUME Dependable
  PROVE  Spec => []PoolRecorded
  <1>1. CustodyInv => PoolRecorded
    BY DEF CustodyInv, PoolInv
  <1> QED
    BY <1>1, AlwaysCustody, PTL

\* The finalizer is given up at the end of a deletion and nowhere else.
LEMMA FinalizerReleased ==
  ASSUME CustodyInv, Effect, FinalizerHeld, ~FinalizerHeld'
  PROVE  Releases /\ ~LiveOwn /\ (obj.wait => nodes = "none")
  <1>1. Releases
    BY DEF FinalizerHeld, Effect, Stops, Reports, Noted, Starts, Triggers, Finalizes, LooksUp, Saves,
           Checks, Reads, Applies, Settles, Destroys, Deletes, Notifies, Passes, Syncs, Edits,
           StatusKept, Removes, Recreates, Turns, Alike
  <1>2. pc = "RemoveFinalizer" /\ obj # None
    BY <1>1 DEF Releases
  <1>3. ~LiveOwn /\ (original.wait => nodes = "none") /\ original.wait = obj.wait
    BY <1>2 DEF CustodyInv, PoolInv, IdentityInv, Deleting, DeletePath
  <1> QED
    BY <1>1, <1>3

\* With spec.wait set the finalizer outlives the nodes of the pool: what
\* WaitUntilMissing saw still holds when CompleteDestroy removes the finalizer,
\* since the pool was deleted first and brings no node any more.
THEOREM NodesNeverOutlive ==
  ASSUME Dependable
  PROVE  Spec => NodesOutlived
  <1>1. Typed /\ CustodyInv /\ [Next]_vars
          => [obj # None /\ obj.wait /\ FinalizerHeld /\ ~FinalizerHeld' => nodes = "none"]_vars
    BY StepEffect, FinalizerReleased
  <1> QED
    BY <1>1, AlwaysTyped, AlwaysCustody, PTL DEF Spec, NodesOutlived

LEMMA CustodyStep ==
  ASSUME Typed, CustodyInv, [Next]_vars
  PROVE  [C!Next]_<<FinalizerHeld, ExternalState>>
  <1>0. FinalizerHeld \in BOOLEAN /\ FinalizerHeld' \in BOOLEAN
    BY Zenon DEF FinalizerHeld
  <1>1. CASE UNCHANGED <<pool, cluster>>
    <2>1. ExternalState' = ExternalState
      BY <1>1 DEF ExternalState, OwnPool
    <2>2. CASE FinalizerHeld /\ ~FinalizerHeld'
      <3>1. ~LiveOwn
        BY <2>2, StepEffect, FinalizerReleased
      <3>2. pool # None => pool.state \in {"live", "deleting"}
        BY DEF Typed, WorldTyped, Pools
      <3>3. ExternalState \in {"absent", "going"}
        BY <3>1, <3>2 DEF ExternalState, LiveOwn, OwnPool
      <3> QED
        BY <1>0, <2>1, <2>2, <3>3 DEF C!Next, C!Release
    <2>3. CASE ~FinalizerHeld /\ FinalizerHeld'
      BY <1>0, <2>1, <2>3 DEF C!Next, C!Hold
    <2>4. CASE FinalizerHeld' = FinalizerHeld
      BY <2>1, <2>4
    <2> QED
      BY <1>0, <2>2, <2>3, <2>4
  <1>2. ASSUME obj' = obj,
               \/ ExternalState' = ExternalState
               \/ FinalizerHeld /\ ExternalState = "absent" /\ ExternalState' = "live"
               \/ ExternalState = "live" /\ ExternalState' = "going"
               \/ ExternalState = "going" /\ ExternalState' = "absent"
        PROVE  [C!Next]_<<FinalizerHeld, ExternalState>>
    <2>1. FinalizerHeld' = FinalizerHeld
      BY <1>2 DEF FinalizerHeld
    <2> QED
      BY <1>0, <1>2, <2>1 DEF C!Next, C!Create, C!Destroy, C!Vanish
  <1>3. ASSUME pool # None PROVE pool \in Pools
    BY <1>3 DEF Typed, WorldTyped
  <1>4. CASE Apply
    <2>1. obj' = obj /\ cluster' = cluster /\ pc = "Apply"
      BY <1>4 DEF Apply, Create, Update, AlreadyApplied, kubernetes
    <2>2. CASE pool' = pool
      BY <1>1, <2>1, <2>2
    <2>3. CASE /\ pool = None /\ cluster # None /\ cluster.state = "ready"
               /\ pool' = [cluster |-> cluster.id, managed |-> TRUE, state |-> "live",
                           size |-> PoolBuilder]
      <3>1. FinalizerHeld
        BY <2>1 DEF CustodyInv, FinalizerInv, UpdatePath
      <3>2. pool' # None
        <4>1. cluster.id \in ClusterIDs /\ PoolBuilder \in [min: Nat, max: Nat, replicas: Nat]
          BY <2>1, <2>3, SizesTyped DEF Typed, WorldTyped, Clusters
        <4>2. pool' \in Pools
          BY <2>3, <4>1 DEF Pools
        <4> QED
          BY <4>2, NoneAssumption
      <3>3. ExternalState = "absent" /\ ExternalState' = "live"
        BY <2>1, <2>3, <3>2 DEF ExternalState, OwnPool
      <3> QED
        BY <1>2, <2>1, <3>1, <3>3
    <2>4. CASE pool # None /\ pool' = [pool EXCEPT !.size = PoolBuilder]
      <3>1. pool' # None /\ pool'.managed = pool.managed /\ pool'.state = pool.state
        <4>1. Typed'
          BY StepTyped
        <4>2. PoolBuilder \in [min: Nat, max: Nat, replicas: Nat] /\ pool \in Pools
          BY <1>3, <2>1, <2>4, SizesTyped DEF Typed
        <4>3. pool' \in Pools /\ pool'.managed = pool.managed /\ pool'.state = pool.state
          BY <2>4, <4>2 DEF Pools
        <4> QED
          BY <4>3, NoneAssumption
      <3>2. ExternalState' = ExternalState
        BY <2>1, <2>4, <3>1 DEF ExternalState, OwnPool
      <3> QED
        BY <1>2, <2>1, <3>2
    <2> QED
      BY <1>4, <2>2, <2>3, <2>4 DEF Apply, Create, Update, AlreadyApplied, Reachable
  <1>5. CASE DeletePool
    <2>1. /\ obj' = obj /\ cluster' = cluster
          /\ pool' = IF Reachable THEN [pool EXCEPT !.state = "deleting"] ELSE pool
      BY <1>5 DEF DeletePool, kubernetes
    <2>2. CASE Reachable
      <3>1. pool # None /\ pool.state = "live" /\ pool \in Pools
        BY <1>3, <2>2 DEF Reachable
      <3>2. pool' \in Pools /\ pool'.managed = pool.managed /\ pool'.state = "deleting"
        BY <2>1, <2>2, <3>1 DEF Pools
      <3>3. pool' # None
        BY <3>2, NoneAssumption
      <3>4. \/ ExternalState' = ExternalState
            \/ ExternalState = "live" /\ ExternalState' = "going"
        BY <2>1, <3>1, <3>2, <3>3 DEF ExternalState, OwnPool
      <3> QED
        BY <1>2, <2>1, <3>4
    <2> QED
      BY <1>1, <2>1, <2>2
  <1>6. CASE PoolRemoved
    <2>1. obj' = obj /\ pool' = None /\ pool.state = "deleting"
      BY <1>6 DEF PoolRemoved, childVars, kubernetes
    <2>2. \/ ExternalState' = ExternalState
          \/ ExternalState = "going" /\ ExternalState' = "absent"
      BY <2>1 DEF ExternalState, OwnPool
    <2> QED
      BY <1>2, <2>1, <2>2
  <1>7. CASE OthersCreatePool
    <2>1. obj' = obj /\ pool = None /\ ~pool'.managed
      BY <1>7 DEF OthersCreatePool, childVars, kubernetes
    <2>2. ExternalState' = ExternalState
      BY <2>1 DEF ExternalState, OwnPool
    <2> QED
      BY <1>2, <2>1, <2>2
  <1>8. CASE ParentGone
    <2>1. obj' = obj /\ pool' = None /\ cluster.state = "uninstalling"
      BY <1>8 DEF ParentGone, ClusterGone, kubernetes
    <2>2. \/ ExternalState' = ExternalState
          \/ ExternalState = "going" /\ ExternalState' = "absent"
      BY <2>1 DEF ExternalState, OwnPool
    <2> QED
      BY <1>2, <2>1, <2>2
  <1>9. CASE ClusterAppears /\ UNCHANGED <<pool, nodes>>
    <2>1. obj' = obj /\ cluster = None /\ pool' = pool
      BY <1>9 DEF ClusterAppears, kubernetes
    <2>2. ExternalState' = ExternalState
      BY <2>1 DEF ExternalState, OwnPool, Typed, WorldTyped
    <2> QED
      BY <1>2, <2>1, <2>2
  <1>10. CASE (ClusterInstalled \/ ClusterUninstalls) /\ UNCHANGED <<pool, nodes>>
    <2>1. /\ obj' = obj /\ pool' = pool /\ cluster # None
          /\ \/ cluster.state = "installing" /\ cluster' = [cluster EXCEPT !.state = "ready"]
             \/ cluster' = [cluster EXCEPT !.state = "uninstalling"]
      BY <1>10 DEF ClusterInstalled, ClusterUninstalls, kubernetes
    <2>2. cluster \in Clusters
      BY <2>1 DEF Typed, WorldTyped
    <2>3. \/ cluster.state = "installing" /\ cluster'.state = "ready"
          \/ cluster'.state = "uninstalling"
      BY <2>1, <2>2 DEF Clusters
    <2>4. \/ ExternalState' = ExternalState
          \/ ExternalState = "live" /\ ExternalState' = "going"
      BY <2>1, <2>3 DEF ExternalState, OwnPool
    <2> QED
      BY <1>2, <2>1, <2>4
  <1>11. CASE ReconcileStep /\ ~Apply /\ ~DeletePool
    <2>1. UNCHANGED <<pool, cluster>>
      BY <1>11 DEF ReconcileStep, ChildStep, ReconcileTrigger, AddFinalizer, GetUpstreamCluster,
                   UpdateUpstream, Complete, RemoveFinalizer, NewRequest, Dequeue,
                   SaveUpstreamCluster, SaveClusterStatus, GetCurrentState, WaitUntilReady, Destroy,
                   DeletePoolRefused, NotifyDeleted, WaitUntilMissing
    <2> QED
      BY <1>1, <2>1
  <1>12. CASE \/ Outage \/ UNCHANGED vars \/ NodesJoin \/ NodesLeave
              \/ /\ \/ SyncCache \/ TimerFires \/ UserEdits \/ UserDeletes
                    \/ UserRecreates(NewObjects)
                 /\ UNCHANGED <<pool, nodes>>
    <2>1. UNCHANGED <<pool, cluster>>
      BY <1>12 DEF Outage, ChildOutage, GetUpstreamClusterFails, CallFails, Crash, SyncCache,
                   TimerFires, UserEdits, UserDeletes, UserRecreates, NodesJoin, NodesLeave, vars,
                   childVars
    <2> QED
      BY <1>1, <2>1
  <1> QED
    BY <1>4, <1>5, <1>6, <1>7, <1>8, <1>9, <1>10, <1>11, <1>12 DEF Next, World, ChildWorld

\* The reconciler of machine pools is an implementation of Custody: the pool is
\* created under the finalizer, and the finalizer is removed only when OCM is
\* deleting the pool or its cluster.
THEOREM ReconcilerImplementsCustody ==
  ASSUME Dependable
  PROVE  Spec => ImplementsCustody
  <1>1. Init => C!Init
    <2>1. ASSUME Init PROVE FinalizerHeld = FALSE /\ ExternalState = "absent"
      BY <2>1, NewObjectsTyped DEF Init, ChildInit, FinalizerHeld, ExternalState, OwnPool
    <2> QED
      BY <2>1 DEF C!Init
  <1>2. Typed /\ CustodyInv /\ [Next]_vars => [C!Next]_<<FinalizerHeld, ExternalState>>
    BY CustodyStep
  <1> QED
    BY <1>1, <1>2, AlwaysTyped, AlwaysCustody, PTL DEF Spec, ImplementsCustody, C!Spec

\* The condition MachinePoolDeleted is true to its message, "machine pool has been
\* deleted from openshift cluster manager", in a dependable environment.
THEOREM DeletedIsDeleted ==
  ASSUME Dependable
  PROVE  Spec => []DeletedMeansDeleted
  <1>1. CustodyInv => DeletedMeansDeleted
    BY DEF CustodyInv, PoolInv, Says, LiveOwn, DeletedMeansDeleted
  <1> QED
    BY <1>1, AlwaysCustody, PTL
=============================================================================
