----------------------- MODULE IdentityProviderProofs -----------------------
(***************************************************************************)
(* The identity provider reconcilers, for every value of the constants:    *)
(* they are type correct, they delete no identity provider of another      *)
(* tool, and they implement Custody where nothing comes between the create *)
(* request and the patch that records its answer.                          *)
(***************************************************************************)
EXTENDS IdentityProvider, TLAPS

-----------------------------------------------------------------------------
(* Facts about the data *)

AllConditions == CommonConditions \cup {IdentityProviderDeleted}

LEMMA ObjectNotNone == ASSUME NEW o \in Objects PROVE o # None
  BY NoneAssumption

LEMMA NewObjectsTyped ==
  ASSUME NEW o \in NewObjects
  PROVE  /\ o \in Objects /\ o # None
         /\ ~o.deleting /\ ~o.finalizer
         /\ o.status.conditions = {} /\ o.status.provider = NoID
  <1>1. PICK spec \in Specs :
          o = [generation |-> 1, deleting |-> FALSE, finalizer |-> FALSE, spec |-> spec,
               status |-> [clusterID |-> NoID, provider |-> NoID, conditions |-> {}]]
    BY DEF NewObjects
  <1>2. 1 \in 1..MaxGeneration
    BY ChildAssumption
  <1>3. [clusterID |-> NoID, provider |-> NoID, conditions |-> {}] \in Status
    BY DEF Status
  <1>4. o \in Objects
    BY <1>1, <1>2, <1>3 DEF Objects
  <1> QED
    BY <1>1, <1>4, ObjectNotNone

LEMMA AddConditionTyped ==
  ASSUME NEW cs \in SUBSET AllConditions, NEW c \in AllConditions
  PROVE  AddCondition(cs, c) \in SUBSET AllConditions
  BY DEF AddCondition

LEMMA AddConditionKeeps ==
  ASSUME NEW cs, NEW c, NEW d, d \in AddCondition(cs, c)
  PROVE  d \in cs \/ d = c
  BY DEF AddCondition

LEMMA WithStatus ==
  ASSUME NEW o \in Objects, NEW st \in Status
  PROVE  /\ [o EXCEPT !.status = st] \in Objects
         /\ [o EXCEPT !.status = st].status = st
         /\ [o EXCEPT !.status = st].finalizer = o.finalizer
         /\ [o EXCEPT !.status = st].deleting = o.deleting
  BY DEF Objects

LEMMA WithConditions ==
  ASSUME NEW o \in Objects, NEW cs \in SUBSET AllConditions
  PROVE  /\ [o EXCEPT !.status.conditions = cs] \in Objects
         /\ [o EXCEPT !.status.conditions = cs].status.conditions = cs
         /\ [o EXCEPT !.status.conditions = cs].status.clusterID = o.status.clusterID
         /\ [o EXCEPT !.status.conditions = cs].status.provider = o.status.provider
         /\ [o EXCEPT !.status.conditions = cs].finalizer = o.finalizer
         /\ [o EXCEPT !.status.conditions = cs].deleting = o.deleting
  <1> DEFINE st == [o.status EXCEPT !.conditions = cs]
  <1>1. /\ st \in Status /\ st.conditions = cs
        /\ st.clusterID = o.status.clusterID /\ st.provider = o.status.provider
    BY DEF Objects, Status, AllConditions
  <1>2. [o EXCEPT !.status.conditions = cs] = [o EXCEPT !.status = st]
    BY DEF Objects
  <1> HIDE DEF st
  <1> QED
    BY <1>1, <1>2, WithStatus

\* The patch of a status, field by field.
LEMMA MergeFields ==
  ASSUME NEW s \in Status, NEW f \in Status, NEW t \in Status
  PROVE  MergePatch(s, f, t) =
           [clusterID  |-> Merged(s.clusterID, f.clusterID, t.clusterID),
            provider   |-> Merged(s.provider, f.provider, t.provider),
            conditions |-> Merged(s.conditions, f.conditions, t.conditions)]
  <1>1. DOMAIN s = {"clusterID", "provider", "conditions"}
    BY DEF Status
  <1> QED
    BY <1>1 DEF MergePatch

LEMMA MergeTyped ==
  ASSUME NEW s \in Status, NEW f \in Status, NEW t \in Status
  PROVE  /\ MergePatch(s, f, t) \in Status
         /\ MergePatch(s, f, t).clusterID = Merged(s.clusterID, f.clusterID, t.clusterID)
         /\ MergePatch(s, f, t).provider = Merged(s.provider, f.provider, t.provider)
         /\ MergePatch(s, f, t).conditions = Merged(s.conditions, f.conditions, t.conditions)
  <1> DEFINE id == Merged(s.clusterID, f.clusterID, t.clusterID)
             pr == Merged(s.provider, f.provider, t.provider)
             cs == Merged(s.conditions, f.conditions, t.conditions)
  <1>1. id \in ClusterIDs \cup {NoID} /\ pr \in ProviderIDs \cup {NoID}
    BY DEF Status, Merged
  <1>2. cs \in SUBSET AllConditions
    BY DEF Status, Merged, AllConditions
  <1>3. MergePatch(s, f, t) = [clusterID |-> id, provider |-> pr, conditions |-> cs]
    BY MergeFields
  <1> HIDE DEF id, pr, cs
  <1>4. /\ MergePatch(s, f, t) \in Status
        /\ MergePatch(s, f, t).clusterID = id
        /\ MergePatch(s, f, t).provider = pr
        /\ MergePatch(s, f, t).conditions = cs
    BY <1>1, <1>2, <1>3 DEF Status, AllConditions
  <1> QED
    BY <1>4 DEF id, pr, cs

LEMMA SetClusterStatusFacts ==
  ASSUME NEW s \in Status, NEW u \in Clusters \cup {None}
  PROVE  /\ SetClusterStatus(s, u) \in Status
         /\ SetClusterStatus(s, u).conditions = s.conditions
         /\ SetClusterStatus(s, u).provider = s.provider
         /\ SetClusterStatus(s, u).clusterID
              = IF u # None /\ s.clusterID = NoID THEN u.id ELSE s.clusterID
  <1>1. CASE u # None /\ s.clusterID = NoID
    <2>1. u.id \in ClusterIDs
      BY <1>1 DEF Clusters
    <2>2. SetClusterStatus(s, u) = [s EXCEPT !.clusterID = u.id]
      BY <1>1 DEF SetClusterStatus
    <2> QED
      BY <1>1, <2>1, <2>2 DEF Status
  <1>2. CASE ~(u # None /\ s.clusterID = NoID)
    BY <1>2 DEF SetClusterStatus
  <1> QED
    BY <1>1, <1>2

LEMMA WithProvider ==
  ASSUME NEW s \in Status, NEW id \in ProviderIDs \cup {NoID}
  PROVE  /\ [s EXCEPT !.provider = id] \in Status
         /\ [s EXCEPT !.provider = id].provider = id
         /\ [s EXCEPT !.provider = id].clusterID = s.clusterID
         /\ [s EXCEPT !.provider = id].conditions = s.conditions
  BY DEF Status

LEMMA WithFinalizer ==
  ASSUME NEW o \in Objects, NEW b \in BOOLEAN
  PROVE  /\ [o EXCEPT !.finalizer = b] \in Objects
         /\ [o EXCEPT !.finalizer = b].finalizer = b
         /\ [o EXCEPT !.finalizer = b].status = o.status
         /\ [o EXCEPT !.finalizer = b].deleting = o.deleting
  BY DEF Objects

LEMMA WithDeleting ==
  ASSUME NEW o \in Objects
  PROVE  /\ [o EXCEPT !.deleting = TRUE] \in Objects
         /\ [o EXCEPT !.deleting = TRUE].deleting
         /\ [o EXCEPT !.deleting = TRUE].status = o.status
         /\ [o EXCEPT !.deleting = TRUE].finalizer = o.finalizer
  BY DEF Objects

LEMMA WithSpec ==
  ASSUME NEW o \in Objects, NEW spec \in Specs, o.generation < MaxGeneration
  PROVE  LET p == [o EXCEPT !.generation = o.generation + 1, !.spec = spec]
         IN  /\ p \in Objects
             /\ p.status = o.status
             /\ p.finalizer = o.finalizer
             /\ p.deleting = o.deleting
  <1>1. o.generation + 1 \in 1..MaxGeneration
    BY ChildAssumption DEF Objects
  <1> QED
    BY <1>1 DEF Objects

-----------------------------------------------------------------------------
(* Type correctness *)

UpdatePath ==
    {"AddFinalizer", "GetUpstreamCluster", "SaveClusterStatus", "UpdateUpstream",
     "GetCurrentState", "Apply", "SaveProviderID", "Complete"}

DeletePath == {"Destroy", "DeleteIDP", "NotifyDeleted", "RemoveFinalizer"}

Steps == {"Idle", "Reconciling"} \cup UpdatePath \cup DeletePath

Copies == [spec: Specs, ca: BOOLEAN]

StoreTyped == {obj, cache} \subseteq Objects \cup {None}

FlagsTyped ==
    queued \in BOOLEAN /\ timer \in BOOLEAN /\ configMap \in BOOLEAN /\ ca \in BOOLEAN

\* A request in progress has an object and a spec.
RequestTyped ==
    /\ pc \in Steps
    /\ original \in Objects \cup {None} /\ desired \in Specs \cup {None}
    /\ pc # "Idle" => original \in Objects /\ desired \in Specs
    /\ found \in Clusters \cup {None} /\ current \in Copies \cup {None}

\* The ids in use are known to OCM.
WorldTyped ==
    /\ cluster \in Clusters \cup {None} /\ used \subseteq ClusterIDs
    /\ cluster # None => cluster.id \in used
    /\ idp \in Providers \cup {None} /\ handedOut \subseteq ProviderIDs
    /\ idp # None => cluster # None /\ cluster.id = idp.cluster /\ idp.id \in handedOut
    /\ created \in handedOut \cup {NoID}
    /\ secret \in {"ok", "missing", "empty"}

Typed == StoreTyped /\ FlagsTyped /\ RequestTyped /\ WorldTyped

\* The ids that the delete is addressed to.
Same(a, b) ==
    /\ a.status.clusterID = b.status.clusterID
    /\ a.status.provider = b.status.provider

\* What a patch of the status leaves alone.
Alike(a, b) == b.deleting = a.deleting /\ b.finalizer = a.finalizer

\* The object is patched, read back, and the reconcile goes on.
Patched(next) ==
    /\ obj \in Objects /\ obj' \in Objects
    /\ original' = obj' /\ Alike(obj, obj')
    /\ Goto(next)
    /\ UNCHANGED <<desired, found, current>>

\* The object was gone.
Gone == obj = None /\ obj' = None /\ Return(TRUE)

LEMMA PatchStatusFacts ==
  ASSUME StoreTyped, original \in Objects, NEW to \in Status, NEW next, PatchStatus(to, next)
  PROVE  \/ Gone
         \/ /\ Patched(next)
            /\ obj'.status.clusterID
                 = Merged(obj.status.clusterID, original.status.clusterID, to.clusterID)
            /\ obj'.status.provider = Merged(obj.status.provider, original.status.provider, to.provider)
            /\ obj'.status.conditions
                 = Merged(obj.status.conditions, original.status.conditions, to.conditions)
  <1>1. CASE obj = None
    BY <1>1 DEF PatchStatus, Gone
  <1>2. CASE obj # None
    <2> DEFINE st == MergePatch(obj.status, original.status, to)
    <2>1. obj \in Objects
      BY <1>2 DEF StoreTyped
    <2>2. obj.status \in Status /\ original.status \in Status
      BY <2>1 DEF Objects
    <2>3. /\ st \in Status
          /\ st.clusterID = Merged(obj.status.clusterID, original.status.clusterID, to.clusterID)
          /\ st.provider = Merged(obj.status.provider, original.status.provider, to.provider)
          /\ st.conditions = Merged(obj.status.conditions, original.status.conditions, to.conditions)
      BY <2>2, MergeTyped
    <2>4. /\ obj' = [obj EXCEPT !.status = st]
          /\ original' = obj' /\ Goto(next) /\ UNCHANGED <<desired, found, current>>
      BY <1>2 DEF PatchStatus
    <2> HIDE DEF st
    <2>5. obj' \in Objects /\ obj'.status = st /\ Alike(obj, obj')
      BY <2>1, <2>3, <2>4, WithStatus DEF Alike
    <2> QED
      BY <2>1, <2>3, <2>4, <2>5 DEF Patched
  <1> QED
    BY <1>1, <1>2

LEMMA UpdateConditionFacts ==
  ASSUME StoreTyped, original \in Objects, NEW c \in AllConditions, NEW next,
         UpdateCondition(c, next)
  PROVE  \/ /\ c \in original.status.conditions
            /\ Goto(next) /\ UNCHANGED <<obj, request>>
         \/ Gone
         \/ /\ Patched(next) /\ Same(obj, obj')
            /\ obj'.status.conditions = AddCondition(original.status.conditions, c)
  <1>1. CASE c \in original.status.conditions
    BY <1>1 DEF UpdateCondition, IsSet
  <1>2. CASE c \notin original.status.conditions
    <2> DEFINE cs == AddCondition(original.status.conditions, c)
               to == [original.status EXCEPT !.conditions = cs]
    <2>1. original.status \in Status
      BY DEF Objects
    <2>2. cs \in SUBSET AllConditions /\ cs # original.status.conditions
      <3>1. c \in cs
        BY DEF AddCondition
      <3>2. original.status.conditions \in SUBSET AllConditions
        BY <2>1 DEF Status, AllConditions
      <3> QED
        BY <1>2, <3>1, <3>2, AddConditionTyped
    <2> HIDE DEF cs
    <2>3. /\ to \in Status /\ to.conditions = cs
          /\ to.clusterID = original.status.clusterID /\ to.provider = original.status.provider
      BY <2>1, <2>2 DEF Status, AllConditions
    <2>4. PatchStatus(to, next)
      BY <1>2 DEF UpdateCondition, IsSet, cs
    <2> HIDE DEF to
    <2>5. \/ Gone
          \/ /\ Patched(next)
             /\ obj'.status.clusterID
                  = Merged(obj.status.clusterID, original.status.clusterID, to.clusterID)
             /\ obj'.status.provider = Merged(obj.status.provider, original.status.provider, to.provider)
             /\ obj'.status.conditions
                  = Merged(obj.status.conditions, original.status.conditions, to.conditions)
      BY <2>3, <2>4, PatchStatusFacts
    <2>6. CASE Gone
      BY <2>6
    <2>7. CASE /\ Patched(next)
               /\ obj'.status.clusterID
                    = Merged(obj.status.clusterID, original.status.clusterID, to.clusterID)
               /\ obj'.status.provider
                    = Merged(obj.status.provider, original.status.provider, to.provider)
               /\ obj'.status.conditions
                    = Merged(obj.status.conditions, original.status.conditions, to.conditions)
      <3>1. Same(obj, obj') /\ obj'.status.conditions = cs
        BY <2>2, <2>3, <2>7 DEF Merged, Same, Patched, Alike
      <3> QED
        BY <2>7, <3>1 DEF cs
    <2> QED
      BY <2>5, <2>6, <2>7
  <1> QED
    BY <1>1, <1>2

LEMMA UpdateConditionAndReturnFacts ==
  ASSUME StoreTyped, original \in Objects, NEW c \in AllConditions, UpdateConditionAndReturn(c)
  PROVE  /\ Return(TRUE)
         /\ \/ obj' = obj
            \/ /\ obj \in Objects /\ obj' \in Objects
               /\ Alike(obj, obj') /\ Same(obj, obj')
               /\ obj'.status.conditions = AddCondition(original.status.conditions, c)
  <1> DEFINE cs == AddCondition(original.status.conditions, c)
  <1>1. cs \in SUBSET AllConditions
    <2>1. original.status.conditions \in SUBSET AllConditions
      BY DEF Objects, Status, AllConditions
    <2> QED
      BY <2>1, AddConditionTyped
  <1>2. /\ Return(TRUE)
        /\ \/ obj' = obj
           \/ obj # None /\ obj' = [obj EXCEPT !.status.conditions = cs]
    BY DEF UpdateConditionAndReturn
  <1> HIDE DEF cs
  <1>3. CASE obj # None /\ obj' = [obj EXCEPT !.status.conditions = cs]
    <2>1. obj \in Objects
      BY <1>3 DEF StoreTyped
    <2>2. /\ obj' \in Objects /\ Alike(obj, obj') /\ Same(obj, obj')
          /\ obj'.status.conditions = cs
      BY <1>1, <1>3, <2>1, WithConditions DEF Alike, Same
    <2> QED
      BY <1>2, <2>1, <2>2 DEF cs
  <1> QED
    BY <1>2, <1>3

LEMMA ReturnTyped ==
  ASSUME FlagsTyped, NEW b \in BOOLEAN, Return(b), UNCHANGED <<configMap, ca>>
  PROVE  FlagsTyped' /\ RequestTyped'
  <1>1. /\ queued' = queued /\ timer' = (timer \/ b)
        /\ configMap' = configMap /\ ca' = ca
    BY DEF Return
  <1>2. FlagsTyped'
    BY <1>1, Zenon DEF FlagsTyped
  <1>3. RequestTyped'
    BY DEF Return, RequestTyped, Steps
  <1> QED
    BY <1>2, <1>3

LEMMA GotoTyped ==
  ASSUME FlagsTyped, RequestTyped, pc # "Idle", UNCHANGED <<configMap, ca>>,
         NEW next \in Steps, Goto(next),
         original' \in Objects, desired' = desired,
         found' \in Clusters \cup {None}, current' \in Copies \cup {None}
  PROVE  FlagsTyped' /\ RequestTyped'
  <1>1. /\ queued' = queued /\ timer' = timer /\ pc' = next
        /\ configMap' = configMap /\ ca' = ca
    BY DEF Goto, queue
  <1>2. FlagsTyped'
    BY <1>1, Zenon DEF FlagsTyped
  <1>3. RequestTyped'
    BY <1>1 DEF RequestTyped
  <1> QED
    BY <1>2, <1>3

LEMMA SameRequestTyped ==
  ASSUME FlagsTyped, RequestTyped, pc # "Idle", UNCHANGED <<configMap, ca>>,
         NEW next \in Steps, Goto(next), UNCHANGED request
  PROVE  FlagsTyped' /\ RequestTyped'
  <1>1. /\ original' \in Objects /\ desired' = desired
        /\ found' \in Clusters \cup {None} /\ current' \in Copies \cup {None}
    BY DEF request, RequestTyped
  <1> QED
    BY <1>1, GotoTyped

LEMMA PatchedTyped ==
  ASSUME StoreTyped, FlagsTyped, RequestTyped, pc # "Idle",
         UNCHANGED <<cache, configMap, ca>>,
         NEW next \in Steps, Patched(next) \/ Gone
  PROVE  StoreTyped' /\ FlagsTyped' /\ RequestTyped'
  <1>1. CASE Patched(next)
    <2>1. StoreTyped'
      BY <1>1 DEF Patched, StoreTyped
    <2>2. /\ Goto(next) /\ original' \in Objects /\ desired' = desired
          /\ found' \in Clusters \cup {None} /\ current' \in Copies \cup {None}
      BY <1>1 DEF Patched, RequestTyped
    <2> QED
      BY <2>1, <2>2, GotoTyped
  <1>2. CASE Gone
    <2>1. StoreTyped' /\ Return(TRUE)
      BY <1>2 DEF Gone, StoreTyped
    <2> QED
      BY <2>1, ReturnTyped
  <1> QED
    BY <1>1, <1>2

LEMMA UpdateConditionTyped ==
  ASSUME StoreTyped, FlagsTyped, RequestTyped, pc # "Idle",
         UNCHANGED <<cache, configMap, ca>>,
         NEW c \in AllConditions, NEW next \in Steps, UpdateCondition(c, next)
  PROVE  StoreTyped' /\ FlagsTyped' /\ RequestTyped'
  <1>1. original \in Objects
    BY DEF RequestTyped
  <1>2. \/ Goto(next) /\ obj' = obj /\ UNCHANGED request
        \/ Patched(next) \/ Gone
    BY <1>1, UpdateConditionFacts
  <1>3. CASE Goto(next) /\ obj' = obj /\ UNCHANGED request
    <2>1. StoreTyped'
      BY <1>3 DEF StoreTyped
    <2> QED
      BY <1>3, <2>1, SameRequestTyped
  <1> QED
    BY <1>2, <1>3, PatchedTyped

LEMMA UpdateConditionAndReturnTyped ==
  ASSUME StoreTyped, FlagsTyped, RequestTyped, pc # "Idle",
         UNCHANGED <<cache, configMap, ca>>,
         NEW c \in AllConditions, UpdateConditionAndReturn(c)
  PROVE  StoreTyped' /\ FlagsTyped' /\ RequestTyped'
  <1>1. original \in Objects
    BY DEF RequestTyped
  <1>2. Return(TRUE) /\ (obj' = obj \/ obj' \in Objects)
    BY <1>1, UpdateConditionAndReturnFacts
  <1>3. StoreTyped'
    BY <1>2 DEF StoreTyped
  <1> QED
    BY <1>2, <1>3, ReturnTyped

LEMMA WorldKept ==
  ASSUME WorldTyped, UNCHANGED <<cluster, used, idp, handedOut, secret, created>>
  PROVE  WorldTyped'
  BY DEF WorldTyped

LEMMA StoreKept ==
  ASSUME StoreTyped, UNCHANGED kubernetes
  PROVE  StoreTyped'
  BY DEF StoreTyped, kubernetes

LEMMA RequestKept ==
  ASSUME RequestTyped, UNCHANGED <<pc, request>>
  PROVE  RequestTyped'
  BY DEF RequestTyped, request

LEMMA FlagsKept ==
  ASSUME FlagsTyped, UNCHANGED <<queue, configMap, ca>>
  PROVE  FlagsTyped'
  <1>1. /\ queued' = queued /\ timer' = timer
        /\ configMap' = configMap /\ ca' = ca
    BY DEF queue
  <1> QED
    BY <1>1, Zenon DEF FlagsTyped


LEMMA ChildStepTyped ==
  ASSUME Typed, ChildStep, UnchangedHere
  PROVE  Typed'
  <1> USE DEF Typed
  <1>0. UNCHANGED <<idp, handedOut, secret, configMap, ca, created>>
    BY DEF UnchangedHere, ocm, openshift
  <1>1. WorldTyped'
    <2>1. UNCHANGED <<cluster, used>>
      BY DEF ChildStep, ReconcileTrigger, AddFinalizer, GetUpstreamCluster, UpdateUpstream,
             Complete, RemoveFinalizer
    <2> QED
      BY <1>0, <2>1, WorldKept
  <1>2. CASE ReconcileTrigger
    <2> DEFINE trigger == GetTrigger(original.deleting)
               next == IF trigger = "Delete" THEN "Destroy" ELSE "AddFinalizer"
    <2>1. /\ pc = "Reconciling" /\ cache' = cache
          /\ UpdateCondition(Reconciling(trigger), next)
      BY <1>2 DEF ReconcileTrigger
    <2>2. Reconciling(trigger) \in AllConditions /\ next \in Steps
      BY DEF GetTrigger, AllConditions, CommonConditions, Steps, UpdatePath, DeletePath
    <2> HIDE DEF trigger, next
    <2> QED
      BY <1>0, <1>1, <2>1, <2>2, UpdateConditionTyped
  <1>3. CASE AddFinalizer
    <2>1. pc = "AddFinalizer" /\ cache' = cache /\ original \in Objects
      BY <1>3 DEF AddFinalizer, RequestTyped
    <2>2. CASE original.finalizer
      <3>1. Goto("GetUpstreamCluster") /\ obj' = obj /\ UNCHANGED request
        BY <1>3, <2>2 DEF AddFinalizer
      <3>2. StoreTyped'
        BY <2>1, <3>1 DEF StoreTyped
      <3> QED
        BY <1>0, <1>1, <2>1, <3>1, <3>2, SameRequestTyped DEF Steps, UpdatePath
    <2>3. CASE ~original.finalizer /\ obj = None
      <3>1. Return(TRUE) /\ obj' = obj
        BY <1>3, <2>3 DEF AddFinalizer
      <3>2. StoreTyped'
        BY <2>1, <3>1 DEF StoreTyped
      <3> QED
        BY <1>0, <1>1, <3>1, <3>2, ReturnTyped
    <2>4. CASE ~original.finalizer /\ obj # None
      <3>1. /\ obj' = [obj EXCEPT !.finalizer = TRUE] /\ original' = obj'
            /\ Goto("GetUpstreamCluster") /\ UNCHANGED <<desired, found, current>>
        BY <1>3, <2>4 DEF AddFinalizer
      <3>2. obj \in Objects
        BY <2>4 DEF StoreTyped
      <3>3. obj' \in Objects
        BY <3>1, <3>2, WithFinalizer
      <3>4. StoreTyped'
        BY <2>1, <3>3 DEF StoreTyped
      <3>5. found' \in Clusters \cup {None} /\ current' \in Copies \cup {None}
        BY <3>1 DEF RequestTyped
      <3> QED
        BY <1>0, <1>1, <2>1, <3>1, <3>3, <3>4, <3>5, GotoTyped DEF Steps, UpdatePath
    <2> QED
      BY <2>2, <2>3, <2>4
  <1>4. CASE GetUpstreamCluster
    <2> DEFINE next == IF found' = None THEN "UpdateUpstream" ELSE "SaveClusterStatus"
    <2>1. /\ pc = "GetUpstreamCluster" /\ found' \in {cluster, None} /\ Goto(next)
          /\ UNCHANGED <<kubernetes, original, desired, current>>
      BY <1>4 DEF GetUpstreamCluster
    <2>2. next \in Steps
      BY DEF Steps, UpdatePath
    <2>3. found' \in Clusters \cup {None} /\ current' \in Copies \cup {None}
      BY <2>1 DEF WorldTyped, RequestTyped
    <2>4. original' \in Objects
      BY <2>1 DEF RequestTyped
    <2> HIDE DEF next
    <2> QED
      BY <1>0, <1>1, <2>1, <2>2, <2>3, <2>4, StoreKept, GotoTyped
  <1>5. CASE UpdateUpstream
    <2> DEFINE c == UpstreamCluster("Create", found # None)
    <2>1. /\ pc = "UpdateUpstream" /\ cache' = cache
          /\ UpdateCondition(c, "GetCurrentState") \/ UpdateConditionAndReturn(c)
      BY <1>5 DEF UpdateUpstream
    <2>2. c \in AllConditions /\ "GetCurrentState" \in Steps
      BY DEF AllConditions, CommonConditions, Steps, UpdatePath
    <2> HIDE DEF c
    <2>3. CASE UpdateCondition(c, "GetCurrentState")
      BY <1>0, <1>1, <2>1, <2>2, <2>3, UpdateConditionTyped
    <2>4. CASE UpdateConditionAndReturn(c)
      BY <1>0, <1>1, <2>1, <2>2, <2>4, UpdateConditionAndReturnTyped
    <2> QED
      BY <2>1, <2>3, <2>4
  <1>6. CASE Complete
    <2>1. pc = "Complete" /\ cache' = cache /\ UpdateConditionAndReturn(Reconciled("Create"))
      BY <1>6 DEF Complete
    <2>2. Reconciled("Create") \in AllConditions
      BY DEF AllConditions, CommonConditions
    <2> QED
      BY <1>0, <1>1, <2>1, <2>2, UpdateConditionAndReturnTyped
  <1>7. CASE RemoveFinalizer
    <2>1. /\ cache' = cache
          /\ \/ Return(TRUE) /\ obj' = obj
             \/ Return(FALSE) /\ obj' \in {obj, None}
             \/ Return(FALSE) /\ obj # None /\ obj' = [obj EXCEPT !.finalizer = FALSE]
      BY <1>7 DEF RemoveFinalizer
    <2>2. StoreTyped'
      <3>1. obj # None => [obj EXCEPT !.finalizer = FALSE] \in Objects
        BY WithFinalizer DEF StoreTyped
      <3> QED
        BY <2>1, <3>1 DEF StoreTyped
    <2> QED
      BY <1>0, <1>1, <2>1, <2>2, ReturnTyped
  <1> QED
    BY <1>2, <1>3, <1>4, <1>5, <1>6, <1>7 DEF ChildStep

LEMMA PhasesTyped ==
  ASSUME Typed,
         \/ NewRequest \/ SaveUpstreamCluster \/ GetCurrentState
         \/ ApplyIdentityProvider \/ SaveProviderID
         \/ Destroy \/ DeleteIDP \/ DeleteIDPRefused \/ NotifyDeleted
  PROVE  Typed'
  <1> USE DEF Typed, ocm, openshift
  <1>1. CASE NewRequest
    <2>1. /\ queued' = FALSE /\ configMap' = configMap /\ pc = "Idle"
          /\ UNCHANGED <<kubernetes, found, current, cluster, used, idp, handedOut, secret, created>>
      BY <1>1 DEF NewRequest, Dequeue
    <2>2. CASE cache # None /\ Accept /\ ca' \in BOOLEAN
      <3>1. /\ original' = cache /\ desired' = cache.spec /\ pc' = "Reconciling"
            /\ timer' = timer
        BY <2>2 DEF Accept
      <3>2. FlagsTyped'
        BY <2>1, <2>2, <3>1, Zenon DEF FlagsTyped
      <3>3. cache \in Objects /\ cache.spec \in Specs
        BY <2>2 DEF StoreTyped, Objects
      <3>4. RequestTyped'
        BY <2>1, <3>1, <3>3 DEF RequestTyped, Steps
      <3> QED
        BY <2>1, <3>2, <3>4, StoreKept, WorldKept
    <2>3. ASSUME NEW retry \in BOOLEAN, Reject(retry), ca' = ca
          PROVE  Typed'
      <3>1. timer' = (timer \/ retry) /\ UNCHANGED <<pc, original, desired>>
        BY <2>3 DEF Reject
      <3>2. FlagsTyped'
        BY <2>1, <2>3, <3>1, Zenon DEF FlagsTyped
      <3>3. RequestTyped'
        BY <2>1, <3>1 DEF RequestTyped
      <3> QED
        BY <2>1, <3>2, <3>3, StoreKept, WorldKept
    <2>4. CASE cache # None /\ NewRequestGitLab
      <3>1. CASE secret = "ok"
        <4>1. Accept /\ ca' = (cache.spec.ca /\ configMap)
          BY <2>4, <3>1 DEF NewRequestGitLab
        <4>2. ca' \in BOOLEAN
          BY <4>1, Zenon
        <4> QED
          BY <2>2, <2>4, <4>1, <4>2
      <3>2. CASE secret # "ok"
        BY <2>3, <2>4, <3>2 DEF NewRequestGitLab
      <3> QED
        BY <3>1, <3>2
    <2>5. CASE cache # None /\ NewRequestLDAP
      <3>1. CASE Accept /\ ca' = cache.spec.ca
        <4>1. cache.spec \in Specs
          BY <2>5 DEF StoreTyped, Objects
        <4> QED
          BY <2>2, <2>5, <3>1, <4>1, IdentityProviderAssumption
      <3> QED
        BY <2>3, <2>5, <3>1 DEF NewRequestLDAP
    <2> QED
      BY <1>1, <2>3, <2>4, <2>5 DEF NewRequest
  <1>2. CASE SaveUpstreamCluster
    <2> DEFINE to == SetClusterStatus(original.status, found)
    <2>1. /\ pc = "SaveClusterStatus" /\ UNCHANGED <<cache, configMap, ca>>
          /\ UNCHANGED <<cluster, used, idp, handedOut, secret, created>>
          /\ \/ Return(TRUE) /\ obj' = obj
             \/ PatchStatus(to, "UpdateUpstream")
      BY <1>2 DEF SaveUpstreamCluster, SaveClusterStatus
    <2>2. original \in Objects /\ original.status \in Status /\ found \in Clusters \cup {None}
      BY <2>1 DEF RequestTyped, Objects
    <2>3. to \in Status
      BY <2>2, SetClusterStatusFacts
    <2> HIDE DEF to
    <2>4. CASE Return(TRUE) /\ obj' = obj
      <3>1. StoreTyped'
        BY <2>1, <2>4 DEF StoreTyped
      <3> QED
        BY <2>1, <2>4, <3>1, ReturnTyped, WorldKept
    <2>5. CASE PatchStatus(to, "UpdateUpstream")
      <3>1. Patched("UpdateUpstream") \/ Gone
        BY <2>2, <2>3, <2>5, PatchStatusFacts
      <3> QED
        BY <2>1, <3>1, PatchedTyped, WorldKept DEF Steps, UpdatePath
    <2> QED
      BY <2>1, <2>4, <2>5
  <1>3. CASE GetCurrentState
    <2>1. /\ pc = "GetCurrentState" /\ UNCHANGED <<kubernetes, configMap, ca>>
          /\ UNCHANGED <<cluster, used, idp, handedOut, secret, created>>
      BY <1>3 DEF GetCurrentState
    <2>2. CASE Return(TRUE)
      BY <2>1, <2>2, ReturnTyped, StoreKept, WorldKept
    <2>3. CASE /\ current' = IF idp = None THEN None ELSE [spec |-> idp.spec, ca |-> idp.ca]
               /\ Goto("Apply") /\ UNCHANGED <<original, desired, found>>
      <3>1. current' \in Copies \cup {None}
        BY <2>3 DEF WorldTyped, Providers, Copies
      <3>2. original' \in Objects /\ desired' = desired /\ found' \in Clusters \cup {None}
        BY <2>1, <2>3 DEF RequestTyped
      <3> QED
        BY <2>1, <2>3, <3>1, <3>2, GotoTyped, StoreKept, WorldKept DEF Steps, UpdatePath
    <2> QED
      BY <1>3, <2>2, <2>3 DEF GetCurrentState
  <1>4. CASE ApplyIdentityProvider
    <2>1. /\ pc = "Apply" /\ UNCHANGED <<kubernetes, configMap, ca, cluster, used, secret>>
          /\ \/ Return(TRUE)
             \/ Goto("SaveProviderID") /\ UNCHANGED request
             \/ Goto("Complete") /\ UNCHANGED request
      BY <1>4 DEF ApplyIdentityProvider, Create, Update, AlreadyApplied
    <2>2. FlagsTyped' /\ RequestTyped'
      BY <2>1, ReturnTyped, SameRequestTyped DEF Steps, UpdatePath
    <2>3. CASE UNCHANGED <<idp, handedOut, created>>
      BY <2>1, <2>2, <2>3, StoreKept, WorldKept
    <2>4. ASSUME NEW id \in ProviderIDs \ handedOut, cluster # None,
                 idp' = [id |-> id, cluster |-> cluster.id, spec |-> desired, ca |-> ca,
                         mine |-> TRUE],
                 handedOut' = handedOut \cup {id}, created' = id
          PROVE  Typed'
      <3>1. cluster.id \in ClusterIDs /\ desired \in Specs
        BY <2>1, <2>4 DEF WorldTyped, Clusters, RequestTyped
      <3>2. ca \in BOOLEAN
        BY DEF FlagsTyped
      <3>3. idp' \in Providers /\ idp'.cluster = cluster.id /\ idp'.id = id
        BY <2>4, <3>1, <3>2 DEF Providers
      <3>4. WorldTyped'
        BY <2>1, <2>4, <3>3 DEF WorldTyped
      <3> QED
        BY <2>1, <2>2, <3>4, StoreKept
    <2> QED
      BY <1>4, <2>3, <2>4 DEF ApplyIdentityProvider, Create, Update, AlreadyApplied, UpstreamExists
  <1>5. CASE SaveProviderID
    <2> DEFINE to == [original.status EXCEPT !.provider = created]
    <2>1. /\ pc = "SaveProviderID" /\ UNCHANGED <<cache, configMap, ca>>
          /\ UNCHANGED <<cluster, used, idp, handedOut, secret, created>>
          /\ \/ Return(TRUE) /\ obj' = obj
             \/ PatchStatus(to, "Complete")
      BY <1>5 DEF SaveProviderID
    <2>2. /\ original \in Objects /\ original.status \in Status
          /\ created \in ProviderIDs \cup {NoID}
      BY <2>1 DEF RequestTyped, Objects, WorldTyped
    <2>3. to \in Status
      BY <2>2, WithProvider
    <2> HIDE DEF to
    <2>4. CASE Return(TRUE) /\ obj' = obj
      <3>1. StoreTyped'
        BY <2>1, <2>4 DEF StoreTyped
      <3> QED
        BY <2>1, <2>4, <3>1, ReturnTyped, WorldKept
    <2>5. CASE PatchStatus(to, "Complete")
      <3>1. Patched("Complete") \/ Gone
        BY <2>2, <2>3, <2>5, PatchStatusFacts
      <3> QED
        BY <2>1, <3>1, PatchedTyped, WorldKept DEF Steps, UpdatePath
    <2> QED
      BY <2>1, <2>4, <2>5
  <1>6. CASE Destroy
    <2>1. /\ pc = "Destroy" /\ UNCHANGED <<kubernetes, request, configMap, ca>>
          /\ UNCHANGED <<cluster, used, idp, handedOut, secret, created>>
          /\ Goto("RemoveFinalizer") \/ Goto("DeleteIDP")
      BY <1>6 DEF Destroy
    <2> QED
      BY <2>1, SameRequestTyped, StoreKept, WorldKept DEF Steps, DeletePath
  <1>7. CASE DeleteIDP
    <2>1. /\ pc = "DeleteIDP" /\ UNCHANGED <<kubernetes, request, configMap, ca>>
          /\ UNCHANGED <<cluster, used, handedOut, secret, created>>
          /\ Goto("NotifyDeleted") /\ idp' \in {idp, None}
      BY <1>7 DEF DeleteIDP
    <2>2. WorldTyped'
      BY <2>1 DEF WorldTyped
    <2> QED
      BY <2>1, <2>2, SameRequestTyped, StoreKept DEF Steps, DeletePath
  <1>8. CASE DeleteIDPRefused
    <2>1. /\ Return(TRUE) /\ UNCHANGED <<kubernetes, configMap, ca>>
          /\ UNCHANGED <<cluster, used, idp, handedOut, secret, created>>
      BY <1>8 DEF DeleteIDPRefused
    <2> QED
      BY <2>1, ReturnTyped, StoreKept, WorldKept
  <1>9. CASE NotifyDeleted
    <2>1. /\ pc = "NotifyDeleted" /\ UNCHANGED <<cache, configMap, ca>>
          /\ UNCHANGED <<cluster, used, idp, handedOut, secret, created>>
          /\ UpdateCondition(IdentityProviderDeleted, "RemoveFinalizer")
      BY <1>9 DEF NotifyDeleted
    <2>2. IdentityProviderDeleted \in AllConditions /\ "RemoveFinalizer" \in Steps
      BY DEF AllConditions, Steps, DeletePath
    <2> QED
      BY <2>1, <2>2, UpdateConditionTyped, WorldKept
  <1> QED
    BY <1>1, <1>2, <1>3, <1>4, <1>5, <1>6, <1>7, <1>8, <1>9

LEMMA OutageTyped ==
  ASSUME Typed, Outage
  PROVE  Typed'
  <1> USE DEF Typed
  <1>1. WorldTyped' /\ UNCHANGED <<configMap, ca>>
    <2>1. UNCHANGED <<cluster, used, idp, handedOut, secret, configMap, ca, created>>
      BY DEF Outage, UnchangedHere, ocm, openshift, ChildOutage, GetUpstreamClusterFails, CallFails, Crash
    <2> QED
      BY <2>1, WorldKept
  <1>2. CASE GetUpstreamClusterFails
    <2>1. /\ pc = "GetUpstreamCluster" /\ found' = None /\ Goto("SaveClusterStatus")
          /\ UNCHANGED <<kubernetes, original, desired, current>>
      BY <1>2 DEF GetUpstreamClusterFails
    <2>2. original' \in Objects /\ current' \in Copies \cup {None}
      BY <2>1 DEF RequestTyped
    <2> QED
      BY <1>1, <2>1, <2>2, StoreKept, GotoTyped DEF Steps, UpdatePath
  <1>3. CASE CallFails
    BY <1>1, <1>3, StoreKept, ReturnTyped DEF CallFails
  <1>4. CASE Crash
    <2>1. /\ queued' = (obj # None) /\ timer' = FALSE
          /\ configMap' = configMap /\ ca' = ca
      BY <1>1, <1>4 DEF Crash
    <2>2. FlagsTyped'
      BY <2>1, Zenon DEF FlagsTyped
    <2>3. StoreTyped' /\ RequestTyped'
      BY <1>4 DEF Crash, StoreTyped, RequestTyped, Steps
    <2> QED
      BY <1>1, <2>2, <2>3
  <1> QED
    BY <1>2, <1>3, <1>4 DEF Outage, ChildOutage

LEMMA EnvironmentTyped ==
  ASSUME Typed, World
  PROVE  Typed'
  <1> USE DEF Typed
  <1>0. ASSUME UnchangedHere
        PROVE  /\ idp' = idp /\ handedOut' = handedOut /\ secret' = secret /\ created' = created
               /\ configMap' = configMap /\ ca' = ca
    BY <1>0 DEF UnchangedHere, ocm, openshift
  <1>1. CASE SyncCache /\ UnchangedHere
    <2> DEFINE event == \/ cache = None \/ obj = None
                        \/ cache # None /\ obj # None /\ ~cache.deleting /\ obj.deleting
                        \/ cache # None /\ obj # None /\ cache.generation # obj.generation
    <2>1. /\ cache' = obj /\ queued' = (queued \/ event) /\ timer' = timer
          /\ UNCHANGED <<obj, pc, request, cluster, used>>
      BY <1>1, Zenon DEF SyncCache
    <2>2. FlagsTyped'
      BY <1>0, <1>1, <2>1, Zenon DEF FlagsTyped
    <2>3. StoreTyped'
      BY <2>1 DEF StoreTyped
    <2> QED
      BY <1>0, <1>1, <2>1, <2>2, <2>3, RequestKept, WorldKept
  <1>2. CASE TimerFires /\ UnchangedHere
    <2>1. timer' = FALSE /\ queued' = TRUE /\ UNCHANGED <<kubernetes, pc, request, cluster, used>>
      BY <1>2 DEF TimerFires
    <2>2. FlagsTyped'
      BY <1>0, <1>2, <2>1, Zenon DEF FlagsTyped
    <2> QED
      BY <1>0, <1>2, <2>1, <2>2, StoreKept, RequestKept, WorldKept
  <1>3. CASE UserEdits /\ UnchangedHere
    <2>1. obj \in Objects /\ obj.generation < MaxGeneration
      BY <1>3 DEF UserEdits, StoreTyped
    <2>2. PICK spec \in Specs : obj' = [obj EXCEPT !.generation = obj.generation + 1, !.spec = spec]
      BY <1>3 DEF UserEdits
    <2>3. obj' \in Objects
      BY <2>1, <2>2, WithSpec
    <2>4. UNCHANGED <<cache, queue, pc, request, cluster, used>>
      BY <1>3 DEF UserEdits
    <2>5. StoreTyped'
      BY <2>3, <2>4 DEF StoreTyped
    <2> QED
      BY <1>0, <1>3, <2>4, <2>5, FlagsKept, RequestKept, WorldKept
  <1>4. CASE UserDeletes /\ UnchangedHere
    <2>1. obj \in Objects /\ (obj' = [obj EXCEPT !.deleting = TRUE] \/ obj' = None)
      BY <1>4 DEF UserDeletes, StoreTyped
    <2>2. obj' \in Objects \cup {None}
      BY <2>1, WithDeleting
    <2>3. UNCHANGED <<cache, queue, pc, request, cluster, used>>
      BY <1>4 DEF UserDeletes
    <2>4. StoreTyped'
      BY <2>2, <2>3 DEF StoreTyped
    <2> QED
      BY <1>0, <1>4, <2>3, <2>4, FlagsKept, RequestKept, WorldKept
  <1>5. CASE UserRecreates(NewObjects) /\ UnchangedHere
    <2>1. obj' \in Objects
      BY <1>5, NewObjectsTyped DEF UserRecreates
    <2>2. queued' = TRUE /\ timer' = timer /\ UNCHANGED <<cache, pc, request, cluster, used>>
      BY <1>5 DEF UserRecreates
    <2>3. FlagsTyped'
      BY <1>0, <1>5, <2>2, Zenon DEF FlagsTyped
    <2>4. StoreTyped'
      BY <2>1, <2>2 DEF StoreTyped
    <2> QED
      BY <1>0, <1>5, <2>2, <2>3, <2>4, RequestKept, WorldKept
  <1>6. CASE ClusterAppears /\ UnchangedHere
    <2>1. PICK id \in ClusterIDs \ used :
            cluster' = [id |-> id, state |-> "installing"] /\ used' = used \cup {id}
      BY <1>6 DEF ClusterAppears
    <2>2. cluster = None /\ UNCHANGED <<kubernetes, queue, pc, request>>
      BY <1>6 DEF ClusterAppears
    <2>3. cluster' \in Clusters /\ cluster'.id = id
      BY <2>1 DEF Clusters
    <2>4. WorldTyped'
      BY <1>0, <1>6, <2>1, <2>2, <2>3 DEF WorldTyped
    <2> QED
      BY <1>0, <1>6, <2>2, <2>4, StoreKept, FlagsKept, RequestKept
  <1>7. CASE (ClusterInstalled \/ ClusterUninstalls) /\ UnchangedHere
    <2>1. /\ cluster # None /\ UNCHANGED <<kubernetes, queue, pc, request, used>>
          /\ \/ cluster' = [cluster EXCEPT !.state = "ready"]
             \/ cluster' = [cluster EXCEPT !.state = "uninstalling"]
      BY <1>7 DEF ClusterInstalled, ClusterUninstalls
    <2>2. cluster \in Clusters
      BY <2>1 DEF WorldTyped
    <2>3. cluster' \in Clusters /\ cluster'.id = cluster.id
      BY <2>1, <2>2 DEF Clusters
    <2>4. cluster' # None
      BY <2>3, NoneAssumption
    <2>5. WorldTyped'
      BY <1>0, <1>7, <2>1, <2>3, <2>4 DEF WorldTyped
    <2> QED
      BY <1>0, <1>7, <2>1, <2>5, StoreKept, FlagsKept, RequestKept
  <1>8. CASE OthersCreateIDP
    <2>1. PICK id \in ProviderIDs \ handedOut, spec \in Specs :
            /\ idp' = [id |-> id, cluster |-> cluster.id, spec |-> spec, ca |-> spec.ca,
                       mine |-> FALSE]
            /\ handedOut' = handedOut \cup {id}
      BY <1>8 DEF OthersCreateIDP
    <2>2. cluster # None /\ UNCHANGED <<childVars, secret, configMap, ca, created>>
      BY <1>8 DEF OthersCreateIDP, openshift
    <2>3. UNCHANGED <<kubernetes, queue, pc, request, cluster, used>>
      BY <2>2 DEF childVars
    <2>4. cluster.id \in ClusterIDs /\ spec.ca \in BOOLEAN
      BY <2>2, IdentityProviderAssumption DEF WorldTyped, Clusters
    <2>5. idp' \in Providers /\ idp'.cluster = cluster.id /\ idp'.id = id
      BY <2>1, <2>4 DEF Providers
    <2>6. WorldTyped'
      BY <2>1, <2>2, <2>3, <2>5 DEF WorldTyped
    <2> QED
      BY <2>2, <2>3, <2>6, StoreKept, FlagsKept, RequestKept
  <1>9. CASE OthersRemoveIDP
    <2>1. idp' = None /\ UNCHANGED <<childVars, handedOut, secret, configMap, ca, created>>
      BY <1>9 DEF OthersRemoveIDP, openshift
    <2>2. UNCHANGED <<kubernetes, queue, pc, request, cluster, used>>
      BY <2>1 DEF childVars
    <2>3. WorldTyped'
      BY <2>1, <2>2 DEF WorldTyped
    <2> QED
      BY <2>1, <2>2, <2>3, StoreKept, FlagsKept, RequestKept
  <1>10. CASE SecretChanges \/ ConfigMapRemoved \/ UserRestores
    <2>1. /\ UNCHANGED <<childVars, idp, handedOut, ca, created>>
          /\ secret' \in {secret, "missing", "empty", "ok"}
      BY <1>10 DEF SecretChanges, ConfigMapRemoved, UserRestores, ocm
    <2>2. UNCHANGED <<kubernetes, queue, pc, request, cluster, used>>
      BY <2>1 DEF childVars
    <2>3. queued' = queued /\ timer' = timer /\ ca' = ca
      BY <2>1, <2>2 DEF queue
    <2>4. configMap' = configMap \/ configMap' = FALSE \/ configMap' = TRUE
      BY <1>10, Zenon DEF SecretChanges, ConfigMapRemoved, UserRestores
    <2>5. FlagsTyped'
      BY <2>3, <2>4, Zenon DEF FlagsTyped
    <2>6. WorldTyped'
      BY <2>1, <2>2 DEF WorldTyped
    <2> QED
      BY <2>2, <2>5, <2>6, StoreKept, RequestKept
  <1>11. CASE ParentGone
    <2>1. /\ cluster' = None /\ idp' = None
          /\ UNCHANGED <<kubernetes, queue, pc, request, used>>
          /\ UNCHANGED <<handedOut, secret, configMap, ca, created>>
      BY <1>11 DEF ParentGone, ClusterGone, openshift
    <2>2. WorldTyped'
      BY <2>1 DEF WorldTyped
    <2> QED
      BY <2>1, <2>2, StoreKept, FlagsKept, RequestKept
  <1> QED
    BY <1>1, <1>2, <1>3, <1>4, <1>5, <1>6, <1>7, <1>8, <1>9, <1>10, <1>11 DEF World, ChildWorld

LEMMA InitTyped ==
  ASSUME Init
  PROVE  Typed
  <1>1. queued = FALSE /\ timer = FALSE /\ configMap = TRUE /\ ca = FALSE
    BY DEF Init, ChildInit
  <1>2. FlagsTyped
    BY <1>1, Zenon DEF FlagsTyped
  <1>3. obj \in Objects
    BY NewObjectsTyped DEF Init, ChildInit
  <1>4. StoreTyped /\ RequestTyped /\ WorldTyped
    BY <1>3 DEF Init, ChildInit, StoreTyped, RequestTyped, WorldTyped, Steps
  <1> QED
    BY <1>2, <1>4 DEF Typed

LEMMA StepTyped ==
  ASSUME Typed, [Next]_vars
  PROVE  Typed'
  <1>1. CASE Next
    BY <1>1, ChildStepTyped, PhasesTyped, OutageTyped, EnvironmentTyped DEF Next, ReconcileStep
  <1>2. CASE UNCHANGED vars
    <2>1. /\ UNCHANGED <<kubernetes, queue, pc, request, cluster, used>>
          /\ UNCHANGED <<idp, handedOut, secret, configMap, ca, created>>
      BY <1>2 DEF vars, childVars
    <2> QED
      BY <2>1, StoreKept, FlagsKept, RequestKept, WorldKept DEF Typed
  <1> QED
    BY <1>1, <1>2

LEMMA AlwaysTyped == Spec => []Typed
  <1>1. Init => Typed
    BY InitTyped
  <1>2. Typed /\ [Next]_vars => Typed'
    BY StepTyped
  <1> QED
    BY <1>1, <1>2, PTL DEF Spec

-----------------------------------------------------------------------------
(* What a step does to the object, the copies of it and the identity provider *)

\* The conditions that only a deletion sets.
Marks == {Reconciling("Delete"), IdentityProviderDeleted}

Marked(o) == o # None /\ o.status.conditions \cap Marks # {}

Says(o) == o # None /\ IdentityProviderDeleted \in o.status.conditions

StatusKept(a, b) == Alike(a, b) /\ b.status = a.status

OCMKept == UNCHANGED <<idp, handedOut, created, cluster, used>>

\* The conditions of original, one of them replaced, are stored.
Noted ==
    /\ obj # None /\ obj' # None /\ Alike(obj, obj') /\ Same(obj, obj')
    /\ obj'.status.conditions \cap Marks \subseteq original.status.conditions

\* The call failed, or the operator did.
Failure == "error" \in Environment \/ "crash" \in Environment

Stops ==
    /\ pc' = "Idle" /\ original' = None
    /\ pc = "SaveProviderID" =>
        \/ Failure \/ obj = None
        \/ Refuses(obj.status.provider, original.status.provider, created)
    /\ cache' \in {cache, obj} /\ UNCHANGED obj /\ OCMKept

Reports ==
    /\ pc \in {"UpdateUpstream", "Complete"}
    /\ pc' = "Idle" /\ original' = None /\ Noted
    /\ UNCHANGED cache /\ OCMKept

Starts ==
    /\ pc = "Idle" /\ pc' = "Reconciling"
    /\ cache # None /\ original' = cache
    /\ "lag" \in Environment \/ cache = obj
    /\ UNCHANGED <<obj, cache>> /\ OCMKept

Triggers ==
    /\ pc = "Reconciling" /\ pc' = IF original.deleting THEN "Destroy" ELSE "AddFinalizer"
    /\ \/ UNCHANGED <<obj, original>> /\ (original.deleting => Marked(original))
       \/ /\ obj # None /\ obj' # None /\ Alike(obj, obj') /\ Same(obj, obj') /\ original' = obj'
          /\ ~original.deleting => obj'.status.conditions \cap Marks \subseteq original.status.conditions
          /\ original.deleting => Marked(obj')
          /\ Says(obj') => Says(original)
    /\ UNCHANGED cache /\ OCMKept

Finalizes ==
    /\ pc = "AddFinalizer" /\ pc' = "GetUpstreamCluster"
    /\ \/ original.finalizer /\ UNCHANGED <<obj, original>>
       \/ /\ obj # None /\ obj' # None /\ original' = obj'
          /\ obj'.finalizer /\ obj'.deleting = obj.deleting /\ obj'.status = obj.status
    /\ UNCHANGED cache /\ OCMKept

LooksUp ==
    /\ pc = "GetUpstreamCluster"
    /\ \/ found' = None /\ pc' = "UpdateUpstream"
       \/ found' = cluster /\ cluster # None /\ pc' = "SaveClusterStatus"
       \/ found' = None /\ pc' = "SaveClusterStatus"
    /\ UNCHANGED <<obj, cache, original>> /\ OCMKept

Saves ==
    /\ pc = "SaveClusterStatus" /\ pc' = "UpdateUpstream"
    /\ obj # None /\ obj' # None /\ Alike(obj, obj') /\ original' = obj'
    /\ obj'.status.conditions = obj.status.conditions
    /\ obj'.status.provider = obj.status.provider
    /\ \/ obj'.status.clusterID = obj.status.clusterID
       \/ /\ found # None /\ obj'.status.clusterID = found.id
          /\ "immutable" \in Environment => obj.status.clusterID = NoID
    /\ UNCHANGED cache /\ OCMKept

Checks ==
    /\ pc = "UpdateUpstream" /\ pc' = "GetCurrentState" /\ found # None
    /\ UNCHANGED <<obj, original>> \/ (Noted /\ original' = obj')
    /\ UNCHANGED cache /\ OCMKept

Reads ==
    /\ \/ pc = "GetCurrentState" /\ pc' = "Apply"
       \/ pc = "Apply" /\ pc' = "Complete"
    /\ UNCHANGED <<obj, cache, original>> /\ OCMKept

Creates ==
    /\ pc = "Apply" /\ pc' = "SaveProviderID"
    /\ cluster # None /\ cluster.id = original.status.clusterID
    /\ idp = None /\ idp' # None
    /\ idp'.mine /\ idp'.cluster = cluster.id /\ idp'.id = created'
    /\ created' \in ProviderIDs \ handedOut /\ handedOut' = handedOut \cup {created'}
    /\ UNCHANGED <<obj, cache, original, cluster, used>>

Records ==
    /\ pc = "SaveProviderID" /\ pc' = "Complete"
    /\ obj # None /\ obj' # None /\ Alike(obj, obj') /\ original' = obj'
    /\ obj'.status.conditions = obj.status.conditions
    /\ obj'.status.clusterID = obj.status.clusterID
    /\ obj'.status.provider = Merged(obj.status.provider, original.status.provider, created)
    /\ UNCHANGED cache /\ OCMKept

Destroys ==
    /\ pc = "Destroy"
    /\ \/ pc' = "DeleteIDP"
       \/ pc' = "RemoveFinalizer" /\ (Says(original) \/ idp = None)
    /\ UNCHANGED <<obj, cache, original>> /\ OCMKept

Deletes ==
    /\ pc = "DeleteIDP" /\ pc' = "NotifyDeleted"
    /\ idp' = IF UpstreamExists /\ idp # None /\ idp.id = original.status.provider
              THEN None ELSE idp
    /\ UNCHANGED <<obj, cache, original, handedOut, created, cluster, used>>

Notifies ==
    /\ pc = "NotifyDeleted" /\ pc' = "RemoveFinalizer"
    /\ \/ UNCHANGED <<obj, original>>
       \/ /\ obj # None /\ obj' # None /\ Alike(obj, obj') /\ Same(obj, obj') /\ original' = obj'
          /\ Says(obj')
    /\ UNCHANGED cache /\ OCMKept

Releases ==
    /\ pc = "RemoveFinalizer" /\ pc' = "Idle" /\ original' = None
    /\ obj # None /\ (obj.deleting => obj' = None)
    /\ obj' # None => obj'.status = obj.status
    /\ UNCHANGED cache /\ OCMKept

Syncs ==
    /\ pc = "Idle" \/ "lag" \in Environment
    /\ cache' = obj
    /\ UNCHANGED <<obj, original, pc, found>> /\ OCMKept

Edits ==
    /\ obj # None /\ obj' # None /\ StatusKept(obj, obj')
    /\ UNCHANGED <<cache, original, pc, found>> /\ OCMKept

Removes ==
    /\ obj # None /\ ~obj.deleting
    /\ IF obj.finalizer
       THEN obj' # None /\ obj'.deleting /\ obj'.finalizer /\ obj'.status = obj.status
       ELSE obj' = None
    /\ UNCHANGED <<cache, original, pc, found>> /\ OCMKept

Recreates ==
    /\ "recreate" \in Environment
    /\ obj = None /\ obj' # None
    /\ ~obj'.deleting /\ ~obj'.finalizer
    /\ obj'.status.conditions = {} /\ obj'.status.provider = NoID
    /\ UNCHANGED <<cache, original, pc, found>> /\ OCMKept

\* The cluster keeps its id, goes with what it holds, or comes with a new id.
Turns ==
    /\ \/ idp' = idp /\ cluster' = cluster
       \/ idp' = idp /\ cluster # None /\ cluster' # None /\ cluster'.id = cluster.id
       \/ idp' = idp /\ cluster = None /\ cluster'.id \notin used
       \/ idp' = None /\ cluster' = None
       \/ idp' = None /\ cluster' = cluster /\ "others" \in Environment
    /\ used \subseteq used'
    /\ UNCHANGED <<obj, cache, original, pc, found, handedOut, created>>

Intrudes ==
    /\ "others" \in Environment
    /\ idp = None /\ ~idp'.mine
    /\ idp'.id \in ProviderIDs \ handedOut /\ handedOut' = handedOut \cup {idp'.id}
    /\ UNCHANGED <<obj, cache, original, pc, found, created, cluster, used>>

Effect ==
    \/ Stops \/ Reports \/ Starts \/ Triggers \/ Finalizes \/ LooksUp \/ Saves \/ Checks
    \/ Reads \/ Creates \/ Records \/ Destroys \/ Deletes \/ Notifies \/ Releases
    \/ Syncs \/ Edits \/ Removes \/ Recreates \/ Turns \/ Intrudes

LEMMA StopsOnReturn ==
  ASSUME NEW b, Return(b), UNCHANGED <<obj, cache>>, OCMKept, pc # "SaveProviderID"
  PROVE  Stops
  BY DEF Return, Stops

LEMMA StopsOnGone ==
  ASSUME Gone, UNCHANGED cache, OCMKept
  PROVE  Stops
  BY DEF Gone, Return, Stops

\* Every step has one of these effects.
LEMMA EffectOfReconcile ==
  ASSUME Typed, ReconcileStep
  PROVE  Effect
  <1> USE DEF Typed, ocm, openshift
  <1>0. ASSUME UnchangedHere, UNCHANGED <<cluster, used>>
        PROVE  OCMKept
    BY <1>0 DEF UnchangedHere, OCMKept
  <1>1. CASE ReconcileTrigger /\ UnchangedHere
    <2> DEFINE trigger == GetTrigger(original.deleting)
               next == IF trigger = "Delete" THEN "Destroy" ELSE "AddFinalizer"
               c == Reconciling(trigger)
    <2>1. pc = "Reconciling" /\ cache' = cache /\ OCMKept /\ UpdateCondition(c, next)
      BY <1>0, <1>1 DEF ReconcileTrigger
    <2>2. original \in Objects /\ original # None /\ original.deleting \in BOOLEAN
      BY <2>1, ObjectNotNone DEF RequestTyped, Objects
    <2>3. c \in AllConditions
      BY DEF GetTrigger, AllConditions, CommonConditions
    <2>4. /\ next = IF original.deleting THEN "Destroy" ELSE "AddFinalizer"
          /\ original.deleting => c \in Marks
          /\ ~original.deleting => c \notin Marks
          /\ c # IdentityProviderDeleted
      BY <2>2 DEF GetTrigger, Marks, IdentityProviderDeleted, Reconciling, Condition
    <2> HIDE DEF c, next
    <2>5. \/ /\ c \in original.status.conditions
             /\ Goto(next) /\ UNCHANGED <<obj, request>>
          \/ Gone
          \/ /\ Patched(next) /\ Same(obj, obj')
             /\ obj'.status.conditions = AddCondition(original.status.conditions, c)
      BY <2>1, <2>2, <2>3, UpdateConditionFacts
    <2>6. CASE c \in original.status.conditions /\ Goto(next) /\ UNCHANGED <<obj, request>>
      <3>1. Triggers
        BY <1>1, <2>1, <2>2, <2>4, <2>6 DEF Triggers, Goto, request, Marked
      <3> QED
        BY <3>1 DEF Effect
    <2>7. CASE Gone
      BY <2>1, <2>7, StopsOnGone DEF Effect
    <2>8. CASE /\ Patched(next) /\ Same(obj, obj')
               /\ obj'.status.conditions = AddCondition(original.status.conditions, c)
      <3>1. \A d \in obj'.status.conditions : d \in original.status.conditions \/ d = c
        BY <2>8, AddConditionKeeps
      <3>2. obj # None /\ obj' # None
        BY <2>8, ObjectNotNone DEF Patched
      <3>3. ~original.deleting => obj'.status.conditions \cap Marks \subseteq original.status.conditions
        BY <2>4, <3>1
      <3>4. Says(obj') => Says(original)
        BY <2>2, <2>4, <3>1 DEF Says
      <3>5. original.deleting => Marked(obj')
        BY <2>4, <2>8, <3>2 DEF Marked, AddCondition
      <3>6. Triggers
        BY <2>1, <2>4, <2>8, <3>2, <3>3, <3>4, <3>5 DEF Triggers, Patched, Goto
      <3> QED
        BY <3>6 DEF Effect
    <2> QED
      BY <2>5, <2>6, <2>7, <2>8
  <1>2. CASE AddFinalizer /\ UnchangedHere
    <2>1. pc = "AddFinalizer" /\ cache' = cache /\ OCMKept
      BY <1>0, <1>2 DEF AddFinalizer
    <2>2. CASE original.finalizer
      <3>1. Finalizes
        BY <1>2, <2>1, <2>2 DEF AddFinalizer, Finalizes, Goto, request
      <3> QED
        BY <3>1 DEF Effect
    <2>3. CASE ~original.finalizer /\ obj = None
      <3>1. Stops
        BY <1>2, <2>1, <2>3 DEF AddFinalizer, Stops, Return
      <3> QED
        BY <3>1 DEF Effect
    <2>4. CASE ~original.finalizer /\ obj # None
      <3>1. /\ obj' = [obj EXCEPT !.finalizer = TRUE] /\ original' = obj'
            /\ pc' = "GetUpstreamCluster"
        BY <1>2, <2>4 DEF AddFinalizer, Goto
      <3>2. obj \in Objects
        BY <2>4 DEF StoreTyped
      <3>3. /\ obj' \in Objects /\ obj'.finalizer /\ obj'.deleting = obj.deleting
            /\ obj'.status = obj.status
        BY <3>1, <3>2, WithFinalizer
      <3>4. obj' # None
        BY <3>3, ObjectNotNone
      <3>5. Finalizes
        BY <1>2, <2>1, <2>4, <3>1, <3>3, <3>4 DEF Finalizes
      <3> QED
        BY <3>5 DEF Effect
    <2> QED
      BY <2>2, <2>3, <2>4
  <1>3. CASE GetUpstreamCluster /\ UnchangedHere
    <2>1. OCMKept
      BY <1>0, <1>3 DEF GetUpstreamCluster
    <2>2. LooksUp
      BY <1>3, <2>1 DEF GetUpstreamCluster, LooksUp, Goto, kubernetes
    <2> QED
      BY <2>2 DEF Effect
  <1>4. ASSUME NEW c \in AllConditions \ Marks, UpdateConditionAndReturn(c),
               pc \in {"UpdateUpstream", "Complete"}, cache' = cache, OCMKept
        PROVE  Effect
    <2>1. original \in Objects
      BY <1>4 DEF RequestTyped
    <2>2. /\ Return(TRUE)
          /\ \/ obj' = obj
             \/ /\ obj \in Objects /\ obj' \in Objects
                /\ Alike(obj, obj') /\ Same(obj, obj')
                /\ obj'.status.conditions = AddCondition(original.status.conditions, c)
      BY <1>4, <2>1, UpdateConditionAndReturnFacts
    <2>3. CASE obj' = obj
      BY <1>4, <2>2, <2>3, StopsOnReturn DEF Effect
    <2>4. CASE /\ obj \in Objects /\ obj' \in Objects
               /\ Alike(obj, obj') /\ Same(obj, obj')
               /\ obj'.status.conditions = AddCondition(original.status.conditions, c)
      <3>1. obj # None /\ obj' # None
        BY <2>4, ObjectNotNone
      <3>2. obj'.status.conditions \cap Marks \subseteq original.status.conditions
        BY <1>4, <2>4, AddConditionKeeps
      <3>3. Reports
        BY <1>4, <2>2, <2>4, <3>1, <3>2 DEF Reports, Noted, Return
      <3> QED
        BY <3>3 DEF Effect
    <2> QED
      BY <2>2, <2>3, <2>4
  <1>5. CASE UpdateUpstream /\ UnchangedHere
    <2> DEFINE c == UpstreamCluster("Create", found # None)
    <2>1. /\ pc = "UpdateUpstream" /\ cache' = cache /\ OCMKept
          /\ \/ found # None /\ UpdateCondition(c, "GetCurrentState")
             \/ UpdateConditionAndReturn(c)
      BY <1>0, <1>5 DEF UpdateUpstream
    <2>2. c \in AllConditions \ Marks
      BY DEF AllConditions, CommonConditions, Marks, IdentityProviderDeleted, Reconciling,
             UpstreamCluster, Condition
    <2> HIDE DEF c
    <2>3. CASE found # None /\ UpdateCondition(c, "GetCurrentState")
      <3>1. original \in Objects
        BY <2>1 DEF RequestTyped
      <3>2. \/ Goto("GetCurrentState") /\ UNCHANGED <<obj, request>>
            \/ Gone
            \/ /\ Patched("GetCurrentState") /\ Same(obj, obj')
               /\ obj'.status.conditions = AddCondition(original.status.conditions, c)
        BY <2>2, <2>3, <3>1, UpdateConditionFacts
      <3>3. CASE Goto("GetCurrentState") /\ UNCHANGED <<obj, request>>
        <4>1. Checks
          BY <1>5, <2>1, <2>3, <3>3 DEF Checks, Goto, request
        <4> QED
          BY <4>1 DEF Effect
      <3>4. CASE Gone
        BY <1>5, <2>1, <3>4, StopsOnGone DEF Effect
      <3>5. CASE /\ Patched("GetCurrentState") /\ Same(obj, obj')
                 /\ obj'.status.conditions = AddCondition(original.status.conditions, c)
        <4>1. obj'.status.conditions \cap Marks \subseteq original.status.conditions
          BY <2>2, <3>5, AddConditionKeeps
        <4>2. obj # None /\ obj' # None
          BY <3>5, ObjectNotNone DEF Patched
        <4>3. Checks
          BY <1>5, <2>1, <2>3, <3>5, <4>1, <4>2 DEF Checks, Noted, Patched, Goto
        <4> QED
          BY <4>3 DEF Effect
      <3> QED
        BY <3>2, <3>3, <3>4, <3>5
    <2> QED
      BY <1>4, <1>5, <2>1, <2>2, <2>3
  <1>6. CASE Complete /\ UnchangedHere
    <2>1. Reconciled("Create") \in AllConditions \ Marks
      BY DEF AllConditions, CommonConditions, Marks, IdentityProviderDeleted, Reconciling, Reconciled,
             Condition
    <2> QED
      BY <1>0, <1>4, <1>6, <2>1 DEF Complete
  <1>7. CASE RemoveFinalizer /\ UnchangedHere
    <2>1. OCMKept /\ cache' = cache /\ pc = "RemoveFinalizer"
      BY <1>0, <1>7 DEF RemoveFinalizer
    <2>2. CASE original.finalizer /\ obj # None
      <3>1. obj # None => obj \in Objects
        BY DEF StoreTyped
      <3>2. obj' # None => obj'.status = obj.status
        BY <1>7, <2>2, <3>1, WithFinalizer DEF RemoveFinalizer
      <3>3. Releases
        BY <1>7, <2>1, <2>2, <3>2 DEF RemoveFinalizer, Releases, Return
      <3> QED
        BY <3>3 DEF Effect
    <2>3. CASE ~(original.finalizer /\ obj # None)
      <3>1. Stops
        BY <1>7, <2>1, <2>3 DEF RemoveFinalizer, Stops, Return
      <3> QED
        BY <3>1 DEF Effect
    <2> QED
      BY <2>2, <2>3
  <1>8. CASE NewRequest
    <2>1. OCMKept /\ UNCHANGED kubernetes
      BY <1>8 DEF NewRequest, Dequeue, OCMKept
    <2>2. CASE cache # None /\ Accept
      <3>1. Starts
        BY <1>8, <2>1, <2>2 DEF NewRequest, Dequeue, Accept, Starts, kubernetes
      <3> QED
        BY <3>1 DEF Effect
    <2>3. CASE \E retry : Reject(retry)
      <3>1. Turns
        BY <1>8, <2>1, <2>3 DEF NewRequest, Dequeue, Reject, Turns, OCMKept, kubernetes
      <3> QED
        BY <3>1 DEF Effect
    <2> QED
      BY <1>8, <2>2, <2>3 DEF NewRequest, NewRequestGitLab, NewRequestLDAP
  <1>9. CASE SaveUpstreamCluster
    <2> DEFINE to == SetClusterStatus(original.status, found)
    <2>1. /\ pc = "SaveClusterStatus" /\ cache' = cache /\ OCMKept
          /\ \/ Return(TRUE) /\ obj' = obj
             \/ /\ PatchStatus(to, "UpdateUpstream")
                /\ obj = None
                   \/ ~Refuses(obj.status.clusterID, original.status.clusterID, to.clusterID)
      BY <1>9 DEF SaveUpstreamCluster, SaveClusterStatus, OCMKept
    <2>2. original \in Objects /\ original.status \in Status /\ found \in Clusters \cup {None}
      BY <2>1 DEF RequestTyped, Objects
    <2>3. /\ to \in Status /\ to.conditions = original.status.conditions
          /\ to.provider = original.status.provider
          /\ to.clusterID = IF found # None /\ original.status.clusterID = NoID
                            THEN found.id ELSE original.status.clusterID
      BY <2>2, SetClusterStatusFacts
    <2> HIDE DEF to
    <2>4. CASE Return(TRUE) /\ obj' = obj
      BY <2>1, <2>4, StopsOnReturn DEF Effect
    <2>5. CASE /\ PatchStatus(to, "UpdateUpstream")
               /\ obj = None
                  \/ ~Refuses(obj.status.clusterID, original.status.clusterID, to.clusterID)
      <3>1. \/ Gone
            \/ /\ Patched("UpdateUpstream")
               /\ obj'.status.clusterID
                    = Merged(obj.status.clusterID, original.status.clusterID, to.clusterID)
               /\ obj'.status.provider
                    = Merged(obj.status.provider, original.status.provider, to.provider)
               /\ obj'.status.conditions
                    = Merged(obj.status.conditions, original.status.conditions, to.conditions)
        BY <2>2, <2>3, <2>5, PatchStatusFacts
      <3>2. CASE Gone
        BY <2>1, <3>2, StopsOnGone DEF Effect
      <3>3. CASE /\ Patched("UpdateUpstream")
                 /\ obj'.status.clusterID
                      = Merged(obj.status.clusterID, original.status.clusterID, to.clusterID)
                 /\ obj'.status.provider
                      = Merged(obj.status.provider, original.status.provider, to.provider)
                 /\ obj'.status.conditions
                      = Merged(obj.status.conditions, original.status.conditions, to.conditions)
        <4>1. obj # None /\ obj' # None
          BY <3>3, ObjectNotNone DEF Patched
        <4>2. \/ obj'.status.clusterID = obj.status.clusterID
              \/ /\ found # None /\ obj'.status.clusterID = found.id
                 /\ "immutable" \in Environment => obj.status.clusterID = NoID
          BY <2>3, <2>5, <3>3, <4>1 DEF Merged, Refuses
        <4>3. /\ obj'.status.provider = obj.status.provider
              /\ obj'.status.conditions = obj.status.conditions
          BY <2>3, <3>3 DEF Merged
        <4>4. Saves
          BY <2>1, <3>3, <4>1, <4>2, <4>3 DEF Saves, Patched, Goto
        <4> QED
          BY <4>4 DEF Effect
      <3> QED
        BY <3>1, <3>2, <3>3
    <2> QED
      BY <2>1, <2>4, <2>5
  <1>10. CASE GetCurrentState
    <2>1. OCMKept
      BY <1>10 DEF GetCurrentState, OCMKept
    <2>2. Stops \/ Reads
      BY <1>10, <2>1 DEF GetCurrentState, Stops, Reads, Return, Goto, kubernetes
    <2> QED
      BY <2>2 DEF Effect
  <1>11. CASE ApplyIdentityProvider
    <2>1. UNCHANGED <<obj, cache, cluster, used>> /\ pc = "Apply"
      BY <1>11 DEF ApplyIdentityProvider, Create, Update, AlreadyApplied, kubernetes
    <2>2. CASE Return(TRUE) /\ UNCHANGED <<idp, handedOut, created>>
      <3>1. OCMKept
        BY <2>1, <2>2 DEF OCMKept
      <3> QED
        BY <2>1, <2>2, <3>1, StopsOnReturn DEF Effect
    <2>3. CASE AlreadyApplied
      <3>1. Reads
        BY <2>1, <2>3 DEF AlreadyApplied, Goto, Reads, request, OCMKept
      <3> QED
        BY <3>1 DEF Effect
    <2>4. ASSUME NEW id \in ProviderIDs \ handedOut,
                 UpstreamExists, idp = None,
                 idp' = [id |-> id, cluster |-> cluster.id, spec |-> desired, ca |-> ca,
                         mine |-> TRUE],
                 handedOut' = handedOut \cup {id}, created' = id,
                 Goto("SaveProviderID"), UNCHANGED request
          PROVE  Effect
      <3>1. cluster.id \in ClusterIDs /\ desired \in Specs
        BY <2>1, <2>4 DEF UpstreamExists, WorldTyped, Clusters, RequestTyped
      <3>2. ca \in BOOLEAN
        BY DEF FlagsTyped
      <3>3. idp' \in Providers
        BY <2>4, <3>1, <3>2 DEF Providers
      <3>4. idp' # None /\ idp'.id = id /\ idp'.mine /\ idp'.cluster = cluster.id
        BY <2>4, <3>3, NoneAssumption
      <3>5. Creates
        BY <2>1, <2>4, <3>4 DEF Creates, UpstreamExists, Goto, request
      <3> QED
        BY <3>5 DEF Effect
    <2>5. CASE Create
      BY <2>2, <2>4, <2>5 DEF Create
    <2>6. CASE Update
      BY <2>2, <2>6 DEF Update
    <2> QED
      BY <1>11, <2>3, <2>5, <2>6 DEF ApplyIdentityProvider
  <1>12. CASE SaveProviderID
    <2> DEFINE to == [original.status EXCEPT !.provider = created]
    <2>1. /\ pc = "SaveProviderID" /\ cache' = cache /\ OCMKept
          /\ \/ /\ Return(TRUE) /\ obj' = obj
                /\ Refuses(obj.status.provider, original.status.provider, created)
             \/ PatchStatus(to, "Complete")
      BY <1>12 DEF SaveProviderID, OCMKept
    <2>2. /\ original \in Objects /\ original.status \in Status
          /\ created \in ProviderIDs \cup {NoID}
      BY <2>1 DEF RequestTyped, Objects, WorldTyped
    <2>3. /\ to \in Status /\ to.provider = created
          /\ to.clusterID = original.status.clusterID
          /\ to.conditions = original.status.conditions
      BY <2>2, WithProvider
    <2> HIDE DEF to
    <2>4. CASE /\ Return(TRUE) /\ obj' = obj
               /\ Refuses(obj.status.provider, original.status.provider, created)
      <3>1. Stops
        BY <2>1, <2>4 DEF Stops, Return
      <3> QED
        BY <3>1 DEF Effect
    <2>5. CASE PatchStatus(to, "Complete")
      <3>1. \/ Gone
            \/ /\ Patched("Complete")
               /\ obj'.status.clusterID
                    = Merged(obj.status.clusterID, original.status.clusterID, to.clusterID)
               /\ obj'.status.provider
                    = Merged(obj.status.provider, original.status.provider, to.provider)
               /\ obj'.status.conditions
                    = Merged(obj.status.conditions, original.status.conditions, to.conditions)
        BY <2>2, <2>3, <2>5, PatchStatusFacts
      <3>2. CASE Gone
        BY <2>1, <3>2, StopsOnGone DEF Effect
      <3>3. CASE /\ Patched("Complete")
                 /\ obj'.status.clusterID
                      = Merged(obj.status.clusterID, original.status.clusterID, to.clusterID)
                 /\ obj'.status.provider
                      = Merged(obj.status.provider, original.status.provider, to.provider)
                 /\ obj'.status.conditions
                      = Merged(obj.status.conditions, original.status.conditions, to.conditions)
        <4>1. obj # None /\ obj' # None
          BY <3>3, ObjectNotNone DEF Patched
        <4>2. /\ obj'.status.clusterID = obj.status.clusterID
              /\ obj'.status.conditions = obj.status.conditions
          BY <2>3, <3>3 DEF Merged
        <4>3. Records
          BY <2>1, <2>3, <3>3, <4>1, <4>2 DEF Records, Patched, Goto
        <4> QED
          BY <4>3 DEF Effect
      <3> QED
        BY <3>1, <3>2, <3>3
    <2> QED
      BY <2>1, <2>4, <2>5
  <1>13. CASE Destroy
    <2>1. pc = "Destroy" /\ original # None /\ UNCHANGED <<obj, cache, original>> /\ OCMKept
      BY <1>13, ObjectNotNone DEF Destroy, kubernetes, request, RequestTyped, OCMKept
    <2>2. \/ pc' = "DeleteIDP"
          \/ pc' = "RemoveFinalizer" /\ (Says(original) \/ cluster = None)
      BY <1>13, <2>1 DEF Destroy, Goto, Says, IsSet
    <2>3. Destroys
      BY <2>1, <2>2 DEF Destroys, WorldTyped
    <2> QED
      BY <2>3 DEF Effect
  <1>14. CASE DeleteIDP
    <2>1. Deletes
      BY <1>14 DEF DeleteIDP, Deletes, Goto, kubernetes, request
    <2> QED
      BY <2>1 DEF Effect
  <1>15. CASE DeleteIDPRefused
    <2>1. OCMKept
      BY <1>15 DEF DeleteIDPRefused, OCMKept
    <2> QED
      BY <1>15, <2>1, StopsOnReturn DEF DeleteIDPRefused, kubernetes, Effect
  <1>16. CASE NotifyDeleted
    <2>1. /\ pc = "NotifyDeleted" /\ cache' = cache /\ OCMKept
          /\ UpdateCondition(IdentityProviderDeleted, "RemoveFinalizer")
      BY <1>16 DEF NotifyDeleted, OCMKept
    <2>2. original \in Objects /\ IdentityProviderDeleted \in AllConditions
      BY <2>1 DEF RequestTyped, AllConditions
    <2>3. \/ Goto("RemoveFinalizer") /\ UNCHANGED <<obj, request>>
          \/ Gone
          \/ /\ Patched("RemoveFinalizer") /\ Same(obj, obj')
             /\ obj'.status.conditions
                  = AddCondition(original.status.conditions, IdentityProviderDeleted)
      BY <2>1, <2>2, UpdateConditionFacts
    <2>4. CASE Gone
      BY <2>1, <2>4, StopsOnGone DEF Effect
    <2>5. CASE Goto("RemoveFinalizer") /\ UNCHANGED <<obj, request>>
      <3>1. Notifies
        BY <2>1, <2>5 DEF Notifies, Goto, request
      <3> QED
        BY <3>1 DEF Effect
    <2>6. CASE /\ Patched("RemoveFinalizer") /\ Same(obj, obj')
               /\ obj'.status.conditions
                    = AddCondition(original.status.conditions, IdentityProviderDeleted)
      <3>1. obj # None /\ obj' # None
        BY <2>6, ObjectNotNone DEF Patched
      <3>2. Says(obj')
        BY <2>6, <3>1 DEF Says, AddCondition
      <3>3. Notifies
        BY <2>1, <2>6, <3>1, <3>2 DEF Notifies, Patched, Goto
      <3> QED
        BY <3>3 DEF Effect
    <2> QED
      BY <2>3, <2>4, <2>5, <2>6
  <1> QED
    BY <1>1, <1>2, <1>3, <1>5, <1>6, <1>7, <1>8, <1>9, <1>10, <1>11, <1>12, <1>13, <1>14, <1>15,
       <1>16
    DEF ReconcileStep, ChildStep

LEMMA EffectOfWorld ==
  ASSUME Typed, Outage \/ World \/ UNCHANGED vars
  PROVE  Effect
  <1> USE DEF Typed, ocm, openshift
  <1>0. ASSUME UnchangedHere, UNCHANGED <<cluster, used>>
        PROVE  OCMKept
    BY <1>0 DEF UnchangedHere, OCMKept
  <1>1. CASE GetUpstreamClusterFails /\ UnchangedHere
    <2>1. OCMKept
      BY <1>0, <1>1 DEF GetUpstreamClusterFails
    <2>2. LooksUp
      BY <1>1, <2>1 DEF GetUpstreamClusterFails, LooksUp, Goto, kubernetes
    <2> QED
      BY <2>2 DEF Effect
  <1>2. CASE (CallFails \/ Crash) /\ UnchangedHere
    <2>1. OCMKept /\ Failure
      BY <1>0, <1>2 DEF CallFails, Crash, Failure
    <2>2. Stops
      BY <1>2, <2>1 DEF CallFails, Crash, Return, Stops, kubernetes
    <2> QED
      BY <2>2 DEF Effect
  <1>3. CASE SyncCache /\ UnchangedHere
    <2>1. OCMKept
      BY <1>0, <1>3 DEF SyncCache
    <2>2. Syncs
      BY <1>3, <2>1 DEF SyncCache, Syncs, request
    <2> QED
      BY <2>2 DEF Effect
  <1>4. CASE UserEdits /\ UnchangedHere
    <2>1. obj \in Objects /\ obj # None /\ obj.generation < MaxGeneration /\ OCMKept
      BY <1>0, <1>4 DEF UserEdits, StoreTyped
    <2>2. PICK spec \in Specs : obj' = [obj EXCEPT !.generation = obj.generation + 1, !.spec = spec]
      BY <1>4 DEF UserEdits
    <2>3. obj' \in Objects /\ StatusKept(obj, obj')
      BY <2>1, <2>2, WithSpec DEF StatusKept, Alike
    <2>4. Edits
      BY <1>4, <2>1, <2>3, ObjectNotNone DEF UserEdits, Edits, request
    <2> QED
      BY <2>4 DEF Effect
  <1>5. CASE UserDeletes /\ UnchangedHere
    <2>1. obj \in Objects /\ obj # None /\ OCMKept
      BY <1>0, <1>5 DEF UserDeletes, StoreTyped
    <2>2. obj.finalizer => /\ obj' \in Objects /\ obj'.deleting /\ obj'.finalizer
                           /\ obj'.status = obj.status
      BY <1>5, <2>1, WithDeleting DEF UserDeletes
    <2>3. Removes
      BY <1>5, <2>1, <2>2, ObjectNotNone DEF UserDeletes, Removes, request
    <2> QED
      BY <2>3 DEF Effect
  <1>6. CASE UserRecreates(NewObjects) /\ UnchangedHere
    <2>1. OCMKept
      BY <1>0, <1>6 DEF UserRecreates
    <2>2. Recreates
      BY <1>6, <2>1, NewObjectsTyped DEF UserRecreates, Recreates, request
    <2> QED
      BY <2>2 DEF Effect
  <1>7. CASE ClusterAppears /\ UnchangedHere
    <2>1. PICK id \in ClusterIDs \ used :
            cluster' = [id |-> id, state |-> "installing"] /\ used' = used \cup {id}
      BY <1>7 DEF ClusterAppears
    <2>2. cluster'.id \notin used /\ used \subseteq used'
      BY <2>1
    <2>3. Turns
      BY <1>7, <2>2 DEF ClusterAppears, UnchangedHere, Turns, kubernetes, request
    <2> QED
      BY <2>3 DEF Effect
  <1>8. CASE (ClusterInstalled \/ ClusterUninstalls) /\ UnchangedHere
    <2>1. cluster \in Clusters /\ cluster # None
      BY <1>8 DEF ClusterInstalled, ClusterUninstalls, WorldTyped
    <2>2. cluster' \in Clusters /\ cluster'.id = cluster.id
      BY <1>8, <2>1 DEF ClusterInstalled, ClusterUninstalls, Clusters
    <2>3. cluster' # None
      BY <2>2, NoneAssumption
    <2>4. Turns
      BY <1>8, <2>1, <2>2, <2>3
      DEF ClusterInstalled, ClusterUninstalls, UnchangedHere, Turns, kubernetes, request
    <2> QED
      BY <2>4 DEF Effect
  <1>9. CASE \/ TimerFires /\ UnchangedHere
             \/ OthersRemoveIDP \/ SecretChanges \/ ConfigMapRemoved \/ UserRestores
             \/ ParentGone \/ UNCHANGED vars
    <2>1. Turns
      BY <1>9 DEF TimerFires, OthersRemoveIDP, SecretChanges, ConfigMapRemoved, UserRestores,
                  ParentGone, ClusterGone, UnchangedHere, Turns, vars, childVars, kubernetes, request
    <2> QED
      BY <2>1 DEF Effect
  <1>10. CASE OthersCreateIDP
    <2>1. PICK id \in ProviderIDs \ handedOut, spec \in Specs :
            /\ idp' = [id |-> id, cluster |-> cluster.id, spec |-> spec, ca |-> spec.ca,
                       mine |-> FALSE]
            /\ handedOut' = handedOut \cup {id}
      BY <1>10 DEF OthersCreateIDP
    <2>2. idp'.id = id /\ ~idp'.mine
      BY <2>1
    <2>3. Intrudes
      BY <1>10, <2>1, <2>2 DEF OthersCreateIDP, Intrudes, childVars, kubernetes, request
    <2> QED
      BY <2>3 DEF Effect
  <1> QED
    BY <1>1, <1>2, <1>3, <1>4, <1>5, <1>6, <1>7, <1>8, <1>9, <1>10
    DEF Outage, ChildOutage, World, ChildWorld

LEMMA StepEffect ==
  ASSUME Typed, [Next]_vars
  PROVE  Effect
  BY EffectOfReconcile, EffectOfWorld DEF Next

-----------------------------------------------------------------------------
(* The recorded ids *)

\* An identity provider that another tool created has this id.
Foreign(id) == idp # None /\ ~idp.mine /\ idp.id = id

KnownID(id) == id \in handedOut \cup {NoID} /\ ~Foreign(id)

\* The ids that the object and its copies have come from an answer of OCM to the
\* operator: none is the id of an identity provider that another tool created.
IdsInv ==
    /\ KnownID(created)
    /\ obj # None => KnownID(obj.status.provider)
    /\ cache # None => KnownID(cache.status.provider)
    /\ original # None => KnownID(original.status.provider)

\* What is known stays known.
LEMMA KnownIDKept ==
  ASSUME Typed, Effect, NEW id, KnownID(id)
  PROVE  KnownID(id)'
  <1>1. CASE Creates
    BY <1>1 DEF Creates, KnownID, Foreign
  <1>2. CASE Intrudes
    BY <1>2, IdentityProviderAssumption DEF Intrudes, KnownID, Foreign
  <1>3. CASE Turns
    BY <1>3 DEF Turns, KnownID, Foreign
  <1>4. CASE Deletes
    BY <1>4 DEF Deletes, KnownID, Foreign
  <1>5. CASE OCMKept
    BY <1>5 DEF OCMKept, KnownID, Foreign
  <1> QED
    BY <1>1, <1>2, <1>3, <1>4, <1>5
    DEF Effect, Stops, Reports, Starts, Triggers, Finalizes, LooksUp, Saves, Checks, Reads, Records,
        Destroys, Notifies, Releases, Syncs, Edits, Removes, Recreates

LEMMA IdsKept ==
  ASSUME Typed, IdsInv, Effect
  PROVE  IdsInv'
  <1>0. pc # "Idle" => original # None
    BY ObjectNotNone DEF Typed, RequestTyped
  <1>1. KnownID(created)'
    <2>1. CASE Creates
      BY <2>1 DEF Creates, KnownID, Foreign
    <2>2. CASE created' = created
      <3>1. \A id : KnownID(id) => KnownID(id)'
        BY KnownIDKept
      <3> QED
        BY <2>2, <3>1 DEF IdsInv, KnownID, Foreign
    <2> QED
      BY <2>1, <2>2
      DEF Effect, Stops, Reports, Starts, Triggers, Finalizes, LooksUp, Saves, Checks, Reads, Records,
          Destroys, Deletes, Notifies, Releases, Syncs, Edits, Removes, Recreates, Turns, Intrudes,
          OCMKept
  <1>2. /\ obj' # None => \/ obj # None /\ obj'.status.provider = obj.status.provider
                          \/ obj'.status.provider \in {NoID, created}
        /\ cache' # None => cache' \in {cache, obj}
        /\ original' # None => original' \in {original, cache, obj'}
    BY <1>0
    DEF Effect, Stops, Reports, Starts, Triggers, Finalizes, LooksUp, Saves, Checks, Reads, Creates,
        Records, Destroys, Deletes, Notifies, Releases, Syncs, Edits, Removes, Recreates, Turns,
        Intrudes, Noted, StatusKept, Same, Merged
  <1>3. KnownID(NoID)
    BY IdentityProviderAssumption DEF KnownID, Foreign, Typed, WorldTyped
  <1>4. /\ obj' # None => KnownID(obj'.status.provider)
        /\ cache' # None => KnownID(cache'.status.provider)
        /\ original' # None => original' = obj' \/ KnownID(original'.status.provider)
    BY <1>2, <1>3 DEF IdsInv
  <1>5. \A id : KnownID(id) => KnownID(id)'
    BY KnownIDKept
  <1>6. /\ obj' # None => KnownID(obj.status.provider)'
        /\ cache' # None => KnownID(cache.status.provider)'
        /\ original' # None => KnownID(original.status.provider)'
    BY <1>4, <1>5 DEF KnownID, Foreign
  <1> QED
    BY <1>1, <1>6 DEF IdsInv

LEMMA AlwaysKnown == Spec => []IdsInv
  <1>1. Init => IdsInv
    BY NewObjectsTyped DEF Init, ChildInit, IdsInv, KnownID, Foreign
  <1>2. Typed /\ IdsInv /\ [Next]_vars => IdsInv'
    BY StepEffect, IdsKept
  <1> QED
    BY <1>1, <1>2, AlwaysTyped, PTL DEF Spec

\* Every variable of the identity provider reconcilers holds a value of its type,
\* in every environment; an identity provider exists only in a cluster, and the
\* id in the status is one that OCM gave out.
THEOREM TypeCorrect == Spec => []TypeOK
  <1>1. Typed /\ IdsInv => TypeOK
    BY DEF Typed, StoreTyped, FlagsTyped, RequestTyped, WorldTyped, Copies, IdsInv, KnownID, TypeOK
  <1> QED
    BY <1>1, AlwaysTyped, AlwaysKnown, PTL

\* Destroy goes by the id in the status, and that id is the operator's own in
\* every environment: with a stale cache, after a failed call or a crash, and when
\* other tools create and remove identity providers of the same name.
THEOREM OthersNotDeleted == Spec => OnlyOwnDeleted
  <1>1. ASSUME Typed, IdsInv
        PROVE  [DeleteIDP /\ idp' # idp => idp.mine]_vars
    <2>1. SUFFICES ASSUME DeleteIDP, idp' # idp PROVE idp.mine
      OBVIOUS
    <2>2. idp # None /\ idp.id = original.status.provider /\ pc = "DeleteIDP"
      BY <2>1 DEF DeleteIDP
    <2>3. original # None
      BY <1>1, <2>2, ObjectNotNone DEF Typed, RequestTyped
    <2> QED
      BY <1>1, <2>2, <2>3 DEF IdsInv, KnownID, Foreign
  <1> QED
    BY <1>1, AlwaysTyped, AlwaysKnown, PTL DEF OnlyOwnDeleted

-----------------------------------------------------------------------------
(* The inductive invariant *)

Updating == pc \in UpdatePath \/ (pc = "Reconciling" /\ ~original.deleting)

Deleting == pc \in DeletePath \/ (pc = "Reconciling" /\ original.deleting)

\* A reconcile works towards a deletion, and marks the object, only when the
\* object is being deleted as well.  A cache that lags behind has at least seen
\* the deletion before the marks were set.
DeletionInv ==
    /\ Marked(obj) => obj.deleting
    /\ Updating => ~Marked(obj) /\ ~Marked(original)
    /\ Deleting => original.deleting
    /\ Deleting /\ obj # None => obj.deleting
    /\ Deleting /\ "lag" \notin Environment => obj # None
    /\ "lag" \in Environment =>
        /\ Marked(cache) => cache.deleting
        /\ cache # None /\ obj # None /\ cache.deleting => obj.deleting
        /\ Marked(obj) => cache # None /\ cache.deleting
        /\ Updating => ~Marked(cache)
        /\ Deleting /\ obj # None => cache # None /\ cache.deleting

\* Whoever relies on the finalizer has it.
FinalizerInv ==
    /\ Updating /\ original.finalizer => FinalizerHeld
    /\ pc \in UpdatePath \ {"AddFinalizer"} => FinalizerHeld
    /\ "lag" \in Environment =>
        (cache # None /\ cache.finalizer /\ ~cache.deleting => FinalizerHeld)

\* The copies of the object have the ids of the object where they are used: in
\* a deletion from its first condition on, and in an update from the check of
\* the cluster until the new id is recorded.
IdentityInv ==
    /\ pc = "Reconciling" /\ Marked(original) /\ obj # None => Same(original, obj)
    /\ pc \in DeletePath /\ obj # None => Same(original, obj)
    /\ pc = "UpdateUpstream" /\ found # None => Same(original, obj)
    /\ pc \in {"GetCurrentState", "Apply", "SaveProviderID"} => Same(original, obj)
    /\ "lag" \in Environment => (Marked(cache) /\ obj # None => Same(cache, obj))

\* The deletion marks stay on the object.
MarkInv ==
    /\ pc \in DeletePath /\ obj # None => Marked(obj)
    /\ Deleting /\ Marked(original) /\ obj # None => Marked(obj)
    /\ "lag" \in Environment => (Marked(cache) /\ obj # None => Marked(obj))

\* The operator's own identity provider.
Own == idp # None /\ idp.mine

\* It is recorded in the status, or about to be.
Recorded ==
    Own => /\ FinalizerHeld
           /\ obj.status.clusterID = idp.cluster
           /\ IF pc = "SaveProviderID"
              THEN idp.id = created /\ original.status.provider # created
              ELSE obj.status.provider = idp.id

\* It is gone once the reconciler says so.
ProviderInv ==
    /\ Recorded
    /\ Says(obj) \/ Says(original) => ~Own
    /\ "lag" \in Environment => (Says(cache) => ~Own)
    /\ pc \in {"NotifyDeleted", "RemoveFinalizer"} => ~Own
    /\ pc = "SaveClusterStatus" /\ Own /\ found # None => found.id = idp.cluster

\* The cluster of the object has the operator's identity provider, or is gone.
Served == Own \/ cluster = None \/ cluster.id # obj.status.clusterID

\* Where no other tool removes it, an identity provider is created once for a
\* cluster: the status has no other id when the id is recorded, and the API
\* server, which keeps ids from being changed, lets the patch pass.
OnceInv ==
    "immutable" \in Environment =>
        /\ pc = "SaveProviderID" =>
            obj.status.provider = NoID /\ obj.status.clusterID \in used /\ Served
        /\ obj # None /\ ~Marked(obj) /\ obj.status.provider # NoID =>
            obj.status.clusterID \in used /\ Served

CustodyInv ==
    /\ DeletionInv /\ FinalizerInv /\ IdentityInv /\ MarkInv /\ ProviderInv
    /\ "others" \notin Environment => OnceInv

\* The environments in which the record of the identity provider can be relied
\* upon: no call fails and the operator does not stop between the create request
\* and the patch that records its answer, the cache does not lag behind a
\* resource that is created anew, and the API server does not refuse the new id
\* when another tool has removed what the old one stood for.
Dependable ==
    /\ "error" \notin Environment /\ "crash" \notin Environment
    /\ ~({"lag", "recreate"} \subseteq Environment)
    /\ ~({"others", "immutable"} \subseteq Environment)

\* What the proofs below need of Typed: a reconcile in progress has an object.
LEMMA OriginalNotNone ==
  ASSUME Typed
  PROVE  pc # "Idle" => original # None
  BY ObjectNotNone DEF Typed, RequestTyped

LEMMA DeletionKept ==
  ASSUME Typed, DeletionInv, Effect, Dependable
  PROVE  DeletionInv'
  <1> USE DEF DeletionInv, Updating, Deleting, UpdatePath, DeletePath, Marked, Alike, Same
  <1>0. pc # "Idle" => original # None
    BY OriginalNotNone
  <1>1. CASE Stops
    BY <1>1 DEF Stops
  <1>2. CASE Reports
    BY <1>0, <1>2 DEF Reports, Noted
  <1>3. CASE Starts
    BY <1>3 DEF Starts
  <1>4. CASE Triggers
    BY <1>0, <1>4 DEF Triggers
  <1>5. CASE Finalizes
    BY <1>0, <1>5 DEF Finalizes
  <1>6. CASE LooksUp
    BY <1>6 DEF LooksUp
  <1>7. CASE Saves
    BY <1>0, <1>7 DEF Saves
  <1>8. CASE Checks
    BY <1>0, <1>8 DEF Checks, Noted
  <1>9. CASE Reads \/ Creates \/ Destroys \/ Deletes
    BY <1>9 DEF Reads, Creates, Destroys, Deletes
  <1>10. CASE Records
    BY <1>0, <1>10 DEF Records
  <1>11. CASE Notifies
    BY <1>0, <1>11 DEF Notifies
  <1>12. CASE Releases
    BY <1>0, <1>12 DEF Releases
  <1>13. CASE Syncs
    BY <1>13 DEF Syncs
  <1>14. CASE Edits
    BY <1>14 DEF Edits, StatusKept
  <1>15. CASE Removes
    BY <1>15 DEF Removes
  <1>16. CASE Recreates
    BY <1>16 DEF Recreates, Dependable
  <1>17. CASE Turns \/ Intrudes
    BY <1>17 DEF Turns, Intrudes
  <1> QED
    BY <1>1, <1>2, <1>3, <1>4, <1>5, <1>6, <1>7, <1>8, <1>9, <1>10, <1>11, <1>12, <1>13, <1>14,
       <1>15, <1>16, <1>17 DEF Effect

LEMMA FinalizerKept ==
  ASSUME Typed, DeletionInv, FinalizerInv, Effect
  PROVE  FinalizerInv'
  <1> USE DEF FinalizerInv, FinalizerHeld, Updating, UpdatePath, DeletePath, Alike
  <1>0. pc # "Idle" => original # None
    BY OriginalNotNone
  <1>1. CASE Stops
    BY <1>1 DEF Stops
  <1>2. CASE Reports
    BY <1>2 DEF Reports, Noted
  <1>3. CASE Starts
    BY <1>3 DEF Starts
  <1>4. CASE Triggers
    BY <1>4 DEF Triggers
  <1>5. CASE Finalizes
    BY <1>5 DEF Finalizes
  <1>6. CASE LooksUp
    BY <1>6 DEF LooksUp
  <1>7. CASE Saves
    BY <1>7 DEF Saves
  <1>8. CASE Checks
    BY <1>8 DEF Checks, Noted
  <1>9. CASE Reads \/ Creates \/ Destroys \/ Deletes
    BY <1>9 DEF Reads, Creates, Destroys, Deletes
  <1>10. CASE Records
    BY <1>10 DEF Records
  <1>11. CASE Notifies
    BY <1>11 DEF Notifies
  <1>12. CASE Releases
    BY <1>12 DEF Releases, DeletionInv, Deleting
  <1>13. CASE Syncs
    BY <1>13 DEF Syncs
  <1>14. CASE Edits
    BY <1>14 DEF Edits, StatusKept
  <1>15. CASE Removes
    BY <1>15 DEF Removes
  <1>16. CASE Recreates
    BY <1>16 DEF Recreates
  <1>17. CASE Turns \/ Intrudes
    BY <1>17 DEF Turns, Intrudes
  <1> QED
    BY <1>1, <1>2, <1>3, <1>4, <1>5, <1>6, <1>7, <1>8, <1>9, <1>10, <1>11, <1>12, <1>13, <1>14,
       <1>15, <1>16, <1>17 DEF Effect

LEMMA IdentityKept ==
  ASSUME Typed, DeletionInv, FinalizerInv, IdentityInv, Effect, Dependable
  PROVE  IdentityInv'
  <1> USE DEF IdentityInv, DeletionInv, Updating, Deleting, UpdatePath, DeletePath, Marked, Alike, Same
  <1>0. pc # "Idle" => original # None
    BY OriginalNotNone
  <1>1. CASE Stops
    BY <1>1 DEF Stops
  <1>2. CASE Reports
    BY <1>2 DEF Reports, Noted
  <1>3. CASE Starts
    BY <1>3 DEF Starts
  <1>4. CASE Triggers
    BY <1>4 DEF Triggers
  <1>5. CASE Finalizes
    BY <1>5 DEF Finalizes
  <1>6. CASE LooksUp
    BY <1>6 DEF LooksUp
  <1>7. CASE Saves
    BY <1>7 DEF Saves
  <1>8. CASE Checks
    BY <1>8 DEF Checks, Noted
  <1>9. CASE Reads \/ Creates \/ Destroys \/ Deletes
    BY <1>9 DEF Reads, Creates, Destroys, Deletes
  <1>10. CASE Records
    BY <1>10 DEF Records
  <1>11. CASE Notifies
    BY <1>11 DEF Notifies
  <1>12. CASE Releases
    BY <1>12 DEF Releases
  <1>13. CASE Syncs
    BY <1>13 DEF Syncs
  <1>14. CASE Edits
    BY <1>14 DEF Edits, StatusKept
  <1>15. CASE Removes
    BY <1>15 DEF Removes, FinalizerInv, FinalizerHeld
  <1>16. CASE Recreates
    BY <1>16 DEF Recreates, Dependable, FinalizerInv, FinalizerHeld
  <1>17. CASE Turns \/ Intrudes
    BY <1>17 DEF Turns, Intrudes
  <1> QED
    BY <1>1, <1>2, <1>3, <1>4, <1>5, <1>6, <1>7, <1>8, <1>9, <1>10, <1>11, <1>12, <1>13, <1>14,
       <1>15, <1>16, <1>17 DEF Effect

LEMMA MarkKept ==
  ASSUME Typed, DeletionInv, MarkInv, Effect, Dependable
  PROVE  MarkInv'
  <1> USE DEF MarkInv, DeletionInv, Updating, Deleting, UpdatePath, DeletePath, Marked, Alike, Same
  <1>0. pc # "Idle" => original # None
    BY OriginalNotNone
  <1>1. CASE Stops
    BY <1>1 DEF Stops
  <1>2. CASE Reports
    BY <1>0, <1>2 DEF Reports, Noted
  <1>3. CASE Starts
    BY <1>3 DEF Starts
  <1>4. CASE Triggers
    BY <1>0, <1>4 DEF Triggers
  <1>5. CASE Finalizes
    BY <1>0, <1>5 DEF Finalizes
  <1>6. CASE LooksUp
    BY <1>6 DEF LooksUp
  <1>7. CASE Saves
    BY <1>0, <1>7 DEF Saves
  <1>8. CASE Checks
    BY <1>0, <1>8 DEF Checks, Noted
  <1>9. CASE Reads \/ Creates \/ Destroys \/ Deletes
    BY <1>9 DEF Reads, Creates, Destroys, Deletes
  <1>10. CASE Records
    BY <1>0, <1>10 DEF Records
  <1>11. CASE Notifies
    BY <1>0, <1>11 DEF Notifies, Says, Marks
  <1>12. CASE Releases
    BY <1>0, <1>12 DEF Releases
  <1>13. CASE Syncs
    BY <1>13 DEF Syncs
  <1>14. CASE Edits
    BY <1>14 DEF Edits, StatusKept
  <1>15. CASE Removes
    BY <1>15 DEF Removes
  <1>16. CASE Recreates
    BY <1>16 DEF Recreates, Dependable
  <1>17. CASE Turns \/ Intrudes
    BY <1>17 DEF Turns, Intrudes
  <1> QED
    BY <1>1, <1>2, <1>3, <1>4, <1>5, <1>6, <1>7, <1>8, <1>9, <1>10, <1>11, <1>12, <1>13, <1>14,
       <1>15, <1>16, <1>17 DEF Effect

\* The operator's own identity provider, with the object that records it.
LEMMA OwnRecorded ==
  ASSUME Recorded, Own
  PROVE  /\ obj # None /\ obj.finalizer
         /\ obj.status.clusterID = idp.cluster
         /\ pc # "SaveProviderID" => obj.status.provider = idp.id
  BY DEF Recorded, FinalizerHeld

\* The object keeps the record when its ids and the finalizer stay.
LEMMA RecordKept ==
  ASSUME Recorded, idp' = idp \/ idp' = None, created' = created,
         \/ pc # "SaveProviderID" /\ pc' # "SaveProviderID"
         \/ pc' = pc /\ original' = original,
         \/ obj' # None /\ Same(obj, obj') /\ obj'.finalizer = obj.finalizer
         \/ obj' = obj
         \/ ~Own
  PROVE  Recorded'
  <1>1. SUFFICES ASSUME Own' PROVE Recorded'
    BY DEF Own, Recorded
  <1>2. Own /\ idp' = idp
    BY <1>1 DEF Own
  <1> QED
    BY <1>2, OwnRecorded DEF Recorded, FinalizerHeld, Same

LEMMA ProviderKept ==
  ASSUME Typed, IdsInv, CustodyInv, Effect, Dependable
  PROVE  ProviderInv'
  <1> USE DEF Says, Updating, Deleting, UpdatePath, DeletePath, Alike
  <1>0. pc # "Idle" => original # None
    BY OriginalNotNone
  <1>a. ProviderInv /\ DeletionInv /\ FinalizerInv /\ IdentityInv /\ Recorded
    BY DEF CustodyInv, ProviderInv
  <1>b. idp' = idp => (Own' <=> Own)
    BY DEF Own
  <1>c. pc = "SaveProviderID" /\ Own
          => ~Refuses(obj.status.provider, original.status.provider, created)
    <2>1. CASE "others" \in Environment
      BY <2>1 DEF Dependable, Refuses
    <2>2. CASE "others" \notin Environment
      BY <2>2 DEF CustodyInv, OnceInv, Refuses
    <2> QED
      BY <2>1, <2>2
  <1>1. CASE Stops
    <2>1. pc = "SaveProviderID" => ~Own
      BY <1>1, <1>a, <1>c, OwnRecorded DEF Stops, Dependable, Failure
    <2>2. Recorded'
      <3>1. CASE Own
        BY <1>1, <1>a, <2>1, <3>1, RecordKept DEF Stops, OCMKept
      <3>2. CASE ~Own
        BY <1>1, <1>b, <3>2 DEF Stops, OCMKept, Recorded
      <3> QED
        BY <3>1, <3>2
    <2> QED
      BY <1>1, <1>a, <1>b, <2>2 DEF Stops, OCMKept, ProviderInv
  <1>2. CASE Reports
    <2>1. Recorded'
      BY <1>2, <1>a, RecordKept DEF Reports, Noted, OCMKept
    <2> QED
      BY <1>0, <1>2, <1>a, <1>b, <2>1 DEF Reports, Noted, Marks, OCMKept, ProviderInv
  <1>3. CASE Starts
    <2>1. Recorded'
      BY <1>3, <1>a, RecordKept DEF Starts, OCMKept
    <2> QED
      BY <1>3, <1>a, <1>b, <2>1 DEF Starts, OCMKept, ProviderInv
  <1>4. CASE Triggers
    <2>1. Recorded'
      BY <1>4, <1>a, RecordKept DEF Triggers, OCMKept
    <2> QED
      BY <1>4, <1>a, <1>b, <2>1 DEF Triggers, OCMKept, ProviderInv
  <1>5. CASE Finalizes
    <2>1. Own => obj # None /\ obj.finalizer
      BY <1>a, OwnRecorded
    <2>2. Recorded'
      BY <1>5, <1>a, <2>1, RecordKept DEF Finalizes, OCMKept, Same
    <2> QED
      BY <1>5, <1>a, <1>b, <2>2 DEF Finalizes, OCMKept, ProviderInv
  <1>6. CASE LooksUp
    <2>1. Recorded'
      BY <1>6, <1>a, RecordKept DEF LooksUp, OCMKept
    <2>2. Own' /\ found' # None /\ pc' = "SaveClusterStatus" => found'.id = idp'.cluster
      BY <1>6 DEF LooksUp, Own, OCMKept, Typed, WorldTyped
    <2> QED
      BY <1>6, <1>a, <1>b, <2>1, <2>2 DEF LooksUp, OCMKept, ProviderInv
  <1>7. CASE Saves
    <2>1. Own => /\ obj # None /\ obj.finalizer /\ obj.status.clusterID = idp.cluster
                 /\ obj.status.provider = idp.id
      BY <1>7, <1>a, OwnRecorded DEF Saves
    <2>2. Own => obj'.status.clusterID = idp.cluster
      BY <1>7, <1>a, <2>1 DEF Saves, ProviderInv
    <2>3. Recorded'
      BY <1>7, <1>b, <2>1, <2>2 DEF Saves, OCMKept, Recorded, FinalizerHeld
    <2> QED
      BY <1>7, <1>a, <1>b, <2>3 DEF Saves, OCMKept, ProviderInv
  <1>8. CASE Checks
    <2>1. Recorded'
      BY <1>8, <1>a, RecordKept DEF Checks, Noted, OCMKept
    <2> QED
      BY <1>0, <1>8, <1>a, <1>b, <2>1 DEF Checks, Noted, Marks, OCMKept, ProviderInv
  <1>9. CASE Reads
    <2>1. Recorded'
      BY <1>9, <1>a, RecordKept DEF Reads, OCMKept
    <2> QED
      BY <1>9, <1>a, <1>b, <2>1 DEF Reads, OCMKept, ProviderInv
  <1>10. CASE Creates
    <2>1. FinalizerHeld /\ Same(original, obj) /\ obj' = obj /\ original # None
      BY <1>0, <1>10, <1>a DEF Creates, FinalizerInv, IdentityInv
    <2>2. original.status.provider # created'
      BY <1>10, <2>1, IdentityProviderAssumption DEF Creates, IdsInv, KnownID
    <2>3. Recorded'
      BY <1>10, <2>1, <2>2 DEF Creates, Recorded, FinalizerHeld, Same
    <2>4. /\ ~Says(obj) /\ ~Says(original)
          /\ "lag" \in Environment => ~Says(cache)
      BY <1>10, <1>a DEF Creates, DeletionInv, Marked, Marks
    <2> QED
      BY <1>10, <2>3, <2>4 DEF Creates, ProviderInv
  <1>11. CASE Records
    <2>1. Own => /\ obj # None /\ obj.finalizer /\ obj.status.clusterID = idp.cluster
                 /\ idp.id = created /\ original.status.provider # created
      BY <1>11, <1>a, OwnRecorded DEF Records, Recorded
    <2>2. Own => obj'.status.provider = created
      BY <1>11, <2>1 DEF Records, Merged
    <2>3. Recorded'
      BY <1>11, <1>b, <2>1, <2>2 DEF Records, OCMKept, Recorded, FinalizerHeld
    <2> QED
      BY <1>11, <1>a, <1>b, <2>3 DEF Records, OCMKept, ProviderInv
  <1>12. CASE Destroys
    <2>1. Recorded'
      BY <1>12, <1>a, RecordKept DEF Destroys, OCMKept
    <2> QED
      BY <1>12, <1>a, <1>b, <2>1 DEF Destroys, OCMKept, ProviderInv, Own
  <1>13. CASE Deletes
    <2>1. ~Own'
      <3>1. SUFFICES ASSUME Own PROVE idp' = None
        BY <1>13 DEF Deletes, Own
      <3>2. pc = "DeleteIDP" /\ obj # None
        BY <1>13, <1>a, <3>1, OwnRecorded DEF Deletes
      <3>3. obj.status.clusterID = idp.cluster /\ obj.status.provider = idp.id
        BY <1>a, <3>1, <3>2, OwnRecorded
      <3>4. Same(original, obj)
        BY <1>a, <3>2 DEF IdentityInv
      <3>5. cluster # None /\ cluster.id = idp.cluster
        BY <3>1 DEF Own, Typed, WorldTyped
      <3>6. UpstreamExists /\ idp # None /\ idp.id = original.status.provider
        BY <3>1, <3>3, <3>4, <3>5 DEF UpstreamExists, Same, Own
      <3> QED
        BY <1>13, <3>6 DEF Deletes
    <2> QED
      BY <1>13, <2>1 DEF Deletes, ProviderInv, Recorded
  <1>14. CASE Notifies
    <2>1. ~Own'
      BY <1>14, <1>a, <1>b DEF Notifies, OCMKept, ProviderInv
    <2> QED
      BY <1>14, <2>1 DEF Notifies, ProviderInv, Recorded
  <1>15. CASE Releases
    <2>1. ~Own'
      BY <1>15, <1>a, <1>b DEF Releases, OCMKept, ProviderInv
    <2> QED
      BY <1>15, <2>1 DEF Releases, ProviderInv, Recorded
  <1>16. CASE Syncs
    <2>1. Recorded'
      BY <1>16, <1>a, RecordKept DEF Syncs, OCMKept
    <2> QED
      BY <1>16, <1>a, <1>b, <2>1 DEF Syncs, OCMKept, ProviderInv
  <1>17. CASE Edits
    <2>1. Recorded'
      BY <1>17, <1>a, RecordKept DEF Edits, StatusKept, OCMKept, Same
    <2> QED
      BY <1>17, <1>a, <1>b, <2>1 DEF Edits, StatusKept, OCMKept, ProviderInv
  <1>18. CASE Removes
    <2>1. Own => obj.finalizer
      BY <1>a, OwnRecorded
    <2>2. Recorded'
      BY <1>18, <1>a, <2>1, RecordKept DEF Removes, OCMKept, Same
    <2> QED
      BY <1>18, <1>a, <1>b, <2>2 DEF Removes, OCMKept, ProviderInv
  <1>19. CASE Recreates
    <2>1. ~Own
      BY <1>19, <1>a, OwnRecorded DEF Recreates
    <2>2. ~Own'
      BY <1>19, <1>b, <2>1 DEF Recreates, OCMKept
    <2> QED
      BY <1>19, <2>2 DEF Recreates, ProviderInv, Recorded
  <1>20. CASE Turns
    <2>1. Recorded'
      BY <1>20, <1>a, RecordKept DEF Turns
    <2>2. Own' => Own /\ idp' = idp
      BY <1>20 DEF Turns, Own
    <2> QED
      BY <1>20, <1>a, <2>1, <2>2 DEF Turns, ProviderInv
  <1>21. CASE Intrudes
    <2>1. ~Own'
      BY <1>21 DEF Intrudes, Own
    <2> QED
      BY <1>21, <2>1 DEF Intrudes, ProviderInv, Recorded
  <1> QED
    BY <1>1, <1>2, <1>3, <1>4, <1>5, <1>6, <1>7, <1>8, <1>9, <1>10, <1>11, <1>12, <1>13, <1>14,
       <1>15, <1>16, <1>17, <1>18, <1>19, <1>20, <1>21 DEF Effect

LEMMA OnceKept ==
  ASSUME Typed, CustodyInv, Effect, Dependable, "others" \notin Environment
  PROVE  OnceInv'
  <1> USE DEF Served, Updating, Deleting, UpdatePath, DeletePath, Alike
  <1>0. SUFFICES ASSUME "immutable" \in Environment PROVE OnceInv'
    BY DEF OnceInv
  <1>a. DeletionInv /\ FinalizerInv /\ IdentityInv /\ MarkInv /\ OnceInv
    BY DEF CustodyInv
  <1>b. NoID \notin used /\ (pc # "Idle" => original # None)
    BY ChildAssumption, OriginalNotNone DEF Typed, WorldTyped
  <1>c. ASSUME OCMKept, pc' # "SaveProviderID" \/ pc' = pc,
               \/ obj' = None
               \/ obj' = obj
               \/ obj # None /\ Same(obj, obj') /\ (Marked(obj) => Marked(obj')),
               pc = "SaveProviderID" => obj # None /\ obj' # None
        PROVE  OnceInv'
    BY <1>0, <1>a, <1>c DEF OnceInv, OCMKept, Own, Same
  <1>1. CASE Stops \/ Starts \/ Finalizes \/ LooksUp \/ Reads \/ Destroys \/ Syncs
    <2>1. /\ OCMKept /\ (pc' # "SaveProviderID" \/ pc' = pc)
          /\ \/ obj' = obj
             \/ obj # None /\ Same(obj, obj') /\ (Marked(obj) => Marked(obj'))
          /\ pc = "SaveProviderID" => obj' = obj
      BY <1>1 DEF Stops, Starts, Finalizes, LooksUp, Reads, Destroys, Syncs, Same, Marked
    <2>2. pc = "SaveProviderID" => obj # None
      BY <1>a DEF FinalizerInv, FinalizerHeld
    <2> QED
      BY <1>c, <2>1, <2>2
  <1>2. CASE Reports \/ Checks
    <2>1. ~Marked(obj)
      BY <1>2, <1>a DEF Reports, Checks, DeletionInv
    <2> QED
      BY <1>2, <1>c, <2>1 DEF Reports, Checks, Noted
  <1>3. CASE Triggers
    <2>1. ~original.deleting => ~Marked(obj)
      BY <1>3, <1>a DEF Triggers, DeletionInv
    <2> QED
      BY <1>3, <1>c, <2>1 DEF Triggers
  <1>4. CASE Notifies
    <2>1. Says(obj') => Marked(obj')
      BY DEF Says, Marked, Marks
    <2> QED
      BY <1>4, <1>c, <2>1 DEF Notifies
  <1>5. CASE Saves
    <2>1. CASE obj'.status.clusterID = obj.status.clusterID
      BY <1>5, <1>c, <2>1 DEF Saves, Same, Marked
    <2>2. CASE obj.status.clusterID = NoID
      <3>1. Marked(obj) \/ obj.status.provider = NoID
        BY <1>0, <1>5, <1>a, <1>b, <2>2 DEF Saves, OnceInv
      <3> QED
        BY <1>5, <3>1 DEF Saves, OnceInv, Marked
    <2> QED
      BY <1>0, <1>5, <2>1, <2>2 DEF Saves
  <1>6. CASE Creates
    <2>1. ~Marked(obj) /\ Same(original, obj) /\ FinalizerHeld
      BY <1>6, <1>a DEF Creates, DeletionInv, IdentityInv, FinalizerInv
    <2>2. cluster # None /\ cluster.id = obj.status.clusterID /\ ~Own
      BY <1>6, <2>1 DEF Creates, Same, Own
    <2>3. obj.status.provider = NoID
      BY <1>0, <1>a, <2>1, <2>2 DEF OnceInv, FinalizerHeld
    <2>4. obj.status.clusterID \in used
      BY <2>2 DEF Typed, WorldTyped
    <2> QED
      BY <1>6, <2>3, <2>4 DEF Creates, OnceInv, Own
  <1>7. CASE Records
    BY <1>0, <1>7, <1>a DEF Records, OCMKept, OnceInv, Own
  <1>8. CASE Deletes
    <2>1. obj # None => Marked(obj)
      BY <1>8, <1>a DEF Deletes, MarkInv
    <2> QED
      BY <1>8, <2>1 DEF Deletes, OnceInv, Marked
  <1>9. CASE Releases
    <2>1. obj' = None
      BY <1>9, <1>a DEF Releases, DeletionInv
    <2> QED
      BY <1>9, <2>1 DEF Releases, OnceInv
  <1>10. CASE Edits
    <2>1. Same(obj, obj') /\ (Marked(obj) => Marked(obj')) /\ obj # None /\ obj' # None
      BY <1>10 DEF Edits, StatusKept, Same, Marked
    <2> QED
      BY <1>10, <1>c, <2>1 DEF Edits
  <1>11. CASE Removes
    <2>1. pc = "SaveProviderID" => obj.finalizer
      BY <1>a DEF FinalizerInv, FinalizerHeld
    <2>2. obj' # None => Same(obj, obj') /\ (Marked(obj) => Marked(obj'))
      BY <1>11 DEF Removes, Same, Marked
    <2> QED
      BY <1>11, <1>c, <2>1, <2>2 DEF Removes
  <1>12. CASE Recreates
    <2>1. pc # "SaveProviderID"
      BY <1>12, <1>a DEF Recreates, FinalizerInv, FinalizerHeld
    <2> QED
      BY <1>12, <2>1 DEF Recreates, OnceInv
  <1>13. CASE Turns
    <2>1. ASSUME obj.status.clusterID \in used, Served PROVE Served'
      BY <1>13, <2>1 DEF Turns, Own, Typed, WorldTyped
    <2>2. used \subseteq used' /\ UNCHANGED <<obj, pc>>
      BY <1>13 DEF Turns
    <2> HIDE DEF Served
    <2> QED
      BY <1>0, <1>a, <2>1, <2>2 DEF OnceInv, Marked
  <1>14. CASE Intrudes
    BY <1>14 DEF Intrudes
  <1> QED
    BY <1>1, <1>2, <1>3, <1>4, <1>5, <1>6, <1>7, <1>8, <1>9, <1>10, <1>11, <1>12, <1>13, <1>14
    DEF Effect

LEMMA InitCustody ==
  ASSUME Init
  PROVE  CustodyInv
  <1>1. /\ obj # None /\ obj.status.conditions = {} /\ obj.status.provider = NoID
        /\ cache = None /\ original = None /\ pc = "Idle" /\ idp = None
    BY NewObjectsTyped DEF Init, ChildInit
  <1> QED
    BY <1>1 DEF CustodyInv, DeletionInv, FinalizerInv, IdentityInv, MarkInv, ProviderInv, Recorded,
                OnceInv, Own, Marked, Says, Updating, Deleting, UpdatePath, DeletePath

LEMMA CustodyInvKept ==
  ASSUME Typed, IdsInv, CustodyInv, [Next]_vars, Dependable
  PROVE  CustodyInv'
  BY StepEffect, DeletionKept, FinalizerKept, IdentityKept, MarkKept, ProviderKept, OnceKept
  DEF CustodyInv

LEMMA AlwaysCustody ==
  ASSUME Dependable
  PROVE  Spec => []CustodyInv
  <1>1. Init => CustodyInv
    BY InitCustody
  <1>2. Typed /\ IdsInv /\ CustodyInv /\ [Next]_vars => CustodyInv'
    BY CustodyInvKept
  <1> QED
    BY <1>1, <1>2, AlwaysTyped, AlwaysKnown, PTL DEF Spec

\* The finalizer is given up at the end of a deletion and nowhere else.
LEMMA FinalizerReleased ==
  ASSUME CustodyInv, Effect, FinalizerHeld, ~FinalizerHeld'
  PROVE  ~Own
  <1>1. Releases
    BY DEF FinalizerHeld, Effect, Stops, Reports, Noted, Starts, Triggers, Finalizes, LooksUp, Saves,
           Checks, Reads, Creates, Records, Destroys, Deletes, Notifies, Syncs, Edits, StatusKept,
           Removes, Recreates, Turns, Intrudes, Alike
  <1> QED
    BY <1>1 DEF Releases, CustodyInv, ProviderInv

LEMMA CustodyStep ==
  ASSUME Typed, CustodyInv, [Next]_vars
  PROVE  [C!Next]_<<FinalizerHeld, ExternalState>>
  <1>0. FinalizerHeld \in BOOLEAN /\ FinalizerHeld' \in BOOLEAN
    BY Zenon DEF FinalizerHeld
  <1>1. CASE UNCHANGED <<idp, cluster>>
    <2>1. ExternalState' = ExternalState
      BY <1>1 DEF ExternalState
    <2>2. CASE FinalizerHeld /\ ~FinalizerHeld'
      <3>1. ~Own
        BY <2>2, StepEffect, FinalizerReleased
      <3>2. ExternalState = "absent"
        BY <3>1 DEF ExternalState, Own
      <3> QED
        BY <1>0, <2>1, <2>2, <3>2 DEF C!Next, C!Release
    <2>3. CASE ~FinalizerHeld /\ FinalizerHeld'
      BY <1>0, <2>1, <2>3 DEF C!Next, C!Hold
    <2>4. CASE FinalizerHeld' = FinalizerHeld
      BY <2>1, <2>4
    <2> QED
      BY <1>0, <2>2, <2>3, <2>4
  <1>2. ASSUME obj' = obj,
               \/ ExternalState' = ExternalState
               \/ FinalizerHeld /\ ExternalState = "absent" /\ ExternalState' = "live"
               \/ ExternalState = "live" /\ ExternalState' \in {"going", "absent"}
               \/ ExternalState = "going" /\ ExternalState' = "absent"
        PROVE  [C!Next]_<<FinalizerHeld, ExternalState>>
    <2>1. FinalizerHeld' = FinalizerHeld
      BY <1>2 DEF FinalizerHeld
    <2> QED
      BY <1>0, <1>2, <2>1 DEF C!Next, C!Create, C!Destroy, C!Vanish
  <1>3. ASSUME obj' = obj, idp' = None
        PROVE  [C!Next]_<<FinalizerHeld, ExternalState>>
    <2>1. ExternalState' = "absent" /\ ExternalState \in {"absent", "going", "live"}
      BY <1>3 DEF ExternalState
    <2> QED
      BY <1>2, <1>3, <2>1
  <1>4. CASE ApplyIdentityProvider
    <2>1. obj' = obj /\ cluster' = cluster /\ pc = "Apply"
      BY <1>4 DEF ApplyIdentityProvider, Create, Update, AlreadyApplied, kubernetes
    <2>2. CASE idp' = idp
      BY <1>1, <2>1, <2>2
    <2>3. CASE idp' # idp
      <3>1. idp = None /\ cluster # None /\ cluster.state = "ready"
        BY <1>4, <2>3 DEF ApplyIdentityProvider, Create, Update, AlreadyApplied, UpstreamExists, ocm
      <3>2. FinalizerHeld
        BY <2>1 DEF CustodyInv, FinalizerInv, UpdatePath
      <3>3. \/ ExternalState' = ExternalState
            \/ ExternalState = "absent" /\ ExternalState' = "live"
        BY <2>1, <3>1 DEF ExternalState
      <3> QED
        BY <1>2, <2>1, <3>2, <3>3
    <2> QED
      BY <2>2, <2>3
  <1>5. CASE DeleteIDP \/ OthersRemoveIDP \/ ParentGone
    <2>1. obj' = obj /\ (idp' = None \/ UNCHANGED <<idp, cluster>>)
      BY <1>5 DEF DeleteIDP, OthersRemoveIDP, ParentGone, ClusterGone, childVars, kubernetes
    <2> QED
      BY <1>1, <1>3, <2>1
  <1>6. CASE OthersCreateIDP
    <2>1. obj' = obj /\ idp = None /\ ~idp'.mine
      BY <1>6 DEF OthersCreateIDP, childVars, kubernetes
    <2>2. ExternalState' = ExternalState
      BY <2>1 DEF ExternalState
    <2> QED
      BY <1>2, <2>1, <2>2
  <1>7. CASE ClusterAppears /\ UnchangedHere
    <2>1. obj' = obj /\ cluster = None /\ idp' = idp
      BY <1>7 DEF ClusterAppears, UnchangedHere, ocm, kubernetes
    <2>2. ExternalState' = ExternalState
      BY <2>1 DEF ExternalState, Typed, WorldTyped
    <2> QED
      BY <1>2, <2>1, <2>2
  <1>8. CASE (ClusterInstalled \/ ClusterUninstalls) /\ UnchangedHere
    <2>1. /\ obj' = obj /\ idp' = idp /\ cluster # None
          /\ \/ cluster.state = "installing" /\ cluster' = [cluster EXCEPT !.state = "ready"]
             \/ cluster' = [cluster EXCEPT !.state = "uninstalling"]
      BY <1>8 DEF ClusterInstalled, ClusterUninstalls, UnchangedHere, ocm, kubernetes
    <2>2. cluster \in Clusters
      BY <2>1 DEF Typed, WorldTyped
    <2>3. \/ cluster.state = "installing" /\ cluster'.state = "ready"
          \/ cluster'.state = "uninstalling"
      BY <2>1, <2>2 DEF Clusters
    <2>4. \/ ExternalState' = ExternalState
          \/ ExternalState = "live" /\ ExternalState' = "going"
      BY <2>1, <2>3 DEF ExternalState
    <2> QED
      BY <1>2, <2>1, <2>4
  <1>9. CASE ReconcileStep /\ ~ApplyIdentityProvider /\ ~DeleteIDP
    <2>1. UNCHANGED <<idp, cluster>>
      BY <1>9 DEF ReconcileStep, ChildStep, ReconcileTrigger, AddFinalizer, GetUpstreamCluster,
                  UpdateUpstream, Complete, RemoveFinalizer, NewRequest, Dequeue, SaveUpstreamCluster,
                  SaveClusterStatus, GetCurrentState, SaveProviderID, Destroy, DeleteIDPRefused,
                  NotifyDeleted, UnchangedHere, ocm
    <2> QED
      BY <1>1, <2>1
  <1>10. CASE \/ Outage \/ UNCHANGED vars \/ SecretChanges \/ ConfigMapRemoved \/ UserRestores
              \/ /\ \/ SyncCache \/ TimerFires \/ UserEdits \/ UserDeletes
                    \/ UserRecreates(NewObjects)
                 /\ UnchangedHere
    <2>1. UNCHANGED <<idp, cluster>>
      BY <1>10 DEF Outage, ChildOutage, GetUpstreamClusterFails, CallFails, Crash, SyncCache,
                   TimerFires, UserEdits, UserDeletes, UserRecreates, SecretChanges,
                   ConfigMapRemoved, UserRestores, UnchangedHere, ocm, vars, childVars
    <2> QED
      BY <1>1, <2>1
  <1> QED
    BY <1>4, <1>5, <1>6, <1>7, <1>8, <1>9, <1>10 DEF Next, World, ChildWorld

\* The reconcilers of identity providers implement Custody: the provider is
\* created under the finalizer and recorded before anything else happens, and the
\* finalizer is removed only when Destroy has deleted it by its recorded id or it
\* went with its cluster.
THEOREM ReconcilerImplementsCustody ==
  ASSUME Dependable
  PROVE  Spec => ImplementsCustody
  <1>1. Init => C!Init
    <2>1. ASSUME Init PROVE FinalizerHeld = FALSE /\ ExternalState = "absent"
      BY <2>1, NewObjectsTyped DEF Init, ChildInit, FinalizerHeld, ExternalState
    <2> QED
      BY <2>1 DEF C!Init
  <1>2. Typed /\ CustodyInv /\ [Next]_vars => [C!Next]_<<FinalizerHeld, ExternalState>>
    BY CustodyStep
  <1> QED
    BY <1>1, <1>2, AlwaysTyped, AlwaysCustody, PTL DEF Spec, ImplementsCustody, C!Spec

\* What the comments of the source promise holds in a dependable environment: the
\* status has the id of the identity provider between two reconciles, and the
\* condition IdentityProviderDeleted is true to its message.
THEOREM CommentsKept ==
  ASSUME Dependable
  PROVE  Spec => [](ProviderIDStored /\ DeletedMeansDeleted)
  <1>1. CustodyInv => ProviderIDStored /\ DeletedMeansDeleted
    BY DEF CustodyInv, ProviderInv, Recorded, Own, Says, ProviderIDStored, DeletedMeansDeleted
  <1> QED
    BY <1>1, AlwaysCustody, PTL
=============================================================================
