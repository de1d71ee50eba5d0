------------------------- MODULE ROSAClusterTypes --------------------------
(***************************************************************************)
(* Type correctness of the ROSACluster reconciler, for every value of the  *)
(* constants: what the calls of the reconciler do to the data, one lemma   *)
(* per action or group of actions, and the theorem.                        *)
(***************************************************************************)
EXTENDS ROSACluster, TLAPS

-----------------------------------------------------------------------------
(* Facts about the data *)

LEMMA NewObjectType == NewObject \in Objects /\ NewObject # None
  <1>1. NewStatus \in ROSAClusterStatus
    BY DEF NewStatus, ROSAClusterStatus
  <1>2. 1 \in 1..MaxGeneration
    BY MaxGenerationAssumption
  <1>3. NewObject \in Objects
    BY <1>1, <1>2 DEF NewObject, Objects
  <1> QED
    BY <1>3, NoneAssumption

LEMMA ObjectNotNone == ASSUME NEW o \in Objects PROVE o # None
  BY NoneAssumption

LEMMA AddConditionType ==
  ASSUME NEW cs \in SUBSET AllConditions, NEW c \in AllConditions
  PROVE  AddCondition(cs, c) \in SUBSET AllConditions
  BY DEF AddCondition

LEMMA WithStatus ==
  ASSUME NEW o \in Objects, NEW st \in ROSAClusterStatus
  PROVE  /\ [o EXCEPT !.status = st] \in Objects
         /\ [o EXCEPT !.status = st].status = st
         /\ [o EXCEPT !.status = st].finalizer = o.finalizer
         /\ [o EXCEPT !.status = st].deleting = o.deleting
         /\ [o EXCEPT !.status = st].generation = o.generation
  BY DEF Objects

LEMMA MergePatchType ==
  ASSUME NEW s \in ROSAClusterStatus, NEW f \in ROSAClusterStatus, NEW t \in ROSAClusterStatus
  PROVE  MergePatch(s, f, t) \in ROSAClusterStatus
  BY DEF MergePatch, Merged, ROSAClusterStatus

\* What a status patch leaves alone, and the types it keeps.
LEMMA PatchStatusFacts ==
  ASSUME obj \in Objects \cup {None}, original \in Objects,
         NEW from \in ROSAClusterStatus, NEW to \in ROSAClusterStatus, NEW locked \in BOOLEAN,
         PatchStatus(from, to, locked)
  PROVE  /\ obj \in Objects /\ obj' \in Objects /\ original' \in Objects
         /\ obj'.finalizer = obj.finalizer
         /\ obj'.deleting = obj.deleting
         /\ obj'.generation = obj.generation
         /\ \/ obj' = obj /\ original' = [original EXCEPT !.status = to]
            \/ /\ obj' = [obj EXCEPT !.status = MergePatch(obj.status, from, to)]
               /\ original' = obj'
  <1>1. obj \in Objects
    BY DEF PatchStatus
  <1>2. obj.status \in ROSAClusterStatus
    BY <1>1 DEF Objects
  <1>3. MergePatch(obj.status, from, to) \in ROSAClusterStatus
    BY <1>2, MergePatchType
  <1>4. CASE locked /\ Modified
    <2>1. obj' = obj /\ original' = [original EXCEPT !.status = to]
      BY <1>4 DEF PatchStatus
    <2> QED
      BY <1>1, <2>1, WithStatus
  <1>5. CASE ~(locked /\ Modified)
    <2>1. obj' = [obj EXCEPT !.status = MergePatch(obj.status, from, to)] /\ original' = obj'
      BY <1>5 DEF PatchStatus
    <2> QED
      BY <1>1, <1>3, <2>1, WithStatus
  <1> QED
    BY <1>4, <1>5

LEMMA UpdateConditionFacts ==
  ASSUME obj \in Objects \cup {None}, original \in Objects,
         NEW c \in AllConditions, UpdateCondition(c)
  PROVE  /\ obj' \in Objects \cup {None} /\ original' \in Objects
         /\ (obj' = None) <=> (obj = None)
         /\ obj # None => /\ obj'.finalizer = obj.finalizer
                          /\ obj'.deleting = obj.deleting
                          /\ obj'.generation = obj.generation
         /\ original' \in {original, obj'}
  <1> DEFINE to == [original.status EXCEPT
                      !.conditions = AddCondition(original.status.conditions, c)]
  <1>1. original.status \in ROSAClusterStatus
    BY DEF Objects
  <1>2. AddCondition(original.status.conditions, c) \in SUBSET AllConditions
    BY <1>1, AddConditionType DEF ROSAClusterStatus
  <1>3. to \in ROSAClusterStatus
    BY <1>1, <1>2 DEF ROSAClusterStatus
  <1>4. CASE IsSet(c, original.status.conditions)
    BY <1>4 DEF UpdateCondition
  <1>5. CASE ~IsSet(c, original.status.conditions)
    <2> HIDE DEF to
    <2>1. PatchStatus(original.status, to, FALSE)
      BY <1>5 DEF UpdateCondition, to
    <2>2. obj \in Objects /\ obj' \in Objects
      BY <1>1, <1>3, <2>1, PatchStatusFacts
    <2>3. original' = obj'
      BY <2>1 DEF PatchStatus
    <2> QED
      BY <1>1, <1>3, <2>1, <2>2, <2>3, PatchStatusFacts, ObjectNotNone
  <1> QED
    BY <1>4, <1>5

LEMMA WithConfig ==
  ASSUME NEW o \in Objects, NEW id \in ConfigIDs
  PROVE  /\ [o EXCEPT !.status.config = id] \in Objects
         /\ [o EXCEPT !.status.config = id].status.config = id
         /\ [o EXCEPT !.status.config = id].finalizer = o.finalizer
         /\ [o EXCEPT !.status.config = id].status.conditions = o.status.conditions
  BY DEF Objects, ROSAClusterStatus

LEMMA WithProvider ==
  ASSUME NEW o \in Objects, NEW id \in ConfigIDs
  PROVE  /\ [o EXCEPT !.status.provider = id] \in Objects
         /\ [o EXCEPT !.status.provider = id].finalizer = o.finalizer
         /\ [o EXCEPT !.status.provider = id].status.conditions = o.status.conditions
  BY DEF Objects, ROSAClusterStatus

LEMMA WithClusterID ==
  ASSUME NEW o \in Objects, NEW id \in ClusterIDs
  PROVE  /\ [o EXCEPT !.status.clusterID = id] \in Objects
         /\ [o EXCEPT !.status.clusterID = id].finalizer = o.finalizer
         /\ [o EXCEPT !.status.clusterID = id].status.conditions = o.status.conditions
  BY DEF Objects, ROSAClusterStatus

-----------------------------------------------------------------------------
(* Type correctness.  TypeOK alone is not inductive: a step that reads         *)
(* original.status needs a request in progress, and one that adds a provider   *)
(* needs a config id that is not empty.                                        *)

CreateSteps ==
  {"EnsureOIDCConfig", "SaveOIDCConfig", "EnsureOIDCProvider", "SaveOIDCProvider",
   "CreateOperatorRoles", "SaveRolesCreated", "CreateCluster", "SaveClusterID"}

InProgress ==
  /\ pc # "Idle" => original \in Objects
  /\ pc \in CreateSteps => snapshot \in Objects
  /\ pc \notin {"Idle", "SavePrefix"} => desired.prefix \in Prefixes
  /\ pc = "EnsureOIDCConfig" => snapshot = original
  /\ pc = "SaveOIDCConfig" => snapshot.status.config = NoID /\ original.status.config \in ConfigIDs
  /\ pc = "EnsureOIDCProvider" => original.status.config \in ConfigIDs

Typed == TypeOK /\ InProgress

LEMMA InitTyped == Init => Typed
  <1> SUFFICES ASSUME Init PROVE Typed
    OBVIOUS
  <1>1. KubernetesOK
    BY NewObjectType DEF Init, KubernetesOK
  <1>2. QueueOK
    BY Zenon DEF Init, QueueOK
  <1>3. RequestOK
    <2>1. refreshed \in BOOLEAN
      BY Zenon DEF Init
    <2>2. desired \in [generation: 0..MaxGeneration, prefix: Prefixes \cup {NoID}]
      BY MaxGenerationAssumption DEF Init, NoDesired
    <2> QED
      BY <2>1, <2>2 DEF Init, RequestOK, Steps
  <1>4. CloudOK
    BY DEF Init, CloudOK
  <1>5. InProgress
    BY DEF Init, InProgress, CreateSteps
  <1> QED
    BY <1>1, <1>2, <1>3, <1>4, <1>5 DEF Typed, TypeOK

\* A reconcile that ends leaves no request behind.
LEMMA ReturnTyped ==
  ASSUME QueueOK, NEW requeue \in BOOLEAN, Return(requeue), queued' = queued
  PROVE  QueueOK' /\ RequestOK' /\ InProgress'
  <1>1. QueueOK'
    <2>1. timer' \in BOOLEAN
      BY Zenon DEF Return
    <2> QED
      BY <2>1, Zenon DEF QueueOK
  <1>2. RequestOK'
    <2>1. refreshed' \in BOOLEAN
      BY Zenon DEF Return
    <2>2. desired' \in [generation: 0..MaxGeneration, prefix: Prefixes \cup {NoID}]
      BY MaxGenerationAssumption DEF Return, NoDesired
    <2> QED
      BY <2>1, <2>2 DEF Return, RequestOK, Steps
  <1>3. InProgress'
    BY DEF Return, InProgress, CreateSteps
  <1> QED
    BY <1>1, <1>2, <1>3

LEMMA QueueKept == QueueOK /\ UNCHANGED queue => QueueOK'
  BY Zenon DEF QueueOK, queue

LEMMA ErrorTyped == Typed /\ (NewRequestNotFound \/ CallRefused \/ CallFails) => Typed'
  <1> SUFFICES ASSUME Typed, NewRequestNotFound \/ CallRefused \/ CallFails PROVE Typed'
    OBVIOUS
  <1>1. \E b \in BOOLEAN : Return(b)
    BY Zenon DEF NewRequestNotFound, CallRefused, CallFails, ReturnError
  <1>2. UNCHANGED <<kubernetes, queued, cloud, children>>
    BY DEF NewRequestNotFound, CallRefused, CallFails, ReturnError
  <1>3. QueueOK' /\ RequestOK' /\ InProgress'
    BY <1>1, <1>2, ReturnTyped DEF Typed, TypeOK
  <1>4. KubernetesOK' /\ CloudOK'
    BY <1>2 DEF Typed, TypeOK, KubernetesOK, kubernetes, CloudOK, cloud
  <1> QED
    BY <1>3, <1>4 DEF Typed, TypeOK

\* The informers list only children without an id or with one OCM handed out.
LEMMA ChildListsTyped ==
  ASSUME CloudOK, NEW list \in ChildLists
  PROVE  list \subseteq ClusterIDs \cup {NoID}
  BY DEF ChildLists, CloudOK

LEMMA CrashTyped == Typed /\ Crash => Typed'
  <1> SUFFICES ASSUME Typed, Crash PROVE Typed'
    OBVIOUS
  <1>1. QueueOK'
    BY Zenon DEF Crash, QueueOK
  <1>2. RequestOK'
    <2>1. refreshed' \in BOOLEAN
      BY Zenon DEF Crash
    <2>2. desired' \in [generation: 0..MaxGeneration, prefix: Prefixes \cup {NoID}]
      BY MaxGenerationAssumption DEF Crash, NoDesired
    <2> QED
      BY <2>1, <2>2 DEF Crash, RequestOK, Steps
  <1>3. InProgress'
    BY DEF Crash, InProgress, CreateSteps
  <1>4. KubernetesOK'
    BY DEF Crash, Typed, TypeOK, KubernetesOK
  <1>5. CloudOK'
    BY ChildListsTyped DEF Crash, Typed, TypeOK, CloudOK, cloud
  <1> QED
    BY <1>1, <1>2, <1>3, <1>4, <1>5 DEF Typed, TypeOK

LEMMA UserEditTypes ==
  ASSUME NEW o \in Objects
  PROVE  /\ o.generation < MaxGeneration
              => [o EXCEPT !.generation = o.generation + 1] \in Objects
         /\ [o EXCEPT !.deleting = TRUE] \in Objects
         /\ [o EXCEPT !.finalizer = TRUE] \in Objects
         /\ [o EXCEPT !.finalizer = FALSE] \in Objects
  <1>1. o.generation < MaxGeneration => [o EXCEPT !.generation = o.generation + 1] \in Objects
    BY MaxGenerationAssumption DEF Objects
  <1>2. [o EXCEPT !.deleting = TRUE] \in Objects
    BY DEF Objects
  <1>3. [o EXCEPT !.finalizer = TRUE] \in Objects
    BY DEF Objects
  <1>4. [o EXCEPT !.finalizer = FALSE] \in Objects
    BY DEF Objects
  <1> QED
    BY <1>1, <1>2, <1>3, <1>4

LEMMA ClusterTypes ==
  ASSUME NEW c \in Clusters, NEW s \in ClusterStates, NEW n \in Nat
  PROVE  [c EXCEPT !.state = s] \in Clusters /\ [c EXCEPT !.spec = n] \in Clusters
  BY DEF Clusters

\* No step of the world around the operator touches the request.
LEMMA WorldTyped == Typed /\ World => Typed'
  <1> SUFFICES ASSUME Typed, World PROVE Typed'
    OBVIOUS
  <1>1. UNCHANGED <<pc, request>>
    BY DEF World, SyncCache, TimerFires, UserRecreates, UserEdits, UserDeletes, OCMProvisions,
           OCMUninstalls, OthersCreateCluster, OthersDeleteCluster, ChildrenChange,
           ClusterChanges
  <1>2. RequestOK' /\ InProgress'
    <2>1. refreshed' \in BOOLEAN
      BY <1>1, Zenon DEF Typed, TypeOK, RequestOK, request
    <2> QED
      BY <1>1, <2>1 DEF Typed, TypeOK, RequestOK, InProgress, request
  <1>3. QueueOK'
    <2>1. CASE UNCHANGED queue
      BY <2>1, QueueKept DEF Typed, TypeOK
    <2>2. CASE SyncCache
      BY <2>2, Zenon DEF SyncCache, Typed, TypeOK, QueueOK
    <2>3. CASE TimerFires
      BY <2>3, Zenon DEF TimerFires, QueueOK
    <2>4. CASE UserRecreates
      BY <2>4, Zenon DEF UserRecreates, Typed, TypeOK, QueueOK
    <2> QED
      BY <2>1, <2>2, <2>3, <2>4
         DEF World, UserEdits, UserDeletes, OCMProvisions, OCMUninstalls, OthersCreateCluster,
             OthersDeleteCluster, ChildrenChange, ClusterChanges
  <1>4. KubernetesOK'
    <2>1. CASE UNCHANGED kubernetes
      BY <2>1 DEF Typed, TypeOK, KubernetesOK, kubernetes
    <2>2. CASE SyncCache
      BY <2>2 DEF SyncCache, Typed, TypeOK, KubernetesOK
    <2>3. CASE UserRecreates
      BY <2>3, NewObjectType DEF UserRecreates, Typed, TypeOK, KubernetesOK
    <2>4. CASE UserEdits
      BY <2>4, UserEditTypes DEF UserEdits, Typed, TypeOK, KubernetesOK
    <2>5. CASE UserDeletes
      BY <2>5, UserEditTypes DEF UserDeletes, Typed, TypeOK, KubernetesOK
    <2> QED
      BY <2>1, <2>2, <2>3, <2>4, <2>5
         DEF World, TimerFires, OCMProvisions, OCMUninstalls, OthersCreateCluster,
             OthersDeleteCluster, ChildrenChange, ClusterChanges
  <1>5. CloudOK'
    <2>1. CASE UNCHANGED <<cloud, children>>
      BY <2>1 DEF Typed, TypeOK, CloudOK, cloud
    <2>2. CASE OCMProvisions
      BY <2>2, ClusterTypes DEF OCMProvisions, ClusterChanges, ClusterStates, Typed, TypeOK, CloudOK
    <2>3. CASE OCMUninstalls
      BY <2>3 DEF OCMUninstalls, ClusterChanges, Typed, TypeOK, CloudOK
    <2>4. CASE OthersCreateCluster
      <3>1. PICK id \in ClusterIDs \ used :
              /\ ClusterChanges([id |-> id, state |-> "ready", spec |-> 0, mine |-> FALSE,
                                 config |-> NoID, prefix |-> NoID])
              /\ used' = used \cup {id}
        BY <2>4 DEF OthersCreateCluster
      <3>2. cluster' \in Clusters
        BY <3>1 DEF ClusterChanges, Clusters, ClusterStates
      <3> QED
        BY <3>1, <3>2 DEF ClusterChanges, Typed, TypeOK, CloudOK
    <2>5. CASE OthersDeleteCluster
      BY <2>5, ClusterTypes
         DEF OthersDeleteCluster, ClusterChanges, ClusterStates, Typed, TypeOK, CloudOK
    <2>6. CASE ChildrenChange
      BY <2>6, ChildListsTyped DEF ChildrenChange, cloud, Typed, TypeOK, CloudOK
    <2> QED
      BY <2>1, <2>2, <2>3, <2>4, <2>5, <2>6
         DEF World, SyncCache, TimerFires, UserRecreates, UserEdits, UserDeletes
  <1> QED
    BY <1>2, <1>3, <1>4, <1>5 DEF Typed, TypeOK

-----------------------------------------------------------------------------

LEMMA StartTyped == Typed /\ Start => Typed'
  <1> SUFFICES ASSUME Typed, Start PROVE Typed'
    OBVIOUS
  <1>1. KubernetesOK' /\ CloudOK'
    BY DEF Start, Typed, TypeOK, KubernetesOK, kubernetes, CloudOK, cloud
  <1>2. QueueOK'
    BY Zenon DEF Start, Typed, TypeOK, QueueOK
  <1>3. refreshed' \in BOOLEAN
    BY Zenon DEF Start, Typed, TypeOK, RequestOK
  <1>4. CASE cache = None
    <2>1. UNCHANGED <<pc, request>>
      BY <1>4 DEF Start, request
    <2> QED
      BY <1>1, <1>2, <1>3, <2>1 DEF Typed, TypeOK, RequestOK, InProgress, request
  <1>5. CASE cache # None
    <2>1. /\ original' = cache /\ cache \in Objects
          /\ desired' = [generation |-> cache.generation, prefix |-> cache.status.prefix]
          /\ pc' = IF cache.status.prefix = NoID THEN "SavePrefix" ELSE "SetVersion"
          /\ snapshot' = snapshot /\ current' = current
      BY <1>5 DEF Start, Typed, TypeOK, KubernetesOK
    <2>2. cache.generation \in 0..MaxGeneration /\ cache.status.prefix \in Prefixes \cup {NoID}
      BY <2>1, MaxGenerationAssumption DEF Objects, ROSAClusterStatus
    <2>3. RequestOK'
      BY <1>3, <2>1, <2>2 DEF Typed, TypeOK, RequestOK, Steps
    <2>4. InProgress'
      BY <2>1, <2>2 DEF InProgress, CreateSteps
    <2> QED
      BY <1>1, <1>2, <2>3, <2>4 DEF Typed, TypeOK
  <1> QED
    BY <1>4, <1>5

LEMMA SavePrefixTyped == Typed /\ SavePrefix => Typed'
  <1> SUFFICES ASSUME Typed, SavePrefix PROVE Typed'
    OBVIOUS
  <1>1. PICK p \in IF SpecPrefix = NoID THEN Prefixes \ used ELSE {SpecPrefix} :
          /\ PatchStatus(original.status, [original.status EXCEPT !.prefix = p], FALSE)
          /\ desired' = [desired EXCEPT !.prefix = p]
          /\ used' = used \cup {p}
    BY DEF SavePrefix
  <1>2. p \in Prefixes
    BY <1>1, IDsAssumption
  <1>3. original \in Objects /\ original.status \in ROSAClusterStatus
    BY DEF SavePrefix, Typed, InProgress, Objects
  <1>4. [original.status EXCEPT !.prefix = p] \in ROSAClusterStatus
    BY <1>2, <1>3 DEF ROSAClusterStatus
  <1>5. obj' \in Objects /\ original' \in Objects
    BY <1>1, <1>3, <1>4, PatchStatusFacts DEF Typed, TypeOK, KubernetesOK
  <1>6. KubernetesOK' /\ CloudOK'
    BY <1>1, <1>2, <1>5 DEF SavePrefix, Typed, TypeOK, KubernetesOK, CloudOK
  <1>7. QueueOK'
    BY QueueKept DEF SavePrefix, Goto, Typed, TypeOK
  <1>8. /\ desired' \in [generation: 0..MaxGeneration, prefix: Prefixes \cup {NoID}]
        /\ desired'.prefix \in Prefixes
    BY <1>1, <1>2 DEF Typed, TypeOK, RequestOK
  <1>9. RequestOK'
    <2>1. refreshed' \in BOOLEAN
      BY Zenon DEF SavePrefix, Typed, TypeOK, RequestOK
    <2> QED
      BY <1>5, <1>8, <2>1 DEF SavePrefix, Goto, Typed, TypeOK, RequestOK, Steps, PatchSteps
  <1>10. InProgress'
    BY <1>5, <1>8 DEF SavePrefix, Goto, InProgress, CreateSteps
  <1> QED
    BY <1>6, <1>7, <1>9, <1>10 DEF Typed, TypeOK

LEMMA SetVersionTyped == Typed /\ SetVersion => Typed'
  <1> SUFFICES ASSUME Typed, SetVersion PROVE Typed'
    OBVIOUS
  <1>1. original \in Objects /\ original.status \in ROSAClusterStatus
    BY DEF SetVersion, Typed, InProgress, Objects
  <1>2. [original.status EXCEPT !.version = TRUE] \in ROSAClusterStatus
    BY <1>1 DEF ROSAClusterStatus
  <1>3. obj' \in Objects \cup {None} /\ original' \in Objects
    <2>1. CASE original.status.version
      BY <1>1, <2>1 DEF SetVersion, Typed, TypeOK, KubernetesOK
    <2>2. CASE ~original.status.version
      <3>1. PatchStatus(original.status, [original.status EXCEPT !.version = TRUE], FALSE)
        BY <2>2 DEF SetVersion
      <3> QED
        BY <1>1, <1>2, <3>1, PatchStatusFacts DEF Typed, TypeOK, KubernetesOK
    <2> QED
      BY <2>1, <2>2
  <1>4. KubernetesOK' /\ CloudOK'
    BY <1>3 DEF SetVersion, Typed, TypeOK, KubernetesOK, CloudOK, cloud
  <1>5. QueueOK'
    BY QueueKept DEF SetVersion, Goto, Typed, TypeOK
  <1>6. RequestOK'
    <2>1. refreshed' \in BOOLEAN
      BY Zenon DEF SetVersion, Typed, TypeOK, RequestOK
    <2> QED
      BY <1>3, <2>1 DEF SetVersion, Goto, Typed, TypeOK, RequestOK, Steps, PatchSteps
  <1>7. InProgress'
    BY <1>3 DEF SetVersion, Goto, Typed, InProgress, CreateSteps
  <1> QED
    BY <1>4, <1>5, <1>6, <1>7 DEF Typed, TypeOK

\* The steps that do nothing but conditions.Update and go on.
LEMMA NotifyTyped ==
  ASSUME Typed, NEW c \in AllConditions, UpdateCondition(c),
         NEW next \in Steps \ (CreateSteps \cup {"Idle", "SavePrefix"}), Goto(next),
         pc \notin {"Idle", "SavePrefix"},
         UNCHANGED <<cache, snapshot, refreshed, desired, current, cloud, children>>
  PROVE  Typed'
  <1>1. obj' \in Objects \cup {None} /\ original' \in Objects
    BY UpdateConditionFacts DEF Typed, TypeOK, KubernetesOK, InProgress
  <1>2. KubernetesOK' /\ CloudOK'
    BY <1>1 DEF Typed, TypeOK, KubernetesOK, CloudOK, cloud
  <1>3. QueueOK'
    BY QueueKept DEF Goto, Typed, TypeOK
  <1>4. RequestOK'
    <2>1. refreshed' \in BOOLEAN
      BY Zenon DEF Typed, TypeOK, RequestOK
    <2> QED
      BY <1>1, <2>1 DEF Goto, Typed, TypeOK, RequestOK
  <1>5. InProgress'
    BY <1>1 DEF Goto, Typed, InProgress, CreateSteps
  <1> QED
    BY <1>2, <1>3, <1>4, <1>5 DEF Typed, TypeOK

LEMMA NotificationsTyped ==
  Typed /\ (\/ ReconcileTrigger \/ NotifyCreated \/ NotifyUpdated \/ NotifyUninstalling
            \/ NotifyRolesDeleted \/ NotifyProviderDeleted \/ NotifyConfigDeleted) => Typed'
  <1> SUFFICES ASSUME Typed, \/ ReconcileTrigger \/ NotifyCreated \/ NotifyUpdated
                             \/ NotifyUninstalling \/ NotifyRolesDeleted
                             \/ NotifyProviderDeleted \/ NotifyConfigDeleted
               PROVE  Typed'
    OBVIOUS
  <1>1. PICK c \in AllConditions, next \in Steps \ (CreateSteps \cup {"Idle", "SavePrefix"}) :
          UpdateCondition(c) /\ Goto(next)
    <2>1. \A b \in {ClusterCreated, ClusterUpdated, ClusterUninstalling, OperatorRolesDeleted,
                    OIDCProviderDeleted, OIDCConfigDeleted, Reconciling("Update"),
                    Reconciling("Delete")} : b \in AllConditions
      BY DEF AllConditions
    <2>2. {"FindChildObjects", "AddFinalizer", "WaitUntilReady", "WaitUntilMissing",
           "DestroyOIDCConfig", "DestroyOIDCProvider", "RemoveFinalizer"}
            \subseteq Steps \ (CreateSteps \cup {"Idle", "SavePrefix"})
      BY DEF Steps, PatchSteps, CreateSteps
    <2> QED
      BY <2>1, <2>2
         DEF ReconcileTrigger, GetTrigger, NotifyCreated, NotifyUpdated, NotifyUninstalling,
             NotifyRolesDeleted, NotifyProviderDeleted, NotifyConfigDeleted, Notify
  <1>2. /\ pc \notin {"Idle", "SavePrefix"}
        /\ UNCHANGED <<cache, snapshot, refreshed, desired, current, cloud, children>>
    BY DEF ReconcileTrigger, NotifyCreated, NotifyUpdated, NotifyUninstalling,
           NotifyRolesDeleted, NotifyProviderDeleted, NotifyConfigDeleted, Notify
  <1> QED
    BY <1>1, <1>2, NotifyTyped

-----------------------------------------------------------------------------

\* A step that keeps the request and goes on outside createCluster.
LEMMA GoOnTyped ==
  ASSUME Typed, NEW next \in Steps \ (CreateSteps \cup {"Idle", "SavePrefix"}), Goto(next),
         pc \notin {"Idle", "SavePrefix"}, UNCHANGED request
  PROVE  QueueOK' /\ RequestOK' /\ InProgress'
  <1>1. QueueOK'
    BY QueueKept DEF Goto, Typed, TypeOK
  <1>2. refreshed' \in BOOLEAN
    BY Zenon DEF Typed, TypeOK, RequestOK, request
  <1>3. RequestOK'
    BY <1>2 DEF Goto, Typed, TypeOK, RequestOK, request
  <1>4. InProgress'
    BY DEF Goto, Typed, InProgress, CreateSteps, request
  <1> QED
    BY <1>1, <1>3, <1>4

LEMMA WaitTyped == Typed /\ (FindChildObjects \/ WaitUntilMissing \/ WaitUntilReady) => Typed'
  <1> SUFFICES ASSUME Typed, FindChildObjects \/ WaitUntilMissing \/ WaitUntilReady PROVE Typed'
    OBVIOUS
  <1>1. /\ pc \notin {"Idle", "SavePrefix"}
        /\ UNCHANGED <<kubernetes, cloud, children>>
    BY DEF FindChildObjects, WaitUntilMissing, WaitUntilReady
  <1>2. \/ Return(TRUE) /\ queued' = queued
        \/ /\ \/ Goto("DestroyCluster") \/ Goto("DestroyOperatorRoles") \/ Goto("Complete")
           /\ UNCHANGED request
    BY DEF FindChildObjects, WaitUntilMissing, WaitUntilReady
  <1>3. QueueOK' /\ RequestOK' /\ InProgress'
    <2>1. CASE Return(TRUE) /\ queued' = queued
      BY <2>1, ReturnTyped DEF Typed, TypeOK
    <2>2. CASE /\ \/ Goto("DestroyCluster") \/ Goto("DestroyOperatorRoles") \/ Goto("Complete")
               /\ UNCHANGED request
      <3>1. {"DestroyCluster", "DestroyOperatorRoles", "Complete"}
              \subseteq Steps \ (CreateSteps \cup {"Idle", "SavePrefix"})
        BY DEF Steps, PatchSteps, CreateSteps
      <3> QED
        BY <1>1, <2>2, <3>1, GoOnTyped
    <2> QED
      BY <1>2, <2>1, <2>2
  <1>4. KubernetesOK' /\ CloudOK'
    BY <1>1 DEF Typed, TypeOK, KubernetesOK, kubernetes, CloudOK, cloud
  <1> QED
    BY <1>3, <1>4 DEF Typed, TypeOK

LEMMA RoleTypes ==
  ASSUME CloudOK, NEW p \in Prefixes, NEW r \in {"none", "some", "all"}
  PROVE  [roles EXCEPT ![p] = r] \in [Prefixes -> {"none", "some", "all"}]
  BY DEF CloudOK

LEMMA DestroyTyped ==
  Typed /\ (DestroyCluster \/ DestroyOperatorRoles \/ DestroyOIDCConfig \/ DestroyOIDCProvider)
    => Typed'
  <1> SUFFICES ASSUME Typed, \/ DestroyCluster \/ DestroyOperatorRoles
                             \/ DestroyOIDCConfig \/ DestroyOIDCProvider
               PROVE  Typed'
    OBVIOUS
  <1>1. /\ pc \notin {"Idle", "SavePrefix"}
        /\ UNCHANGED <<kubernetes, request, used, children>>
    BY DEF DestroyCluster, DestroyOperatorRoles, DestroyOIDCConfig, DestroyOIDCProvider
  <1>2. \E next \in Steps \ (CreateSteps \cup {"Idle", "SavePrefix"}) : Goto(next)
    <2>1. {"WaitUntilMissing", "NotifyUninstalling", "DestroyOIDCConfig", "NotifyRolesDeleted",
           "DestroyOIDCProvider", "NotifyProviderDeleted", "RemoveFinalizer",
           "NotifyConfigDeleted"} \subseteq Steps \ (CreateSteps \cup {"Idle", "SavePrefix"})
      BY DEF Steps, PatchSteps, CreateSteps
    <2> QED
      BY <2>1 DEF DestroyCluster, DestroyOperatorRoles, DestroyOIDCConfig, DestroyOIDCProvider
  <1>3. QueueOK' /\ RequestOK' /\ InProgress'
    BY <1>1, <1>2, GoOnTyped
  <1>4. KubernetesOK'
    BY <1>1 DEF Typed, TypeOK, KubernetesOK, kubernetes
  <1>5. CloudOK'
    <2>1. CASE DestroyCluster
      BY <2>1, ClusterTypes DEF DestroyCluster, ClusterStates, Typed, TypeOK, CloudOK
    <2>2. CASE DestroyOperatorRoles
      <3>1. desired.prefix \in Prefixes
        BY <1>1 DEF Typed, InProgress
      <3>2. roles' \in [Prefixes -> {"none", "some", "all"}]
        BY <2>2, <3>1, RoleTypes DEF DestroyOperatorRoles, Typed, TypeOK, CloudOK
      <3> QED
        BY <2>2, <3>2 DEF DestroyOperatorRoles, Typed, TypeOK, CloudOK
    <2>3. CASE DestroyOIDCConfig
      BY <2>3 DEF DestroyOIDCConfig, Typed, TypeOK, CloudOK
    <2>4. CASE DestroyOIDCProvider
      BY <2>4 DEF DestroyOIDCProvider, Typed, TypeOK, CloudOK
    <2> QED
      BY <2>1, <2>2, <2>3, <2>4
  <1> QED
    BY <1>3, <1>4, <1>5 DEF Typed, TypeOK

LEMMA RolesFailTyped ==
  Typed /\ (CreateOperatorRolesFails \/ DestroyOperatorRolesFails) => Typed'
  <1> SUFFICES ASSUME Typed, CreateOperatorRolesFails \/ DestroyOperatorRolesFails PROVE Typed'
    OBVIOUS
  <1>1. /\ Return(TRUE)
        /\ roles' = [roles EXCEPT ![desired.prefix] = "some"]
        /\ UNCHANGED <<kubernetes, queued, cluster, configs, providers, used, children>>
    BY DEF CreateOperatorRolesFails, DestroyOperatorRolesFails
  <1>2. desired.prefix \in Prefixes
    BY DEF CreateOperatorRolesFails, DestroyOperatorRolesFails, Typed, InProgress
  <1>3. QueueOK' /\ RequestOK' /\ InProgress'
    BY <1>1, ReturnTyped DEF Typed, TypeOK
  <1>4. KubernetesOK'
    BY <1>1 DEF Typed, TypeOK, KubernetesOK, kubernetes
  <1>5. roles' \in [Prefixes -> {"none", "some", "all"}]
    BY <1>1, <1>2, RoleTypes DEF Typed, TypeOK
  <1>6. CloudOK'
    BY <1>1, <1>5 DEF Typed, TypeOK, CloudOK
  <1> QED
    BY <1>3, <1>4, <1>6 DEF Typed, TypeOK

LEMMA CompleteTyped == Typed /\ Complete => Typed'
  <1> SUFFICES ASSUME Typed, Complete PROVE Typed'
    OBVIOUS
  <1>1. original \in Objects
    BY DEF Complete, Typed, InProgress
  <1>2. AddCondition(original.status.conditions, Reconciled("Create")) \in SUBSET AllConditions
    <2>1. original.status.conditions \in SUBSET AllConditions
      BY <1>1 DEF Objects, ROSAClusterStatus
    <2>2. Reconciled("Create") \in AllConditions
      BY DEF AllConditions
    <2> QED
      BY <2>1, <2>2, AddConditionType
  <1>3. obj' \in Objects \cup {None}
    <2>1. ASSUME NEW o \in Objects, NEW cs \in SUBSET AllConditions
          PROVE  [o EXCEPT !.status.conditions = cs] \in Objects
      BY DEF Objects, ROSAClusterStatus
    <2> QED
      BY <1>2, <2>1 DEF Complete, Typed, TypeOK, KubernetesOK
  <1>4. KubernetesOK' /\ CloudOK'
    BY <1>3 DEF Complete, Typed, TypeOK, KubernetesOK, CloudOK, cloud
  <1>5. QueueOK' /\ RequestOK' /\ InProgress'
    BY ReturnTyped DEF Complete, Typed, TypeOK
  <1> QED
    BY <1>4, <1>5 DEF Typed, TypeOK

LEMMA RemoveFinalizerTyped == Typed /\ RemoveFinalizer => Typed'
  <1> SUFFICES ASSUME Typed, RemoveFinalizer PROVE Typed'
    OBVIOUS
  <1>1. obj' \in Objects \cup {None}
    BY UserEditTypes DEF RemoveFinalizer, Typed, TypeOK, KubernetesOK
  <1>2. KubernetesOK' /\ CloudOK'
    BY <1>1 DEF RemoveFinalizer, Typed, TypeOK, KubernetesOK, CloudOK, cloud
  <1>3. QueueOK' /\ RequestOK' /\ InProgress'
    BY ReturnTyped DEF RemoveFinalizer, Typed, TypeOK
  <1> QED
    BY <1>2, <1>3 DEF Typed, TypeOK

-----------------------------------------------------------------------------

LEMMA AddFinalizerTyped == Typed /\ AddFinalizer => Typed'
  <1> SUFFICES ASSUME Typed, AddFinalizer PROVE Typed'
    OBVIOUS
  <1>1. obj' \in Objects \cup {None} /\ original' \in Objects
    BY UserEditTypes DEF AddFinalizer, Typed, TypeOK, KubernetesOK, InProgress
  <1>2. KubernetesOK' /\ CloudOK'
    BY <1>1 DEF AddFinalizer, Typed, TypeOK, KubernetesOK, CloudOK, cloud
  <1>3. QueueOK'
    BY QueueKept DEF AddFinalizer, Goto, Typed, TypeOK
  <1>4. refreshed' \in BOOLEAN
    BY Zenon DEF AddFinalizer, Typed, TypeOK, RequestOK
  <1>5. RequestOK'
    BY <1>1, <1>4 DEF AddFinalizer, Goto, Typed, TypeOK, RequestOK, Steps
  <1>6. InProgress'
    BY <1>1 DEF AddFinalizer, Goto, Typed, InProgress, CreateSteps
  <1> QED
    BY <1>2, <1>3, <1>5, <1>6 DEF Typed, TypeOK

LEMMA GetCurrentStateTyped == Typed /\ GetCurrentState => Typed'
  <1> SUFFICES ASSUME Typed, GetCurrentState PROVE Typed'
    OBVIOUS
  <1>1. KubernetesOK' /\ CloudOK'
    BY DEF GetCurrentState, Typed, TypeOK, KubernetesOK, kubernetes, CloudOK, cloud
  <1>2. QueueOK'
    BY QueueKept DEF GetCurrentState, Goto, Typed, TypeOK
  <1>3. refreshed' \in BOOLEAN
    BY Zenon DEF GetCurrentState, Typed, TypeOK, RequestOK
  <1>4. RequestOK'
    BY <1>3 DEF GetCurrentState, Goto, Typed, TypeOK, RequestOK, CloudOK, Steps
  <1>5. InProgress'
    BY DEF GetCurrentState, Goto, Typed, InProgress, CreateSteps
  <1> QED
    BY <1>1, <1>2, <1>4, <1>5 DEF Typed, TypeOK

LEMMA ApplyClusterTyped == Typed /\ ApplyCluster => Typed'
  <1> SUFFICES ASSUME Typed, ApplyCluster PROVE Typed'
    OBVIOUS
  <1>1. KubernetesOK' /\ CloudOK'
    BY DEF ApplyCluster, Typed, TypeOK, KubernetesOK, kubernetes, CloudOK, cloud
  <1>2. QueueOK'
    BY QueueKept DEF ApplyCluster, Goto, Typed, TypeOK
  <1>3. refreshed' \in BOOLEAN
    BY Zenon DEF ApplyCluster
  <1>4. RequestOK'
    BY <1>3 DEF ApplyCluster, Goto, Typed, TypeOK, RequestOK, Steps
  <1>5. InProgress'
    BY DEF ApplyCluster, Goto, Typed, InProgress, CreateSteps
  <1> QED
    BY <1>1, <1>2, <1>4, <1>5 DEF Typed, TypeOK

LEMMA EnsureOIDCConfigTyped == Typed /\ EnsureOIDCConfig => Typed'
  <1> SUFFICES ASSUME Typed, EnsureOIDCConfig PROVE Typed'
    OBVIOUS
  <1>1. original \in Objects /\ snapshot = original /\ desired.prefix \in Prefixes
    BY DEF EnsureOIDCConfig, Typed, InProgress
  <1>2. refreshed' \in BOOLEAN
    BY Zenon DEF EnsureOIDCConfig, Typed, TypeOK, RequestOK
  <1>3. QueueOK'
    BY QueueKept DEF EnsureOIDCConfig, Goto, Typed, TypeOK
  <1>4. KubernetesOK'
    BY DEF EnsureOIDCConfig, Typed, TypeOK, KubernetesOK, kubernetes
  <1>5. CASE original.status.config = NoID
    <2>1. PICK id \in ConfigIDs \ used :
            /\ configs' = configs \cup {id}
            /\ used' = used \cup {id}
            /\ original' = [original EXCEPT !.status.config = id]
            /\ pc' = "SaveOIDCConfig"
      BY <1>5 DEF EnsureOIDCConfig, Goto
    <2>2. original' \in Objects /\ original'.status.config \in ConfigIDs
      BY <1>1, <2>1, WithConfig
    <2>3. CloudOK'
      BY <2>1 DEF EnsureOIDCConfig, Typed, TypeOK, CloudOK
    <2>4. RequestOK'
      BY <1>2, <2>1, <2>2 DEF EnsureOIDCConfig, Typed, TypeOK, RequestOK, Steps, PatchSteps
    <2>5. InProgress'
      BY <1>1, <1>5, <2>1, <2>2 DEF EnsureOIDCConfig, Typed, InProgress, CreateSteps
    <2> QED
      BY <1>3, <1>4, <2>3, <2>4, <2>5 DEF Typed, TypeOK
  <1>6. CASE original.status.config # NoID
    <2>1. /\ original.status.config \in configs
          /\ pc' = "EnsureOIDCProvider"
          /\ UNCHANGED <<configs, used, original>>
      BY <1>6 DEF EnsureOIDCConfig, Goto
    <2>2. CloudOK'
      BY <2>1 DEF EnsureOIDCConfig, Typed, TypeOK, CloudOK
    <2>3. RequestOK'
      BY <1>2, <2>1 DEF EnsureOIDCConfig, Typed, TypeOK, RequestOK, Steps
    <2>4. InProgress'
      BY <1>1, <2>1 DEF EnsureOIDCConfig, Typed, TypeOK, CloudOK, InProgress, CreateSteps
    <2> QED
      BY <1>3, <1>4, <2>2, <2>3, <2>4 DEF Typed, TypeOK
  <1> QED
    BY <1>5, <1>6

\* The patches createCluster computes from its copy of original.
LEMMA SaveTyped ==
  ASSUME Typed, pc \in CreateSteps, NEW from \in ROSAClusterStatus, NEW to \in ROSAClusterStatus,
         NEW locked \in BOOLEAN, PatchStatus(from, to, locked), refreshed' \in BOOLEAN,
         NEW next \in Steps, Goto(next), next \notin {"Idle", "SavePrefix"},
         next \notin {"EnsureOIDCConfig", "SaveOIDCConfig"},
         next = "EnsureOIDCProvider" => original'.status.config \in ConfigIDs,
         UNCHANGED <<cache, snapshot, desired, current, cloud, children>>
  PROVE  Typed'
  <1>1. original \in Objects /\ pc # "Idle" /\ pc # "SavePrefix"
    BY DEF Typed, InProgress, CreateSteps
  <1>2. obj' \in Objects /\ original' \in Objects
    BY <1>1, PatchStatusFacts DEF Typed, TypeOK, KubernetesOK
  <1>3. KubernetesOK' /\ CloudOK'
    BY <1>2 DEF Typed, TypeOK, KubernetesOK, CloudOK, cloud
  <1>4. QueueOK'
    BY QueueKept DEF Goto, Typed, TypeOK
  <1>5. RequestOK'
    BY <1>2 DEF Goto, Typed, TypeOK, RequestOK
  <1>6. InProgress'
    BY <1>1, <1>2 DEF Goto, Typed, InProgress, CreateSteps
  <1> QED
    BY <1>3, <1>4, <1>5, <1>6 DEF Typed, TypeOK

LEMMA SaveOIDCConfigTyped == Typed /\ SaveOIDCConfig => Typed'
  <1> SUFFICES ASSUME Typed, SaveOIDCConfig PROVE Typed'
    OBVIOUS
  <1>1. /\ pc = "SaveOIDCConfig" /\ pc \in CreateSteps
        /\ original \in Objects /\ snapshot \in Objects
        /\ snapshot.status.config = NoID /\ original.status.config \in ConfigIDs
    BY DEF SaveOIDCConfig, Typed, InProgress, CreateSteps
  <1>2. original.status \in ROSAClusterStatus /\ snapshot.status \in ROSAClusterStatus
    BY <1>1 DEF Objects
  <1>3. refreshed \in BOOLEAN /\ refreshed' \in BOOLEAN
    BY Zenon DEF SaveOIDCConfig, Typed, TypeOK, RequestOK
  <1>4. PatchStatus(snapshot.status, original.status, refreshed)
    BY DEF SaveOIDCConfig
  <1>5. original'.status.config \in ConfigIDs
    <2>1. /\ obj \in Objects
          /\ \/ original' = [original EXCEPT !.status = original.status]
             \/ original' = [obj EXCEPT !.status = MergePatch(obj.status, snapshot.status, original.status)]
      BY <1>1, <1>2, <1>3, <1>4, PatchStatusFacts DEF Typed, TypeOK, KubernetesOK
    <2>2. obj.status \in ROSAClusterStatus
      BY <2>1 DEF Objects
    <2>3. MergePatch(obj.status, snapshot.status, original.status).config = original.status.config
      BY <1>1, IDsAssumption DEF MergePatch, Merged
    <2>4. MergePatch(obj.status, snapshot.status, original.status) \in ROSAClusterStatus
      BY <1>2, <2>2, MergePatchType
    <2>5. CASE original' = [original EXCEPT !.status = original.status]
      BY <1>1, <1>2, <2>5, WithStatus
    <2>6. CASE original' = [obj EXCEPT !.status = MergePatch(obj.status, snapshot.status, original.status)]
      <3>1. original'.status = MergePatch(obj.status, snapshot.status, original.status)
        BY <2>1, <2>4, <2>6, WithStatus
      <3> QED
        BY <1>1, <2>3, <3>1
    <2> QED
      BY <2>1, <2>5, <2>6
  <1> QED
    BY <1>1, <1>2, <1>3, <1>4, <1>5, SaveTyped DEF SaveOIDCConfig, Steps

LEMMA EnsureOIDCProviderTyped == Typed /\ EnsureOIDCProvider => Typed'
  <1> SUFFICES ASSUME Typed, EnsureOIDCProvider PROVE Typed'
    OBVIOUS
  <1>1. /\ original \in Objects /\ snapshot \in Objects /\ desired.prefix \in Prefixes
        /\ original.status.config \in ConfigIDs
    BY DEF EnsureOIDCProvider, Typed, InProgress, CreateSteps
  <1>2. refreshed' \in BOOLEAN
    BY Zenon DEF EnsureOIDCProvider, Typed, TypeOK, RequestOK
  <1>3. QueueOK'
    BY QueueKept DEF EnsureOIDCProvider, Goto, Typed, TypeOK
  <1>4. KubernetesOK' /\ CloudOK'
    BY <1>1 DEF EnsureOIDCProvider, Typed, TypeOK, KubernetesOK, kubernetes, CloudOK
  <1>5. original' \in Objects /\ pc' \in {"SaveOIDCProvider", "CreateOperatorRoles"}
    BY <1>1, WithProvider DEF EnsureOIDCProvider, Goto
  <1>6. RequestOK'
    BY <1>2, <1>5 DEF EnsureOIDCProvider, Typed, TypeOK, RequestOK, Steps, PatchSteps
  <1>7. InProgress'
    BY <1>1, <1>5 DEF EnsureOIDCProvider, InProgress
  <1> QED
    BY <1>3, <1>4, <1>6, <1>7 DEF Typed, TypeOK

LEMMA SaveSnapshotTyped == Typed /\ (SaveOIDCProvider \/ SaveClusterID) => Typed'
  <1> SUFFICES ASSUME Typed, SaveOIDCProvider \/ SaveClusterID PROVE Typed'
    OBVIOUS
  <1>1. /\ pc \in CreateSteps /\ original \in Objects /\ snapshot \in Objects
    BY DEF SaveOIDCProvider, SaveClusterID, Typed, InProgress, CreateSteps
  <1>2. original.status \in ROSAClusterStatus /\ snapshot.status \in ROSAClusterStatus
    BY <1>1 DEF Objects
  <1>3. refreshed \in BOOLEAN /\ refreshed' \in BOOLEAN
    BY Zenon DEF SaveOIDCProvider, SaveClusterID, Typed, TypeOK, RequestOK
  <1>4. /\ PatchStatus(snapshot.status, original.status, refreshed)
        /\ Goto("CreateOperatorRoles") \/ Goto("NotifyCreated")
        /\ UNCHANGED <<cache, snapshot, desired, current, cloud, children>>
    BY DEF SaveOIDCProvider, SaveClusterID
  <1>5. {"CreateOperatorRoles", "NotifyCreated"} \subseteq Steps
    BY DEF Steps, PatchSteps
  <1> QED
    BY <1>1, <1>2, <1>3, <1>4, <1>5, SaveTyped

LEMMA CreateOperatorRolesTyped == Typed /\ CreateOperatorRoles => Typed'
  <1> SUFFICES ASSUME Typed, CreateOperatorRoles PROVE Typed'
    OBVIOUS
  <1>1. original \in Objects /\ snapshot \in Objects /\ desired.prefix \in Prefixes
    BY DEF CreateOperatorRoles, Typed, InProgress, CreateSteps
  <1>2. refreshed' \in BOOLEAN
    BY Zenon DEF CreateOperatorRoles, Typed, TypeOK, RequestOK
  <1>3. QueueOK'
    BY QueueKept DEF CreateOperatorRoles, Goto, Typed, TypeOK
  <1>4. roles' \in [Prefixes -> {"none", "some", "all"}]
    BY <1>1, RoleTypes DEF CreateOperatorRoles, Typed, TypeOK, CloudOK
  <1>5. KubernetesOK' /\ CloudOK'
    BY <1>4 DEF CreateOperatorRoles, Typed, TypeOK, KubernetesOK, kubernetes, CloudOK
  <1>6. original' = original /\ pc' \in {"CreateCluster", "SaveRolesCreated"}
    BY DEF CreateOperatorRoles, Goto
  <1>7. RequestOK'
    BY <1>2, <1>6 DEF CreateOperatorRoles, Typed, TypeOK, RequestOK, Steps, PatchSteps
  <1>8. InProgress'
    BY <1>1, <1>6 DEF CreateOperatorRoles, InProgress
  <1> QED
    BY <1>3, <1>5, <1>7, <1>8 DEF Typed, TypeOK

LEMMA SaveRolesCreatedTyped == Typed /\ SaveRolesCreated => Typed'
  <1> SUFFICES ASSUME Typed, SaveRolesCreated PROVE Typed'
    OBVIOUS
  <1>1. pc \in CreateSteps /\ original \in Objects
    BY DEF SaveRolesCreated, Typed, InProgress, CreateSteps
  <1>2. /\ original.status \in ROSAClusterStatus
        /\ [original.status EXCEPT !.rolesCreated = TRUE] \in ROSAClusterStatus
    BY <1>1 DEF Objects, ROSAClusterStatus
  <1>3. refreshed' \in BOOLEAN
    BY Zenon DEF SaveRolesCreated
  <1>4. "CreateCluster" \in Steps
    BY DEF Steps
  <1> QED
    BY <1>1, <1>2, <1>3, <1>4, SaveTyped DEF SaveRolesCreated

LEMMA CreateClusterTyped == Typed /\ CreateCluster => Typed'
  <1> SUFFICES ASSUME Typed, CreateCluster PROVE Typed'
    OBVIOUS
  <1>1. original \in Objects /\ snapshot \in Objects /\ desired.prefix \in Prefixes
    BY DEF CreateCluster, Typed, InProgress, CreateSteps
  <1>2. PICK id \in ClusterIDs \ used :
          /\ cluster' = [id |-> id, state |-> "installing", spec |-> desired.generation,
                         mine |-> TRUE, config |-> original.status.config,
                         prefix |-> desired.prefix]
          /\ used' = used \cup {id}
          /\ original' = [original EXCEPT !.status.clusterID = id]
    BY DEF CreateCluster
  <1>3. original.status.config \in ConfigIDs \cup {NoID} /\ desired.generation \in Nat
    BY <1>1, MaxGenerationAssumption DEF Objects, ROSAClusterStatus, Typed, TypeOK, RequestOK
  <1>4. cluster' \in Clusters /\ current' = cluster'
    <2>1. cluster' \in Clusters
      BY <1>1, <1>2, <1>3 DEF Clusters, ClusterStates
    <2> QED
      BY <2>1 DEF CreateCluster
  <1>5. original' \in Objects
    BY <1>1, <1>2, WithClusterID
  <1>6. refreshed' \in BOOLEAN
    BY Zenon DEF CreateCluster, Typed, TypeOK, RequestOK
  <1>7. QueueOK'
    BY QueueKept DEF CreateCluster, Goto, Typed, TypeOK
  <1>8. KubernetesOK' /\ CloudOK'
    BY <1>2, <1>4 DEF CreateCluster, Typed, TypeOK, KubernetesOK, kubernetes, CloudOK
  <1>9. RequestOK'
    BY <1>4, <1>5, <1>6 DEF CreateCluster, Goto, Typed, TypeOK, RequestOK, Steps, PatchSteps
  <1>10. InProgress'
    BY <1>1, <1>5 DEF CreateCluster, Goto, InProgress
  <1> QED
    BY <1>7, <1>8, <1>9, <1>10 DEF Typed, TypeOK

LEMMA UpdateClusterTyped == Typed /\ UpdateCluster => Typed'
  <1> SUFFICES ASSUME Typed, UpdateCluster PROVE Typed'
    OBVIOUS
  <1>1. original \in Objects /\ desired.prefix \in Prefixes
    BY DEF UpdateCluster, Typed, InProgress
  <1>2. desired.generation \in Nat
    BY MaxGenerationAssumption DEF Typed, TypeOK, RequestOK
  <1>3. cluster' \in Clusters /\ current' = cluster'
    BY <1>2, ClusterTypes DEF UpdateCluster, Typed, TypeOK, CloudOK, ClusterStates
  <1>4. refreshed' \in BOOLEAN
    BY Zenon DEF UpdateCluster, Typed, TypeOK, RequestOK
  <1>5. QueueOK'
    BY QueueKept DEF UpdateCluster, Goto, Typed, TypeOK
  <1>6. KubernetesOK' /\ CloudOK'
    BY <1>3 DEF UpdateCluster, Typed, TypeOK, KubernetesOK, kubernetes, CloudOK
  <1>7. RequestOK'
    BY <1>3, <1>4 DEF UpdateCluster, Goto, Typed, TypeOK, RequestOK, Steps, PatchSteps
  <1>8. InProgress'
    BY <1>1 DEF UpdateCluster, Goto, InProgress, CreateSteps
  <1> QED
    BY <1>5, <1>6, <1>7, <1>8 DEF Typed, TypeOK

-----------------------------------------------------------------------------

LEMMA NextTyped == Typed /\ [Next]_vars => Typed'
  <1> SUFFICES ASSUME Typed, [Next]_vars PROVE Typed'
    OBVIOUS
  <1>1. CASE UNCHANGED vars
    <2>1. QueueOK' /\ refreshed' \in BOOLEAN
      BY <1>1, Zenon DEF vars, queue, request, Typed, TypeOK, QueueOK, RequestOK
    <2> QED
      BY <1>1, <2>1 DEF vars, kubernetes, queue, request, cloud, Typed, TypeOK, KubernetesOK,
                        RequestOK, CloudOK, InProgress
  <1>2. CASE ReconcileStep
    BY <1>2, StartTyped, SavePrefixTyped, SetVersionTyped, ErrorTyped, NotificationsTyped,
       AddFinalizerTyped, GetCurrentStateTyped, ApplyClusterTyped, EnsureOIDCConfigTyped,
       SaveOIDCConfigTyped, EnsureOIDCProviderTyped, SaveSnapshotTyped,
       CreateOperatorRolesTyped, SaveRolesCreatedTyped, CreateClusterTyped,
       UpdateClusterTyped, WaitTyped, CompleteTyped, DestroyTyped, RemoveFinalizerTyped
       DEF ReconcileStep
  <1>3. CASE Outage
    BY <1>3, RolesFailTyped, ErrorTyped, CrashTyped DEF Outage
  <1>4. CASE World
    BY <1>4, WorldTyped
  <1> QED
    BY <1>1, <1>2, <1>3, <1>4 DEF Next

LEMMA SpecTyped == Spec => []Typed
  BY InitTyped, NextTyped, PTL DEF Spec

\* Type correctness for every choice of ids, prefixes, edits and disturbances:
\* no crash, error or interleaving makes a step read a request that is not
\* there or store an id of the wrong kind.
THEOREM TypeCorrect == Spec => []TypeOK
  BY SpecTyped, PTL DEF Typed
=============================================================================
