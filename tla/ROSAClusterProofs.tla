------------------------- MODULE ROSAClusterProofs -------------------------
(***************************************************************************)
(* The ROSACluster reconciler deletes only its own cluster and never loses *)
(* it: proofs that OnlyOwnClusterDeleted holds, that ClusterHasOwner is an *)
(* invariant and that the reconciler implements Custody, the last two for  *)
(* reconciles that start from a cache that is up to date.                  *)
(*                                                                         *)
(* Every step is first reduced to its effect on the object, the request    *)
(* and the resources; the invariants are then shown effect by effect, here *)
(* and in ROSAClusterRecords.                                              *)
(***************************************************************************)
EXTENDS ROSAClusterTypes

-----------------------------------------------------------------------------
(* Effects *)

\* What a status records besides the version and the conditions.
SameIDs(a, b) ==
  /\ b.status.prefix = a.status.prefix
  /\ b.status.config = a.status.config
  /\ b.status.provider = a.status.provider
  /\ b.status.rolesCreated = a.status.rolesCreated
  /\ b.status.clusterID = a.status.clusterID

SameConditions(a, b) == b.status.conditions = a.status.conditions

Alike(a, b) == b.deleting = a.deleting /\ b.finalizer = a.finalizer

\* A patch is stored and answered; a patch that conflicts is dropped.
Stored == obj # None /\ obj' # None /\ Alike(obj, obj') /\ original' = obj'

Dropped ==
  /\ refreshed /\ obj # None /\ obj' = obj /\ original' # None
  /\ Alike(original, original') /\ SameIDs(original, original')
  /\ SameConditions(original, original')

\* A condition is added to those of the request.
WithCondition(o, c) ==
  /\ c \in o.status.conditions
  /\ o.status.conditions \subseteq original.status.conditions \cup {c}
  /\ original.status.conditions \cap Milestones \subseteq o.status.conditions

Noted(c) ==
  \/ c \in original.status.conditions /\ UNCHANGED <<obj, original>>
  \/ Stored /\ SameIDs(obj, obj') /\ WithCondition(obj', c)

\* The step leaves OCM and AWS alone.
Apart == UNCHANGED <<cluster, configs, providers, roles, used>>

Request == <<pc, original, refreshed, desired>>

Nothing == UNCHANGED <<obj, cache, Request>> /\ Apart

Starts ==
  /\ pc = "Idle" /\ pc' = (IF cache.status.prefix = NoID THEN "SavePrefix" ELSE "SetVersion")
  /\ cache # None /\ ("lag" \in Environment \/ cache = obj)
  /\ original' = cache /\ desired'.prefix = cache.status.prefix
  /\ UNCHANGED <<obj, cache>> /\ Apart

SavesPrefix ==
  /\ pc = "SavePrefix" /\ pc' = "SetVersion"
  /\ Stored
  /\ desired'.prefix \in Prefixes
  /\ obj'.status.prefix = Merged(obj.status.prefix, original.status.prefix, desired'.prefix)
  /\ obj'.status.config = obj.status.config
  /\ obj'.status.provider = obj.status.provider
  /\ obj'.status.rolesCreated = obj.status.rolesCreated
  /\ obj'.status.clusterID = obj.status.clusterID
  /\ SameConditions(obj, obj')
  /\ used \subseteq used'
  /\ UNCHANGED <<cache, cluster, configs, providers, roles>>

SetsVersion ==
  /\ pc = "SetVersion" /\ pc' = "Reconciling"
  /\ \/ UNCHANGED <<obj, original>>
     \/ Stored /\ SameIDs(obj, obj') /\ SameConditions(obj, obj')
  /\ UNCHANGED <<cache, desired>> /\ Apart

\* The steps that do nothing but conditions.Update: where they are, what they
\* set, and where they go.
Notes ==
  /\ \/ /\ pc = "Reconciling" /\ original.deleting
        /\ pc' = "FindChildObjects" /\ Noted(Reconciling("Delete"))
     \/ /\ pc = "Reconciling" /\ ~original.deleting
        /\ pc' = "AddFinalizer" /\ Noted(Reconciling("Update"))
     \/ pc = "NotifyCreated" /\ pc' = "WaitUntilReady" /\ Noted(ClusterCreated)
     \/ pc = "NotifyUpdated" /\ pc' = "WaitUntilReady" /\ Noted(ClusterUpdated)
     \/ /\ pc = "NotifyUninstalling" /\ pc' = "WaitUntilMissing"
        /\ Noted(ClusterUninstalling)
     \/ /\ pc = "NotifyRolesDeleted" /\ pc' = "DestroyOIDCConfig"
        /\ Noted(OperatorRolesDeleted)
     \/ /\ pc = "NotifyProviderDeleted" /\ pc' = "DestroyOIDCProvider"
        /\ Noted(OIDCProviderDeleted)
     \/ /\ pc = "NotifyConfigDeleted" /\ pc' = "RemoveFinalizer"
        /\ Noted(OIDCConfigDeleted)
  /\ UNCHANGED <<cache, desired>> /\ Apart

Finalizes ==
  /\ pc = "AddFinalizer" /\ pc' = "GetCurrentState"
  /\ \/ original.finalizer /\ UNCHANGED <<obj, original>>
     \/ /\ obj # None /\ obj' # None /\ original' = obj'
        /\ obj'.finalizer /\ obj'.deleting = obj.deleting /\ obj'.status = obj.status
  /\ UNCHANGED <<cache, desired>> /\ Apart

\* The update path without createCluster, and the way to DestroyCluster.
Passes ==
  /\ \/ pc = "GetCurrentState" /\ pc' = "ApplyCluster"
     \/ pc = "ApplyCluster" /\ pc' \in {"UpdateCluster", "WaitUntilReady"}
     \/ pc = "WaitUntilReady" /\ pc' = "Complete"
     \/ pc = "FindChildObjects" /\ pc' = "DestroyCluster"
  /\ UNCHANGED <<obj, cache, original, desired>> /\ Apart

BeginsCreate ==
  /\ pc = "ApplyCluster" /\ pc' = "EnsureOIDCConfig" /\ ~refreshed'
  /\ UNCHANGED <<obj, cache, original, desired>> /\ Apart

MakesConfig ==
  /\ pc = "EnsureOIDCConfig" /\ pc' = "SaveOIDCConfig"
  /\ original.status.config = NoID
  /\ original' # None /\ Alike(original, original') /\ SameConditions(original, original')
  /\ original'.status.config \in configs'
  /\ original'.status.prefix = original.status.prefix
  /\ original'.status.provider = original.status.provider
  /\ original'.status.rolesCreated = original.status.rolesCreated
  /\ original'.status.clusterID = original.status.clusterID
  /\ configs \subseteq configs' /\ used \subseteq used'
  /\ UNCHANGED <<obj, cache, refreshed, desired, cluster, providers, roles>>

FindsConfig ==
  /\ pc = "EnsureOIDCConfig" /\ pc' = "EnsureOIDCProvider"
  /\ original.status.config \in configs
  /\ UNCHANGED <<obj, cache, original, desired>> /\ Apart

\* The patches of createCluster: each field is that of the object or of the
\* request, and the config is saved.
Saves ==
  /\ \/ pc = "SaveOIDCConfig" /\ pc' = "EnsureOIDCProvider"
     \/ pc = "SaveOIDCProvider" /\ pc' = "CreateOperatorRoles"
     \/ pc = "SaveClusterID" /\ pc' = "NotifyCreated"
  /\ \/ Dropped
     \/ /\ Stored
        /\ obj'.status.prefix \in {obj.status.prefix, original.status.prefix}
        /\ obj'.status.config \in {obj.status.config, original.status.config}
        /\ obj'.status.provider \in {obj.status.provider, original.status.provider}
        /\ \/ obj'.status.rolesCreated = obj.status.rolesCreated
           \/ obj'.status.rolesCreated = original.status.rolesCreated
        /\ obj'.status.clusterID \in {obj.status.clusterID, original.status.clusterID}
        /\ obj'.status.conditions \in {obj.status.conditions, original.status.conditions}
        /\ pc = "SaveOIDCConfig" => obj'.status.config = original.status.config
  /\ UNCHANGED <<cache, desired>> /\ Apart

MakesProvider ==
  /\ pc = "EnsureOIDCProvider" /\ pc' = "SaveOIDCProvider"
  /\ original.status.provider = NoID
  /\ original' # None /\ Alike(original, original') /\ SameConditions(original, original')
  /\ original'.status.provider = original.status.config
  /\ original'.status.prefix = original.status.prefix
  /\ original'.status.config = original.status.config
  /\ original'.status.rolesCreated = original.status.rolesCreated
  /\ original'.status.clusterID = original.status.clusterID
  /\ providers' = providers \cup {original.status.config}
  /\ UNCHANGED <<obj, cache, desired, cluster, configs, roles, used>>

FindsProvider ==
  /\ pc = "EnsureOIDCProvider" /\ pc' = "CreateOperatorRoles"
  /\ original.status.provider # NoID
  /\ UNCHANGED <<obj, cache, original, desired>> /\ Apart

MakesRoles ==
  /\ pc = "CreateOperatorRoles" /\ pc' = "SaveRolesCreated"
  /\ roles' = [roles EXCEPT ![desired.prefix] = "all"]
  /\ UNCHANGED <<obj, cache, original, desired, cluster, configs, providers, used>>

MakesSomeRoles ==
  /\ pc = "CreateOperatorRoles" /\ pc' = "Idle" /\ original' = None
  /\ roles[desired.prefix] = "none"
  /\ roles' = [roles EXCEPT ![desired.prefix] = "some"]
  /\ UNCHANGED <<obj, cache, cluster, configs, providers, used>>

FindsRoles ==
  /\ pc = "CreateOperatorRoles" /\ pc' = "CreateCluster"
  /\ original.status.rolesCreated
  /\ UNCHANGED <<obj, cache, original, desired>> /\ Apart

SavesRoles ==
  /\ pc = "SaveRolesCreated" /\ pc' = "CreateCluster"
  /\ Stored
  /\ obj'.status.prefix = obj.status.prefix
  /\ obj'.status.config = obj.status.config
  /\ obj'.status.provider = obj.status.provider
  /\ obj'.status.clusterID = obj.status.clusterID
  /\ SameConditions(obj, obj')
  /\ UNCHANGED <<cache, desired>> /\ Apart

Creates ==
  /\ pc = "CreateCluster" /\ pc' = "SaveClusterID"
  /\ cluster = None /\ cluster' # None /\ cluster'.state = "installing"
  /\ cluster'.mine /\ cluster'.id \notin used /\ used' = used \cup {cluster'.id}
  /\ cluster'.config = original.status.config /\ cluster'.prefix = desired.prefix
  /\ original' # None /\ Alike(original, original') /\ SameConditions(original, original')
  /\ original'.status.clusterID = cluster'.id
  /\ original'.status.prefix = original.status.prefix
  /\ original'.status.config = original.status.config
  /\ original'.status.provider = original.status.provider
  /\ original'.status.rolesCreated = original.status.rolesCreated
  /\ UNCHANGED <<obj, cache, desired, configs, providers, roles>>

Stops ==
  /\ pc' = "Idle" /\ original' = None /\ cache' \in {cache, obj}
  /\ UNCHANGED obj /\ Apart

Completes ==
  /\ pc = "Complete" /\ pc' = "Idle" /\ original' = None
  /\ obj # None /\ obj' # None /\ Alike(obj, obj') /\ SameIDs(obj, obj')
  /\ WithCondition(obj', Reconciled("Create"))
  /\ UNCHANGED cache /\ Apart

\* A cluster that stays the same but for its state and spec: UpdateCluster,
\* DestroyCluster, OCM or another tool.
AltersCluster ==
  /\ \/ pc = "UpdateCluster" /\ pc' = "NotifyUpdated"
     \/ pc = "DestroyCluster" /\ pc' \in {"NotifyUninstalling", "WaitUntilMissing"}
     \/ UNCHANGED <<pc, refreshed>>
  /\ \/ UNCHANGED cluster
     \/ /\ cluster # None /\ cluster' # None
        /\ cluster'.id = cluster.id /\ cluster'.mine = cluster.mine
        /\ cluster'.config = cluster.config /\ cluster'.prefix = cluster.prefix
        /\ cluster.state = "uninstalling" => cluster'.state = "uninstalling"
  /\ UNCHANGED <<obj, cache, original, desired, configs, providers, roles, used>>

LosesCluster ==
  /\ cluster # None /\ cluster.state = "uninstalling" /\ cluster' = None
  /\ UNCHANGED <<obj, cache, Request, configs, providers, roles, used>>

MeetsCluster ==
  /\ cluster = None /\ cluster' # None
  /\ ~cluster'.mine /\ cluster'.id \in ClusterIDs \ used /\ used' = used \cup {cluster'.id}
  /\ UNCHANGED <<obj, cache, Request, configs, providers, roles>>

FindsNoCluster ==
  /\ pc = "WaitUntilMissing" /\ pc' = "DestroyOperatorRoles"
  /\ cluster = None \/ ClusterDeleted \in original.status.conditions
  /\ UNCHANGED <<obj, cache, original, desired>> /\ Apart

DestroysRoles ==
  /\ pc = "DestroyOperatorRoles"
  /\ \/ /\ pc' = "DestroyOIDCConfig" /\ UNCHANGED roles
        /\ OperatorRolesDeleted \in original.status.conditions
     \/ /\ pc' = "NotifyRolesDeleted"
        /\ roles' = [roles EXCEPT ![desired.prefix] = "none"]
  /\ UNCHANGED <<obj, cache, original, desired, cluster, configs, providers, used>>

DestroysSomeRoles ==
  /\ pc = "DestroyOperatorRoles" /\ pc' = "Idle" /\ original' = None
  /\ OperatorRolesDeleted \notin original.status.conditions
  /\ roles[desired.prefix] = "all"
  /\ roles' = [roles EXCEPT ![desired.prefix] = "some"]
  /\ UNCHANGED <<obj, cache, cluster, configs, providers, used>>

DestroysConfig ==
  /\ pc = "DestroyOIDCConfig"
  /\ \/ /\ pc' = "DestroyOIDCProvider" /\ UNCHANGED configs
        /\ OIDCProviderDeleted \in original.status.conditions
     \/ /\ pc' = "NotifyProviderDeleted"
        /\ configs' = configs \ {original.status.config}
  /\ UNCHANGED <<obj, cache, original, desired, cluster, providers, roles, used>>

DestroysProvider ==
  /\ pc = "DestroyOIDCProvider"
  /\ \/ /\ pc' = "RemoveFinalizer" /\ UNCHANGED providers
        /\ OIDCConfigDeleted \in original.status.conditions
     \/ /\ pc' = "NotifyConfigDeleted"
        /\ providers' = providers \ {original.status.provider}
  /\ UNCHANGED <<obj, cache, original, desired, cluster, configs, roles, used>>

Releases ==
  /\ pc = "RemoveFinalizer" /\ pc' = "Idle" /\ original' = None
  /\ \/ ~original.finalizer /\ obj' = obj
     \/ obj # None /\ obj.deleting /\ obj' = None
     \/ /\ obj # None /\ ~obj.deleting /\ obj' # None
        /\ ~obj'.deleting /\ ~obj'.finalizer /\ obj'.status = obj.status
  /\ UNCHANGED cache /\ Apart

Syncs == cache' = obj /\ UNCHANGED <<obj, Request>> /\ Apart

Recreates ==
  /\ "recreate" \in Environment
  /\ obj = None /\ obj' # None /\ ~obj'.deleting /\ ~obj'.finalizer
  /\ obj'.status = NewStatus
  /\ UNCHANGED <<cache, Request>> /\ Apart

Edits ==
  /\ obj # None /\ obj' # None /\ Alike(obj, obj') /\ obj'.status = obj.status
  /\ UNCHANGED <<cache, Request>> /\ Apart

Removes ==
  /\ obj # None /\ ~obj.deleting
  /\ \/ ~obj.finalizer /\ obj' = None
     \/ /\ obj.finalizer /\ obj' # None
        /\ obj'.deleting /\ obj'.finalizer /\ obj'.status = obj.status
  /\ UNCHANGED <<cache, Request>> /\ Apart

Effect ==
  \/ Nothing \/ Starts \/ SavesPrefix \/ SetsVersion \/ Notes \/ Finalizes \/ Passes
  \/ BeginsCreate \/ MakesConfig \/ FindsConfig \/ Saves \/ MakesProvider \/ FindsProvider
  \/ MakesRoles \/ MakesSomeRoles \/ FindsRoles \/ SavesRoles \/ Creates
  \/ Stops \/ Completes \/ AltersCluster \/ LosesCluster \/ MeetsCluster \/ FindsNoCluster
  \/ DestroysRoles \/ DestroysSomeRoles \/ DestroysConfig \/ DestroysProvider
  \/ Releases \/ Syncs \/ Recreates \/ Edits \/ Removes

-----------------------------------------------------------------------------
(* The effect of each step *)

LEMMA PatchFields ==
  ASSUME Typed, original \in Objects,
         NEW from \in ROSAClusterStatus, NEW to \in ROSAClusterStatus, NEW locked \in BOOLEAN,
         PatchStatus(from, to, locked)
  PROVE  \/ Stored /\ obj'.status = MergePatch(obj.status, from, to)
         \/ /\ locked /\ obj # None /\ obj' = obj /\ original' # None
            /\ Alike(original, original') /\ original'.status = to
  <1>1. obj \in Objects /\ obj' \in Objects /\ original' \in Objects /\ Alike(obj, obj')
    BY PatchStatusFacts DEF Typed, TypeOK, KubernetesOK, Alike
  <1>2. obj # None /\ obj' # None /\ original' # None
    BY <1>1, ObjectNotNone
  <1>3. CASE locked /\ Modified
    <2>1. obj' = obj /\ original' = [original EXCEPT !.status = to]
      BY <1>3 DEF PatchStatus
    <2> QED
      BY <1>2, <1>3, <2>1, WithStatus DEF Alike
  <1>4. CASE ~(locked /\ Modified)
    <2>1. obj' = [obj EXCEPT !.status = MergePatch(obj.status, from, to)] /\ original' = obj'
      BY <1>4 DEF PatchStatus
    <2>2. obj.status \in ROSAClusterStatus
      BY <1>1 DEF Objects
    <2>3. obj'.status = MergePatch(obj.status, from, to)
      BY <1>1, <2>1, <2>2, MergePatchType, WithStatus
    <2> QED
      BY <1>1, <1>2, <2>1, <2>3 DEF Stored
  <1> QED
    BY <1>3, <1>4

\* A milestone is the only condition of its type.
LEMMA MilestoneTypes ==
  ASSUME NEW m \in Milestones, NEW c \in AllConditions \ {ClusterDeleted}
  PROVE  m.type = c.type => m = c
  <1>1. /\ ClusterCreated.type = "ROSAClusterCreated"
        /\ ClusterUpdated.type = "ROSAClusterUpdated"
        /\ ClusterUninstalling.type = "ROSAClusterUninstalling"
        /\ OperatorRolesDeleted.type = "ROSAOperatorRolesDeleted"
        /\ OIDCProviderDeleted.type = "OIDCProviderDeleted"
        /\ OIDCConfigDeleted.type = "OIDCConfigDeleted"
        /\ Reconciling("Update").type = "Reconciling"
        /\ Reconciling("Delete").type = "Reconciling"
        /\ Reconciled("Create").type = "Reconciling"
    BY DEF ClusterCreated, ClusterUpdated, ClusterUninstalling, OperatorRolesDeleted,
           OIDCProviderDeleted, OIDCConfigDeleted, Reconciling, Reconciled, Condition
  <1> QED
    BY <1>1 DEF Milestones, AllConditions

LEMMA OtherConditions ==
  {ClusterCreated, ClusterUpdated, ClusterUninstalling, OperatorRolesDeleted, OIDCProviderDeleted,
   OIDCConfigDeleted, Reconciling("Update"), Reconciling("Delete"), Reconciled("Create")}
    \subseteq AllConditions \ {ClusterDeleted}
  BY DEF AllConditions, Condition, ClusterCreated, ClusterUpdated, ClusterUninstalling,
         ClusterDeleted, OperatorRolesDeleted, OIDCProviderDeleted, OIDCConfigDeleted,
         Reconciling, Reconciled

LEMMA AddConditionFacts ==
  ASSUME NEW cs, NEW c \in AllConditions \ {ClusterDeleted}
  PROVE  /\ c \in AddCondition(cs, c)
         /\ AddCondition(cs, c) \subseteq cs \cup {c}
         /\ cs \cap Milestones \subseteq AddCondition(cs, c)
  <1>1. ASSUME NEW m \in cs \cap Milestones PROVE m \in AddCondition(cs, c)
    BY MilestoneTypes DEF AddCondition
  <1> QED
    BY <1>1 DEF AddCondition

LEMMA UpdateConditionNotes ==
  ASSUME Typed, original \in Objects, NEW c \in AllConditions \ {ClusterDeleted},
         UpdateCondition(c)
  PROVE  Noted(c)
  <1> DEFINE cs == AddCondition(original.status.conditions, c)
             to == [original.status EXCEPT !.conditions = cs]
  <1>1. original.status \in ROSAClusterStatus
    BY DEF Objects
  <1>2. cs \in SUBSET AllConditions
    BY <1>1, AddConditionType DEF ROSAClusterStatus
  <1>3. CASE IsSet(c, original.status.conditions)
    BY <1>3 DEF UpdateCondition, IsSet, Noted
  <1>4. CASE ~IsSet(c, original.status.conditions)
    <2>1. PatchStatus(original.status, to, FALSE)
      BY <1>4, Zenon DEF UpdateCondition
    <2>2. cs # original.status.conditions
      BY <1>4, AddConditionFacts DEF IsSet
    <2>3. /\ c \in cs /\ cs \subseteq original.status.conditions \cup {c}
          /\ original.status.conditions \cap Milestones \subseteq cs
      BY AddConditionFacts
    <2> HIDE DEF cs
    <2>4. /\ to \in ROSAClusterStatus /\ to.conditions = cs
          /\ to.prefix = original.status.prefix /\ to.config = original.status.config
          /\ to.provider = original.status.provider /\ to.clusterID = original.status.clusterID
          /\ to.rolesCreated = original.status.rolesCreated
      BY <1>1, <1>2 DEF ROSAClusterStatus
    <2> HIDE DEF to
    <2>5. Stored /\ obj'.status = MergePatch(obj.status, original.status, to)
      BY <1>1, <2>1, <2>4, PatchFields, Zenon
    <2>6. SameIDs(obj, obj') /\ obj'.status.conditions = cs
      BY <2>2, <2>4, <2>5 DEF MergePatch, Merged, SameIDs
    <2> QED
      BY <2>3, <2>5, <2>6 DEF Noted, WithCondition
  <1> QED
    BY <1>3, <1>4

LEMMA EffectOfStart ==
  ASSUME Typed, Start
  PROVE  Nothing \/ Starts
  <1>1. UNCHANGED <<obj, cache, refreshed>> /\ Apart
    BY DEF Start, kubernetes, cloud, Apart
  <1>2. CASE cache = None
    BY <1>1, <1>2 DEF Start, Nothing, Request
  <1>3. CASE cache # None
    BY <1>1, <1>3 DEF Start, Starts
  <1> QED
    BY <1>2, <1>3

LEMMA EffectOfSavePrefix ==
  ASSUME Typed, SavePrefix
  PROVE  SavesPrefix
  <1>1. PICK p \in Prefixes :
          /\ PatchStatus(original.status, [original.status EXCEPT !.prefix = p], FALSE)
          /\ desired' = [desired EXCEPT !.prefix = p]
          /\ used' = used \cup {p}
    BY IDsAssumption, Zenon DEF SavePrefix
  <1>2. original \in Objects /\ original.status \in ROSAClusterStatus
    BY DEF SavePrefix, Typed, InProgress, Objects
  <1> DEFINE to == [original.status EXCEPT !.prefix = p]
  <1>3. /\ to \in ROSAClusterStatus /\ to.prefix = p
        /\ to.config = original.status.config /\ to.provider = original.status.provider
        /\ to.rolesCreated = original.status.rolesCreated
        /\ to.clusterID = original.status.clusterID
        /\ to.conditions = original.status.conditions
    BY <1>2 DEF ROSAClusterStatus
  <1>4. PatchStatus(original.status, to, FALSE)
    BY <1>1, Zenon
  <1> HIDE DEF to
  <1>5. Stored /\ obj'.status = MergePatch(obj.status, original.status, to)
    BY <1>2, <1>3, <1>4, PatchFields, Zenon
  <1>6. desired'.prefix = p
    BY <1>1 DEF Typed, TypeOK, RequestOK
  <1> QED
    BY <1>1, <1>3, <1>5, <1>6
       DEF SavePrefix, Goto, SavesPrefix, MergePatch, Merged, SameConditions

LEMMA EffectOfSetVersion ==
  ASSUME Typed, SetVersion
  PROVE  SetsVersion
  <1>1. original \in Objects /\ original.status \in ROSAClusterStatus
    BY DEF SetVersion, Typed, InProgress, Objects
  <1>2. CASE original.status.version
    BY <1>2 DEF SetVersion, Goto, SetsVersion, Apart, cloud
  <1>3. CASE ~original.status.version
    <2> DEFINE to == [original.status EXCEPT !.version = TRUE]
    <2>1. /\ to \in ROSAClusterStatus /\ to.prefix = original.status.prefix
          /\ to.config = original.status.config /\ to.provider = original.status.provider
          /\ to.rolesCreated = original.status.rolesCreated
          /\ to.clusterID = original.status.clusterID
          /\ to.conditions = original.status.conditions
      BY <1>1, Zenon DEF ROSAClusterStatus
    <2>2. PatchStatus(original.status, to, FALSE)
      BY <1>3, Zenon DEF SetVersion
    <2> HIDE DEF to
    <2>3. Stored /\ obj'.status = MergePatch(obj.status, original.status, to)
      BY <1>1, <2>1, <2>2, PatchFields, Zenon
    <2>4. SameIDs(obj, obj') /\ SameConditions(obj, obj')
      BY <2>1, <2>3 DEF MergePatch, Merged, SameIDs, SameConditions
    <2> QED
      BY <2>3, <2>4 DEF SetVersion, Goto, SetsVersion, Apart, cloud
  <1> QED
    BY <1>2, <1>3

LEMMA EffectOfNotify ==
  ASSUME Typed, \/ ReconcileTrigger \/ NotifyCreated \/ NotifyUpdated \/ NotifyUninstalling
                \/ NotifyRolesDeleted \/ NotifyProviderDeleted \/ NotifyConfigDeleted
  PROVE  Notes
  <1>1. original \in Objects
    BY DEF ReconcileTrigger, NotifyCreated, NotifyUpdated, NotifyUninstalling,
           NotifyRolesDeleted, NotifyProviderDeleted, NotifyConfigDeleted, Typed, InProgress
  <1>2. UNCHANGED <<cache, desired>> /\ Apart
    BY DEF ReconcileTrigger, NotifyCreated, NotifyUpdated, NotifyUninstalling,
           NotifyRolesDeleted, NotifyProviderDeleted, NotifyConfigDeleted, Notify, Apart, cloud
  <1>3. \A c \in {ClusterCreated, ClusterUpdated, ClusterUninstalling, OperatorRolesDeleted,
                  OIDCProviderDeleted, OIDCConfigDeleted, Reconciling("Update"),
                  Reconciling("Delete")} : UpdateCondition(c) => Noted(c)
    BY <1>1, OtherConditions, UpdateConditionNotes
  <1>4. CASE ReconcileTrigger
    <2>1. CASE original.deleting
      BY <1>2, <1>3, <1>4, <2>1 DEF ReconcileTrigger, GetTrigger, Goto, Notes
    <2>2. CASE ~original.deleting
      BY <1>2, <1>3, <1>4, <2>2 DEF ReconcileTrigger, GetTrigger, Goto, Notes
    <2> QED
      BY <2>1, <2>2
  <1>5. CASE \/ NotifyCreated \/ NotifyUpdated \/ NotifyUninstalling
             \/ NotifyRolesDeleted \/ NotifyProviderDeleted \/ NotifyConfigDeleted
    BY <1>2, <1>3, <1>5
       DEF NotifyCreated, NotifyUpdated, NotifyUninstalling, NotifyRolesDeleted,
           NotifyProviderDeleted, NotifyConfigDeleted, Notify, Goto, Notes
  <1> QED
    BY <1>4, <1>5

LEMMA EffectOfFinalizer ==
  ASSUME Typed
  PROVE  /\ AddFinalizer => Finalizes
         /\ RemoveFinalizer => Releases
  <1>1. ASSUME NEW o \in Objects, NEW b \in BOOLEAN
        PROVE  /\ [o EXCEPT !.finalizer = b] \in Objects /\ [o EXCEPT !.finalizer = b] # None
               /\ [o EXCEPT !.finalizer = b].finalizer = b
               /\ [o EXCEPT !.finalizer = b].deleting = o.deleting
               /\ [o EXCEPT !.finalizer = b].status = o.status
    <2>1. [o EXCEPT !.finalizer = b] \in Objects
      BY DEF Objects
    <2> QED
      BY <2>1, ObjectNotNone DEF Objects
  <1>2. obj # None => obj \in Objects
    BY DEF Typed, TypeOK, KubernetesOK
  <1>3. ASSUME AddFinalizer PROVE Finalizes
    <2>1. CASE original.finalizer
      BY <1>3, <2>1 DEF AddFinalizer, Goto, Finalizes, Apart, cloud
    <2>2. CASE ~original.finalizer
      BY <1>1, <1>2, <1>3, <2>2, Zenon DEF AddFinalizer, Goto, Finalizes, Apart, cloud
    <2> QED
      BY <2>1, <2>2
  <1>4. ASSUME RemoveFinalizer PROVE Releases
    <2>1. CASE ~original.finalizer
      BY <1>4, <2>1 DEF RemoveFinalizer, Return, Releases, Apart, cloud
    <2>2. CASE original.finalizer
      BY <1>1, <1>2, <1>4, <2>2, Zenon DEF RemoveFinalizer, Return, Releases, Apart, cloud
    <2> QED
      BY <2>1, <2>2
  <1> QED
    BY <1>3, <1>4

\* A request whose status gets one more id, in memory.
LEMMA WithConfigFacts ==
  ASSUME NEW o \in Objects, NEW config \in ConfigIDs
  PROVE  LET a == [o EXCEPT !.status.config = config]
         IN  /\ a # None /\ Alike(o, a) /\ SameConditions(o, a)
             /\ a.status.config = config /\ a.status.prefix = o.status.prefix
             /\ a.status.provider = o.status.provider
             /\ a.status.rolesCreated = o.status.rolesCreated
             /\ a.status.clusterID = o.status.clusterID
  <1>1. [o EXCEPT !.status.config = config] # None
    BY WithConfig, ObjectNotNone, Zenon
  <1> QED
    BY <1>1 DEF Objects, ROSAClusterStatus, Alike, SameConditions

LEMMA WithProviderFacts ==
  ASSUME NEW o \in Objects, NEW config \in ConfigIDs
  PROVE  LET a == [o EXCEPT !.status.provider = config]
         IN  /\ a # None /\ Alike(o, a) /\ SameConditions(o, a)
             /\ a.status.provider = config /\ a.status.prefix = o.status.prefix
             /\ a.status.config = o.status.config
             /\ a.status.rolesCreated = o.status.rolesCreated
             /\ a.status.clusterID = o.status.clusterID
  <1>1. [o EXCEPT !.status.provider = config] # None
    BY WithProvider, ObjectNotNone, Zenon
  <1> QED
    BY <1>1 DEF Objects, ROSAClusterStatus, Alike, SameConditions

LEMMA WithClusterIDFacts ==
  ASSUME NEW o \in Objects, NEW id \in ClusterIDs
  PROVE  LET a == [o EXCEPT !.status.clusterID = id]
         IN  /\ a # None /\ Alike(o, a) /\ SameConditions(o, a)
             /\ a.status.clusterID = id /\ a.status.prefix = o.status.prefix
             /\ a.status.config = o.status.config
             /\ a.status.provider = o.status.provider
             /\ a.status.rolesCreated = o.status.rolesCreated
  <1>1. [o EXCEPT !.status.clusterID = id] # None
    BY WithClusterID, ObjectNotNone, Zenon
  <1> QED
    BY <1>1 DEF Objects, ROSAClusterStatus, Alike, SameConditions

LEMMA EffectOfApply ==
  ASSUME Typed, GetCurrentState \/ ApplyCluster
  PROVE  Passes \/ BeginsCreate
  BY DEF GetCurrentState, ApplyCluster, Goto, Passes, BeginsCreate, Apart, cloud, kubernetes

LEMMA EffectOfEnsureOIDCConfig ==
  ASSUME Typed, EnsureOIDCConfig
  PROVE  MakesConfig \/ FindsConfig
  <1>1. original \in Objects
    BY DEF EnsureOIDCConfig, Typed, InProgress
  <1>2. UNCHANGED <<obj, cache, refreshed, desired, cluster, providers, roles>>
    BY DEF EnsureOIDCConfig, kubernetes
  <1>3. CASE original.status.config = NoID
    <2>1. PICK id \in ConfigIDs :
            /\ configs' = configs \cup {id}
            /\ used' = used \cup {id}
            /\ original' = [original EXCEPT !.status.config = id]
            /\ pc = "EnsureOIDCConfig" /\ pc' = "SaveOIDCConfig"
      BY <1>3 DEF EnsureOIDCConfig, Goto
    <2> QED
      BY <1>1, <1>2, <1>3, <2>1, WithConfigFacts DEF MakesConfig
  <1>4. CASE original.status.config # NoID
    BY <1>2, <1>4 DEF EnsureOIDCConfig, Goto, FindsConfig, Apart
  <1> QED
    BY <1>3, <1>4

LEMMA EffectOfSave ==
  ASSUME Typed, SaveOIDCConfig \/ SaveOIDCProvider \/ SaveClusterID
  PROVE  Saves
  <1>1. /\ \/ pc = "SaveOIDCConfig" /\ pc' = "EnsureOIDCProvider"
           \/ pc = "SaveOIDCProvider" /\ pc' = "CreateOperatorRoles"
           \/ pc = "SaveClusterID" /\ pc' = "NotifyCreated"
        /\ UNCHANGED <<cache, desired>> /\ Apart
        /\ PatchStatus(snapshot.status, original.status, refreshed)
    BY DEF SaveOIDCConfig, SaveOIDCProvider, SaveClusterID, Goto, Apart, cloud
  <1>2. /\ original \in Objects /\ snapshot \in Objects
        /\ pc = "SaveOIDCConfig" => /\ snapshot.status.config = NoID
                                    /\ original.status.config \in ConfigIDs
    BY <1>1 DEF Typed, InProgress, CreateSteps
  <1>3. original.status \in ROSAClusterStatus /\ snapshot.status \in ROSAClusterStatus
    BY <1>2 DEF Objects
  <1>4. refreshed \in BOOLEAN
    BY Zenon DEF Typed, TypeOK, RequestOK
  <1>5. \/ Stored /\ obj'.status = MergePatch(obj.status, snapshot.status, original.status)
        \/ /\ refreshed /\ obj # None /\ obj' = obj /\ original' # None
           /\ Alike(original, original') /\ original'.status = original.status
    BY <1>1, <1>2, <1>3, <1>4, PatchFields
  <1>6. CASE Stored /\ obj'.status = MergePatch(obj.status, snapshot.status, original.status)
    BY <1>1, <1>2, <1>6, IDsAssumption DEF Saves, MergePatch, Merged
  <1>7. CASE /\ refreshed /\ obj # None /\ obj' = obj /\ original' # None
             /\ Alike(original, original') /\ original'.status = original.status
    BY <1>1, <1>7 DEF Saves, Dropped, SameIDs, SameConditions
  <1> QED
    BY <1>5, <1>6, <1>7

LEMMA EffectOfEnsureOIDCProvider ==
  ASSUME Typed, EnsureOIDCProvider
  PROVE  MakesProvider \/ FindsProvider
  <1>1. original \in Objects /\ original.status.config \in ConfigIDs
    BY DEF EnsureOIDCProvider, Typed, InProgress
  <1>2. UNCHANGED <<obj, cache, desired, cluster, configs, roles, used>>
    BY DEF EnsureOIDCProvider, kubernetes
  <1>3. CASE original.status.provider = NoID
    <2>1. /\ providers' = providers \cup {original.status.config}
          /\ original' = [original EXCEPT !.status.provider = original.status.config]
          /\ pc = "EnsureOIDCProvider" /\ pc' = "SaveOIDCProvider"
      BY <1>3 DEF EnsureOIDCProvider, Goto
    <2> QED
      BY <1>1, <1>2, <1>3, <2>1, WithProviderFacts DEF MakesProvider
  <1>4. CASE original.status.provider # NoID
    BY <1>2, <1>4 DEF EnsureOIDCProvider, Goto, FindsProvider, Apart
  <1> QED
    BY <1>3, <1>4

LEMMA EffectOfRoles ==
  ASSUME Typed, \/ CreateOperatorRoles \/ CreateOperatorRolesFails
                \/ DestroyOperatorRoles \/ DestroyOperatorRolesFails
  PROVE  \/ MakesRoles \/ FindsRoles \/ MakesSomeRoles \/ DestroysRoles \/ DestroysSomeRoles
  <1>1. CASE CreateOperatorRoles
    BY <1>1 DEF CreateOperatorRoles, Goto, MakesRoles, FindsRoles, Apart, kubernetes
  <1>2. CASE CreateOperatorRolesFails
    BY <1>2 DEF CreateOperatorRolesFails, Return, MakesSomeRoles, kubernetes
  <1>3. CASE DestroyOperatorRoles
    BY <1>3 DEF DestroyOperatorRoles, Goto, IsSet, DestroysRoles, kubernetes, request
  <1>4. CASE DestroyOperatorRolesFails
    BY <1>4 DEF DestroyOperatorRolesFails, Return, IsSet, DestroysSomeRoles, kubernetes
  <1> QED
    BY <1>1, <1>2, <1>3, <1>4

LEMMA EffectOfSaveRoles ==
  ASSUME Typed, SaveRolesCreated
  PROVE  SavesRoles
  <1>1. original \in Objects /\ original.status \in ROSAClusterStatus
    BY DEF SaveRolesCreated, Typed, InProgress, Objects
  <1> DEFINE to == [original.status EXCEPT !.rolesCreated = TRUE]
  <1>2. /\ to \in ROSAClusterStatus /\ to.prefix = original.status.prefix
        /\ to.config = original.status.config /\ to.provider = original.status.provider
        /\ to.clusterID = original.status.clusterID
        /\ to.conditions = original.status.conditions
    BY <1>1, Zenon DEF ROSAClusterStatus
  <1>3. PatchStatus(original.status, to, FALSE)
    BY Zenon DEF SaveRolesCreated
  <1> HIDE DEF to
  <1>4. Stored /\ obj'.status = MergePatch(obj.status, original.status, to)
    BY <1>1, <1>2, <1>3, PatchFields, Zenon
  <1> QED
    BY <1>2, <1>4 DEF SaveRolesCreated, Goto, SavesRoles, MergePatch, Merged, SameConditions,
                      Apart, cloud

LEMMA EffectOfCreateCluster ==
  ASSUME Typed, CreateCluster
  PROVE  Creates
  <1>1. original \in Objects
    BY DEF CreateCluster, Typed, InProgress
  <1>2. PICK id \in ClusterIDs \ used :
          /\ cluster' = [id |-> id, state |-> "installing", spec |-> desired.generation,
                         mine |-> TRUE, config |-> original.status.config,
                         prefix |-> desired.prefix]
          /\ used' = used \cup {id}
          /\ original' = [original EXCEPT !.status.clusterID = id]
    BY Zenon DEF CreateCluster
  <1>3. cluster' # None
    <2>1. cluster' \in Clusters
      <3>1. desired.generation \in Nat /\ desired.prefix \in Prefixes \cup {NoID}
        BY MaxGenerationAssumption DEF Typed, TypeOK, RequestOK
      <3>2. original.status.config \in ConfigIDs \cup {NoID}
        BY <1>1 DEF Objects, ROSAClusterStatus
      <3> QED
        BY <1>2, <3>1, <3>2 DEF Clusters, ClusterStates
    <2> QED
      BY <2>1, NoneAssumption
  <1>4. /\ cluster'.mine /\ cluster'.id = id /\ cluster'.state = "installing"
        /\ cluster'.config = original.status.config /\ cluster'.prefix = desired.prefix
    BY <1>2
  <1>5. /\ pc = "CreateCluster" /\ pc' = "SaveClusterID" /\ cluster = None
        /\ UNCHANGED <<obj, cache, desired, configs, providers, roles>>
    BY DEF CreateCluster, Goto, kubernetes
  <1> QED
    BY <1>1, <1>2, <1>3, <1>4, <1>5, WithClusterIDFacts DEF Creates

LEMMA EffectOfComplete ==
  ASSUME Typed, Complete
  PROVE  Stops \/ Completes
  <1> DEFINE cs == AddCondition(original.status.conditions, Reconciled("Create"))
  <1>1. original \in Objects /\ original.status.conditions \in SUBSET AllConditions
    BY DEF Complete, Typed, InProgress, Objects, ROSAClusterStatus
  <1>2. /\ pc = "Complete" /\ pc' = "Idle" /\ original' = None /\ UNCHANGED cache /\ Apart
    BY DEF Complete, Return, Apart, cloud
  <1>3. CASE IsSet(Reconciled("Create"), original.status.conditions)
    BY <1>2, <1>3 DEF Complete, Stops
  <1>4. CASE ~IsSet(Reconciled("Create"), original.status.conditions)
    <2>1. obj \in Objects /\ obj' = [obj EXCEPT !.status.conditions = cs] /\ obj # None
      BY <1>4 DEF Complete, Typed, TypeOK, KubernetesOK
    <2>2. /\ cs \in SUBSET AllConditions /\ Reconciled("Create") \in cs
          /\ cs \subseteq original.status.conditions \cup {Reconciled("Create")}
          /\ original.status.conditions \cap Milestones \subseteq cs
      BY <1>1, OtherConditions, AddConditionFacts, AddConditionType
    <2> HIDE DEF cs
    <2>3. obj' \in Objects
      BY <2>1, <2>2 DEF Objects, ROSAClusterStatus
    <2>4. Alike(obj, obj') /\ SameIDs(obj, obj') /\ obj'.status.conditions = cs
      BY <2>1, <2>2 DEF Objects, ROSAClusterStatus, Alike, SameIDs
    <2> QED
      BY <1>2, <2>1, <2>2, <2>3, <2>4, ObjectNotNone DEF Completes, WithCondition
  <1> QED
    BY <1>3, <1>4

LEMMA AlteredCluster ==
  ASSUME NEW c \in Clusters, NEW s \in ClusterStates, NEW n \in Nat
  PROVE  LET a == [c EXCEPT !.state = s]
             b == [c EXCEPT !.spec = n]
         IN  /\ a # None /\ a.id = c.id /\ a.mine = c.mine
             /\ a.config = c.config /\ a.prefix = c.prefix /\ a.state = s
             /\ b # None /\ b.id = c.id /\ b.mine = c.mine
             /\ b.config = c.config /\ b.prefix = c.prefix /\ b.state = c.state
  BY ClusterTypes, NoneAssumption DEF Clusters

LEMMA EffectOnCluster ==
  ASSUME Typed, \/ UpdateCluster \/ DestroyCluster
                \/ OCMProvisions \/ OCMUninstalls \/ OthersCreateCluster \/ OthersDeleteCluster
  PROVE  AltersCluster \/ LosesCluster \/ MeetsCluster
  <1>1. cluster # None => cluster \in Clusters
    BY DEF Typed, TypeOK, CloudOK
  <1>2. /\ desired.generation \in Nat
        /\ {"ready", "error", "uninstalling"} \subseteq ClusterStates
    BY MaxGenerationAssumption DEF Typed, TypeOK, RequestOK, ClusterStates
  <1>3. CASE UpdateCluster
    BY <1>1, <1>2, <1>3, AlteredCluster DEF UpdateCluster, Goto, AltersCluster, kubernetes
  <1>4. CASE DestroyCluster
    BY <1>1, <1>2, <1>4, AlteredCluster
       DEF DestroyCluster, Goto, AltersCluster, kubernetes, request
  <1>5. CASE OCMProvisions
    BY <1>1, <1>2, <1>5, AlteredCluster
       DEF OCMProvisions, ClusterChanges, AltersCluster, kubernetes, request
  <1>6. CASE OCMUninstalls
    BY <1>6 DEF OCMUninstalls, ClusterChanges, LosesCluster, Request, kubernetes, request
  <1>7. CASE OthersCreateCluster
    <2>1. PICK id \in ClusterIDs \ used :
            /\ ClusterChanges([id |-> id, state |-> "ready", spec |-> 0, mine |-> FALSE,
                               config |-> NoID, prefix |-> NoID])
            /\ used' = used \cup {id}
      BY <1>7, Zenon DEF OthersCreateCluster
    <2>2. cluster' \in Clusters /\ ~cluster'.mine /\ cluster'.id = id
      BY <2>1 DEF ClusterChanges, Clusters, ClusterStates
    <2>3. cluster' # None
      BY <2>2, NoneAssumption
    <2> QED
      BY <1>7, <2>1, <2>2, <2>3
         DEF OthersCreateCluster, ClusterChanges, MeetsCluster, Request, kubernetes, request
  <1>8. CASE OthersDeleteCluster
    BY <1>1, <1>2, <1>8, AlteredCluster
       DEF OthersDeleteCluster, ClusterChanges, AltersCluster, kubernetes, request
  <1> QED
    BY <1>3, <1>4, <1>5, <1>6, <1>7, <1>8

LEMMA EffectOfWaiting ==
  ASSUME Typed, WaitUntilReady \/ FindChildObjects \/ WaitUntilMissing
  PROVE  Passes \/ FindsNoCluster \/ Stops
  BY DEF WaitUntilReady, FindChildObjects, WaitUntilMissing, Goto, Return, Passes,
         FindsNoCluster, Stops, IsSet, Apart, cloud, kubernetes, request

LEMMA EffectOfDestroyOIDC ==
  ASSUME Typed, DestroyOIDCConfig \/ DestroyOIDCProvider
  PROVE  DestroysConfig \/ DestroysProvider
  BY DEF DestroyOIDCConfig, DestroyOIDCProvider, Goto, IsSet, DestroysConfig, DestroysProvider,
         kubernetes, request

LEMMA EffectOfErrors ==
  ASSUME Typed, NewRequestNotFound \/ CallRefused \/ CallFails \/ Crash
  PROVE  Stops
  BY DEF NewRequestNotFound, CallRefused, CallFails, ReturnError, Return, Crash, Stops, Apart,
         cloud, kubernetes

LEMMA EffectOfUser ==
  ASSUME Typed, \/ SyncCache \/ TimerFires \/ UserRecreates \/ UserEdits \/ UserDeletes
                \/ ChildrenChange
  PROVE  \/ Nothing \/ Syncs \/ Recreates \/ Edits \/ Removes
  <1>1. obj # None => obj \in Objects
    BY DEF Typed, TypeOK, KubernetesOK
  <1>2. CASE SyncCache
    BY <1>2 DEF SyncCache, Syncs, Request, Apart, request, cloud
  <1>3. CASE TimerFires \/ ChildrenChange
    BY <1>3 DEF TimerFires, ChildrenChange, Nothing, Request, Apart, request, cloud, kubernetes
  <1>4. CASE UserRecreates
    <2>1. obj' # None /\ ~obj'.deleting /\ ~obj'.finalizer /\ obj'.status = NewStatus
      BY <1>4, NewObjectType DEF UserRecreates, NewObject
    <2> QED
      BY <1>4, <2>1 DEF UserRecreates, Recreates, Request, Apart, request, cloud
  <1>5. CASE UserEdits
    <2>1. obj' \in Objects /\ obj' = [obj EXCEPT !.generation = obj.generation + 1]
      BY <1>1, <1>5, UserEditTypes, Zenon DEF UserEdits
    <2>2. Alike(obj, obj') /\ obj'.status = obj.status
      BY <1>1, <1>5, <2>1 DEF UserEdits, Objects, Alike
    <2> QED
      BY <1>5, <2>1, <2>2, ObjectNotNone DEF UserEdits, Edits, Request, Apart, request, cloud
  <1>6. CASE UserDeletes
    <2>1. CASE obj.finalizer
      <3>1. obj' \in Objects /\ obj' = [obj EXCEPT !.deleting = TRUE]
        BY <1>1, <1>6, <2>1, UserEditTypes, Zenon DEF UserDeletes
      <3>2. obj'.deleting /\ obj'.finalizer = obj.finalizer /\ obj'.status = obj.status
        BY <1>1, <1>6, <3>1 DEF UserDeletes, Objects
      <3> QED
        BY <1>6, <2>1, <3>1, <3>2, ObjectNotNone, Zenon
           DEF UserDeletes, Removes, Request, Apart, request, cloud
    <2>2. CASE ~obj.finalizer
      BY <1>6, <2>2 DEF UserDeletes, Removes, Request, Apart, request, cloud
    <2> QED
      BY <2>1, <2>2
  <1> QED
    BY <1>2, <1>3, <1>4, <1>5, <1>6

LEMMA StepEffect ==
  ASSUME Typed, [Next]_vars
  PROVE  Effect
  <1>1. CASE UNCHANGED vars
    BY <1>1 DEF vars, kubernetes, request, cloud, Effect, Nothing, Request, Apart
  <1>2. CASE ReconcileStep
    BY <1>2, EffectOfStart, EffectOfSavePrefix, EffectOfSetVersion, EffectOfNotify,
       EffectOfFinalizer, EffectOfApply, EffectOfEnsureOIDCConfig, EffectOfSave,
       EffectOfEnsureOIDCProvider, EffectOfRoles, EffectOfSaveRoles, EffectOfCreateCluster,
       EffectOfComplete, EffectOnCluster, EffectOfWaiting, EffectOfDestroyOIDC, EffectOfErrors
       DEF ReconcileStep, Effect
  <1>3. CASE Outage
    BY <1>3, EffectOfRoles, EffectOfErrors DEF Outage, Effect
  <1>4. CASE World
    BY <1>4, EffectOnCluster, EffectOfUser DEF World, Effect
  <1> QED
    BY <1>1, <1>2, <1>3, <1>4 DEF Next

-----------------------------------------------------------------------------
(* Only the operator's own cluster is deleted *)

\* The cluster of that id is not one the operator created.
Alien(id) == cluster # None /\ ~cluster.mine /\ cluster.id = id

KnownID(id) == id \in used \cup {NoID} /\ ~Alien(id)

\* Every id a copy of the object records has been handed out, and never to the
\* cluster of another tool.
IdsInv ==
  /\ obj # None => KnownID(obj.status.clusterID)
  /\ cache # None => KnownID(cache.status.clusterID)
  /\ original # None => KnownID(original.status.clusterID)

LEMMA InitIds == Init => IdsInv
  BY DEF Init, NewObject, NewStatus, IdsInv, KnownID, Alien

\* The steps at which a reconcile ends without a change of the object.
Ends ==
  /\ pc' = "Idle" /\ original' = None /\ cache' \in {cache, obj}
  /\ UNCHANGED <<obj, cluster, used>>

LEMMA IdsKept ==
  ASSUME Typed, IdsInv, Effect
  PROVE  IdsInv'
  <1> USE DEF IdsInv, KnownID, Alien, SameIDs
  <1>1. pc # "Idle" => original # None
    BY ObjectNotNone DEF Typed, InProgress
  <1>2. NoID \notin ClusterIDs /\ (cluster # None => cluster.id # NoID)
    BY IDsAssumption DEF Typed, TypeOK, CloudOK, Clusters
  <1>3. UNCHANGED <<obj, cache, original, cluster, used>> \/ Ends \/ Starts \/ SavesPrefix
         \/ SetsVersion \/ Notes \/ Finalizes \/ MakesConfig \/ Saves \/ MakesProvider
         \/ SavesRoles \/ Creates \/ Completes \/ AltersCluster \/ LosesCluster
         \/ MeetsCluster \/ Releases \/ Syncs \/ Recreates \/ Edits \/ Removes
    BY Zenon DEF Effect, Nothing, Passes, BeginsCreate, FindsConfig, FindsProvider,
           MakesRoles, FindsRoles, FindsNoCluster, DestroysRoles, DestroysConfig,
           DestroysProvider, Stops, MakesSomeRoles, DestroysSomeRoles, Request, Apart, Ends
  <1>4. CASE UNCHANGED <<obj, cache, original, cluster, used>>
    BY <1>4
  <1>5. CASE Ends
    BY <1>5 DEF Ends
  <1>6. CASE Starts
    BY <1>6 DEF Starts, Apart
  <1>7. CASE SavesPrefix
    BY <1>1, <1>7 DEF SavesPrefix, Stored, Merged
  <1>8. CASE SetsVersion
    BY <1>1, <1>8 DEF SetsVersion, Stored, Apart
  <1>9. CASE Notes
    BY <1>1, <1>9, SMTT(20) DEF Notes, Noted, Stored, Apart
  <1>10. CASE Finalizes
    BY <1>1, <1>10 DEF Finalizes, Apart
  <1>11. CASE MakesConfig
    BY <1>1, <1>11 DEF MakesConfig
  <1>12. CASE Saves
    BY <1>1, <1>12 DEF Saves, Stored, Dropped, Apart
  <1>13. CASE MakesProvider
    BY <1>1, <1>13 DEF MakesProvider
  <1>14. CASE SavesRoles
    BY <1>1, <1>14 DEF SavesRoles, Stored, Apart
  <1>15. CASE Creates
    BY <1>1, <1>2, <1>15 DEF Creates
  <1>16. CASE Completes
    BY <1>16 DEF Completes, Apart
  <1>17. CASE AltersCluster
    BY <1>17 DEF AltersCluster
  <1>18. CASE LosesCluster
    BY <1>18 DEF LosesCluster, Request
  <1>19. CASE MeetsCluster
    BY <1>2, <1>19 DEF MeetsCluster, Request
  <1>20. CASE Releases
    BY <1>20 DEF Releases, Apart
  <1>21. CASE Syncs
    BY <1>21 DEF Syncs, Request, Apart
  <1>22. CASE Recreates
    BY <1>2, <1>22 DEF Recreates, NewStatus, Request, Apart
  <1>23. CASE Edits
    BY <1>23 DEF Edits, Request, Apart
  <1>24. CASE Removes
    BY <1>24 DEF Removes, Request, Apart
  <1> QED
    BY <1>3, <1>4, <1>5, <1>6, <1>7, <1>8, <1>9, <1>10, <1>11, <1>12, <1>13, <1>14, <1>15,
       <1>16, <1>17, <1>18, <1>19, <1>20, <1>21, <1>22, <1>23, <1>24, Zenon

LEMMA SpecIds == Spec => []IdsInv
  <1>1. Typed /\ IdsInv /\ [Next]_vars => IdsInv'
    BY StepEffect, IdsKept
  <1> QED
    BY <1>1, InitIds, SpecTyped, PTL DEF Spec

\* DestroyCluster never deletes a cluster another tool created, under every
\* disturbance: a stale cache, lost patches, a resource that is created anew and
\* clusters that come and go under the same name.
THEOREM OthersClusterNotDeleted == Spec => OnlyOwnClusterDeleted
  <1>1. Typed /\ IdsInv /\ [Next]_vars
          => [DestroyCluster /\ cluster' # cluster => cluster.mine]_vars
    <2> SUFFICES ASSUME Typed, IdsInv, DestroyCluster, cluster' # cluster
                 PROVE  cluster.mine
      OBVIOUS
    <2>1. original # None
      BY ObjectNotNone DEF DestroyCluster, Typed, InProgress
    <2>2. cluster # None /\ cluster.id = original.status.clusterID
      BY DEF DestroyCluster
    <2> QED
      BY <2>1, <2>2 DEF IdsInv, KnownID, Alien
  <1> QED
    BY <1>1, SpecTyped, SpecIds, PTL DEF Spec, OnlyOwnClusterDeleted

-----------------------------------------------------------------------------
(* Custody *)

\* NewRequest and the choice of the path.
Prelude == {"SavePrefix", "SetVersion", "Reconciling"}

\* ReconcileCreate after AddFinalizer.
Owning ==
  CreateSteps \cup {"GetCurrentState", "ApplyCluster", "NotifyCreated", "UpdateCluster",
                    "NotifyUpdated", "WaitUntilReady", "Complete"}

\* ReconcileDelete after WaitUntilMissing.
Cleanup ==
  {"DestroyOperatorRoles", "NotifyRolesDeleted", "DestroyOIDCConfig", "NotifyProviderDeleted",
   "DestroyOIDCProvider", "NotifyConfigDeleted", "RemoveFinalizer"}

\* WaitUntilMissing has a way past a cluster that exists: the condition
\* ClusterDeleted.  Nothing sets it.
NotDeleted(o) == o # None => ClusterDeleted \notin o.status.conditions

NeverDeleted == NotDeleted(obj) /\ NotDeleted(cache) /\ NotDeleted(original)

\* ClusterHasOwner says nothing of the reconcile in progress.  The finalizer a
\* reconcile has added or seen is there until CompleteDestroy, and once
\* WaitUntilMissing is passed no cluster comes back.
HeldInv ==
  /\ ClusterHasOwner
  /\ pc \in Prelude /\ original.finalizer /\ ~original.deleting => FinalizerHeld
  /\ pc = "AddFinalizer" /\ original.finalizer => FinalizerHeld
  /\ pc \in Owning => FinalizerHeld
  /\ pc \in Cleanup => ~OwnCluster

CustodyInv == NeverDeleted /\ HeldInv

LEMMA InitCustody == Init => CustodyInv
  BY DEF Init, NewObject, NewStatus, CustodyInv, NeverDeleted, NotDeleted, HeldInv,
         ClusterHasOwner, OwnCluster, Prelude, Owning, CreateSteps, Cleanup

LEMMA NeverDeletedKept ==
  ASSUME Typed, NeverDeleted, Effect
  PROVE  NeverDeleted'
  <1> USE DEF NeverDeleted, NotDeleted
  <1>1. pc # "Idle" => original # None
    BY ObjectNotNone DEF Typed, InProgress
  <1>2. UNCHANGED <<obj, cache, original>> \/ Ends \/ Starts \/ SavesPrefix
         \/ SetsVersion \/ Notes \/ Finalizes \/ MakesConfig \/ Saves \/ MakesProvider
         \/ SavesRoles \/ Creates \/ Completes
         \/ Releases \/ Syncs \/ Recreates \/ Edits \/ Removes
    BY Zenon DEF Effect, Nothing, Passes, BeginsCreate, FindsConfig, FindsProvider,
           MakesRoles, FindsRoles, FindsNoCluster, DestroysRoles, DestroysConfig,
           DestroysProvider, Stops, MakesSomeRoles, DestroysSomeRoles, AltersCluster,
           LosesCluster, MeetsCluster, Request, Apart, Ends
  <1>3. CASE UNCHANGED <<obj, cache, original>>
    BY <1>3
  <1>4. CASE Ends \/ Starts
    BY <1>4 DEF Ends, Starts
  <1>5. CASE SavesPrefix \/ SetsVersion \/ SavesRoles
    BY <1>1, <1>5 DEF SavesPrefix, SetsVersion, SavesRoles, Stored, SameConditions
  <1>6. CASE Notes
    <2>1. PICK c \in AllConditions \ {ClusterDeleted} : Noted(c) /\ original # None
      BY <1>1, <1>6, OtherConditions DEF Notes
    <2> QED
      BY <1>6, <2>1, SMTT(20) DEF Notes, Noted, Stored, WithCondition
  <1>7. CASE Finalizes
    BY <1>1, <1>7 DEF Finalizes
  <1>8. CASE MakesConfig \/ MakesProvider \/ Creates
    BY <1>1, <1>8 DEF MakesConfig, MakesProvider, Creates, SameConditions
  <1>9. CASE Saves
    BY <1>1, <1>9 DEF Saves, Stored, Dropped, SameConditions
  <1>10. CASE Completes
    BY <1>1, <1>10, OtherConditions DEF Completes, WithCondition
  <1>11. CASE Releases
    BY <1>11 DEF Releases
  <1>12. CASE Syncs \/ Edits \/ Removes
    BY <1>12 DEF Syncs, Edits, Removes, Request
  <1>13. CASE Recreates
    BY <1>13 DEF Recreates, NewStatus, Request
  <1> QED
    BY <1>2, <1>3, <1>4, <1>5, <1>6, <1>7, <1>8, <1>9, <1>10, <1>11, <1>12, <1>13, Zenon

\* Only AddFinalizer and CompleteDestroy change whether the finalizer is held.
LEMMA HeldSteps ==
  ASSUME Typed, Effect
  PROVE  \/ (FinalizerHeld' <=> FinalizerHeld)
         \/ Finalizes /\ FinalizerHeld'
         \/ Releases /\ ~FinalizerHeld'
  <1> USE DEF FinalizerHeld, Alike
  <1>1. \/ UNCHANGED obj \/ SavesPrefix \/ SetsVersion \/ Notes \/ Finalizes \/ Saves
        \/ SavesRoles \/ Completes \/ Releases \/ Recreates \/ Edits \/ Removes
    BY Zenon DEF Effect, Nothing, Starts, Passes, BeginsCreate, MakesConfig, FindsConfig,
           MakesProvider, FindsProvider, MakesRoles, MakesSomeRoles, FindsRoles, Creates, Stops,
           AltersCluster, LosesCluster, MeetsCluster, FindsNoCluster, DestroysRoles,
           DestroysSomeRoles, DestroysConfig, DestroysProvider, Syncs
  <1>2. CASE UNCHANGED obj
    BY <1>2
  <1>3. CASE SavesPrefix \/ SetsVersion \/ SavesRoles
    BY <1>3 DEF SavesPrefix, SetsVersion, SavesRoles, Stored
  <1>4. CASE Notes
    BY <1>4 DEF Notes, Noted, Stored
  <1>5. CASE Saves
    BY <1>5 DEF Saves, Stored, Dropped
  <1>6. CASE Completes \/ Recreates \/ Edits \/ Removes
    BY <1>6 DEF Completes, Recreates, Edits, Removes
  <1>7. CASE Finalizes
    BY <1>7 DEF Finalizes
  <1>8. CASE Releases
    BY <1>8 DEF Releases
  <1> QED
    BY <1>1, <1>2, <1>3, <1>4, <1>5, <1>6, <1>7, <1>8, Zenon

\* Only CreateCluster adds a cluster of the operator's, and every cluster is
\* uninstalled before it is gone.
LEMMA ClusterSteps ==
  ASSUME Typed, Effect
  PROVE  \/ Creates /\ ExternalState = "absent" /\ ExternalState' = "live"
         \/ /\ ~Creates
            /\ OwnCluster' => OwnCluster
            /\ \/ ExternalState' = ExternalState
               \/ /\ UNCHANGED obj
                  /\ \/ ExternalState = "live" /\ ExternalState' = "going"
                     \/ ExternalState = "going" /\ ExternalState' = "absent"
  <1> USE DEF OwnCluster, ExternalState
  <1>1. \/ UNCHANGED cluster /\ ~Creates
        \/ Creates \/ AltersCluster \/ LosesCluster \/ MeetsCluster
    BY Zenon DEF Effect, Nothing, Starts, SavesPrefix, SetsVersion, Notes, Finalizes, Passes,
           BeginsCreate, MakesConfig, FindsConfig, Saves, MakesProvider, FindsProvider,
           MakesRoles, MakesSomeRoles, FindsRoles, SavesRoles, Stops, Completes, FindsNoCluster,
           DestroysRoles, DestroysSomeRoles, DestroysConfig, DestroysProvider, Releases, Syncs,
           Recreates, Edits, Removes, Apart, Creates
  <1>2. CASE UNCHANGED cluster /\ ~Creates
    BY <1>2
  <1>3. CASE Creates
    BY <1>3 DEF Creates
  <1>4. CASE AltersCluster
    BY <1>4 DEF AltersCluster, Creates
  <1>5. CASE LosesCluster
    BY <1>5 DEF LosesCluster, Creates
  <1>6. CASE MeetsCluster
    BY <1>6 DEF MeetsCluster, Creates, Request
  <1> QED
    BY <1>1, <1>2, <1>3, <1>4, <1>5, <1>6, Zenon

LEMMA HeldKept ==
  ASSUME "lag" \notin Environment, Typed, NeverDeleted, HeldInv, Effect
  PROVE  HeldInv'
  <1>1. pc # "Idle" => original # None
    BY ObjectNotNone DEF Typed, InProgress
  <1>2. (pc \in Owning => FinalizerHeld)'
    <2> SUFFICES ASSUME pc' \in Owning PROVE FinalizerHeld'
      OBVIOUS
    <2>1. \/ pc \in Owning /\ ~Releases
          \/ Finalizes
      BY ZenonT(30) DEF Effect, Nothing, Starts, SavesPrefix, SetsVersion, Notes, Passes,
             BeginsCreate, MakesConfig, FindsConfig, Saves, MakesProvider, FindsProvider,
             MakesRoles, MakesSomeRoles, FindsRoles, SavesRoles, Creates, Stops, Completes,
             AltersCluster, LosesCluster, MeetsCluster, FindsNoCluster,
             DestroysRoles, DestroysSomeRoles, DestroysConfig, DestroysProvider, Releases,
             Syncs, Recreates, Edits, Removes, Request, Owning, CreateSteps
    <2>2. CASE Finalizes
      BY <2>2 DEF Finalizes, HeldInv, FinalizerHeld
    <2> QED
      BY <2>1, <2>2, HeldSteps DEF HeldInv
  <1>3. (pc \in Cleanup => ~OwnCluster)'
    <2> SUFFICES ASSUME pc' \in Cleanup PROVE ~OwnCluster'
      OBVIOUS
    <2>1. \/ pc \in Cleanup /\ ~Creates
          \/ FindsNoCluster
      BY ZenonT(30) DEF Effect, Nothing, Starts, SavesPrefix, SetsVersion, Notes, Finalizes, Passes,
             BeginsCreate, MakesConfig, FindsConfig, Saves, MakesProvider, FindsProvider,
             MakesRoles, MakesSomeRoles, FindsRoles, SavesRoles, Creates, Stops, Completes,
             AltersCluster, LosesCluster, MeetsCluster,
             DestroysRoles, DestroysSomeRoles, DestroysConfig, DestroysProvider, Releases,
             Syncs, Recreates, Edits, Removes, Request, Cleanup
    <2>2. CASE FindsNoCluster
      BY <1>1, <2>2 DEF FindsNoCluster, NeverDeleted, NotDeleted, OwnCluster, Apart
    <2> QED
      BY <2>1, <2>2, ClusterSteps DEF HeldInv
  <1>4. ClusterHasOwner'
    <2>1. CASE Creates
      BY <1>2, <2>1 DEF Creates, Owning, CreateSteps, ClusterHasOwner
    <2>2. CASE Releases /\ ~Creates
      <3>1. pc \in Cleanup
        BY <2>2 DEF Releases, Cleanup
      <3> QED
        BY <2>2, <3>1, ClusterSteps DEF HeldInv, ClusterHasOwner
    <2>3. CASE ~Creates /\ ~Releases
      BY <2>3, ClusterSteps, HeldSteps DEF HeldInv, ClusterHasOwner
    <2> QED
      BY <2>1, <2>2, <2>3
  <1>5. /\ (pc \in Prelude /\ original.finalizer /\ ~original.deleting => FinalizerHeld)'
        /\ (pc = "AddFinalizer" /\ original.finalizer => FinalizerHeld)'
    <2> SUFFICES ASSUME pc' \in Prelude \cup {"AddFinalizer"}, original'.finalizer,
                        pc' \in Prelude => ~original'.deleting
                 PROVE  FinalizerHeld'
      BY DEF Prelude
    <2>1. \/ Starts \/ SavesPrefix \/ SetsVersion \/ Notes
          \/ UNCHANGED <<pc, original>> /\ ~Releases
      BY ZenonT(30) DEF Effect, Nothing, Finalizes, Passes,
             BeginsCreate, MakesConfig, FindsConfig, Saves, MakesProvider, FindsProvider,
             MakesRoles, MakesSomeRoles, FindsRoles, SavesRoles, Creates, Stops, Completes,
             AltersCluster, LosesCluster, MeetsCluster, FindsNoCluster,
             DestroysRoles, DestroysSomeRoles, DestroysConfig, DestroysProvider, Releases,
             Syncs, Recreates, Edits, Removes, Request, Prelude
    <2>2. CASE Starts
      BY <2>2 DEF Starts, FinalizerHeld
    <2>3. CASE SavesPrefix
      BY <2>3 DEF SavesPrefix, Stored, FinalizerHeld
    <2>4. CASE SetsVersion
      BY <2>4 DEF SetsVersion, Stored, FinalizerHeld, HeldInv, Prelude
    <2>5. CASE Notes
      BY <2>5, SMTT(20) DEF Notes, Noted, Stored, FinalizerHeld, HeldInv, Prelude
    <2>6. CASE UNCHANGED <<pc, original>> /\ ~Releases
      BY <2>6, HeldSteps DEF HeldInv
    <2> QED
      BY <2>1, <2>2, <2>3, <2>4, <2>5, <2>6
  <1> QED
    BY <1>2, <1>3, <1>4, <1>5 DEF HeldInv

LEMMA SpecCustody ==
  ASSUME "lag" \notin Environment
  PROVE  Spec => []CustodyInv
  <1>1. Typed /\ CustodyInv /\ [Next]_vars => CustodyInv'
    BY StepEffect, NeverDeletedKept, HeldKept DEF CustodyInv
  <1> QED
    BY <1>1, InitCustody, SpecTyped, PTL DEF Spec

\* A cluster the operator created always has a resource that holds the
\* finalizer, for every number of edits, ids and prefixes and under every
\* disturbance but a stale cache.
THEOREM ClusterAlwaysOwned ==
  ASSUME "lag" \notin Environment
  PROVE  Spec => []ClusterHasOwner
  BY SpecCustody, PTL DEF CustodyInv, HeldInv

LEMMA CustodyStep ==
  ASSUME Typed, CustodyInv, Effect
  PROVE  [C!Next]_<<FinalizerHeld, ExternalState>>
  <1>1. FinalizerHeld \in BOOLEAN /\ FinalizerHeld' \in BOOLEAN
    BY Zenon DEF FinalizerHeld
  <1>2. CASE Creates
    <2>1. FinalizerHeld /\ FinalizerHeld' = FinalizerHeld
      BY <1>2, SMTT(20) DEF Creates, CustodyInv, HeldInv, Owning, CreateSteps, FinalizerHeld
    <2> QED
      BY <1>2, <2>1, ClusterSteps, Zenon DEF C!Next, C!Create
  <1>3. CASE Releases /\ ~FinalizerHeld'
    <2>1. ExternalState = "absent" /\ ExternalState' = ExternalState
      BY <1>3 DEF Releases, CustodyInv, HeldInv, Cleanup, Apart, ExternalState, OwnCluster
    <2> QED
      BY <1>1, <1>3, <2>1, Zenon DEF C!Next, C!Release
  <1>4. CASE Finalizes /\ FinalizerHeld'
    <2>1. ExternalState' = ExternalState
      BY <1>4 DEF Finalizes, Apart, ExternalState, OwnCluster
    <2> QED
      BY <1>1, <1>4, <2>1, Zenon DEF C!Next, C!Hold
  <1>5. CASE ~Creates /\ (FinalizerHeld' <=> FinalizerHeld)
    BY <1>1, <1>5, ClusterSteps, Zenon DEF C!Next, C!Destroy, C!Vanish
  <1> QED
    BY <1>2, <1>3, <1>4, <1>5, HeldSteps, Zenon

\* Every behaviour of the reconciler is a behaviour of Custody: seen through
\* the finalizer and the operator's cluster, each step is one of hold, create,
\* destroy, vanish and release, or changes neither.
THEOREM ReconcilerImplementsCustody ==
  ASSUME "lag" \notin Environment
  PROVE  Spec => ImplementsCustody
  <1>1. Init => C!Init
    BY DEF Init, C!Init, NewObject, FinalizerHeld, ExternalState, OwnCluster
  <1>2. Typed /\ CustodyInv /\ [Next]_vars => [C!Next]_<<FinalizerHeld, ExternalState>>
    BY StepEffect, CustodyStep
  <1> QED
    BY <1>1, <1>2, SpecTyped, SpecCustody, PTL DEF Spec, ImplementsCustody, C!Spec
=============================================================================
