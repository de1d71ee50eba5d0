---------------------------- MODULE ROSACluster ----------------------------
(***************************************************************************)
(* The ROSACluster reconciler: one custom resource, the worker that        *)
(* reconciles it, and the OCM and AWS resources it owns.                   *)
(*                                                                         *)
(* The worker runs one reconcile at a time; pc is the next call it makes.  *)
(* Every step is one call to Kubernetes, OCM or AWS with the local code    *)
(* around it, because a crash, an error, the user or OCM can come in       *)
(* between any two calls.                                                  *)
(***************************************************************************)
EXTENDS Conditions, Naturals, FiniteSets

CONSTANTS
    None,           \* no object, no cluster
    NoID,           \* the empty string in a status field
    ClusterIDs,     \* ids OCM gives to clusters
    ConfigIDs,      \* ids OCM gives to OIDC configs; a provider's ARN names its config
    Prefixes,       \* operator role prefixes
    SpecPrefix,     \* spec.iam.operatorRolesPrefix, or NoID when the user left it out
    MaxGeneration,  \* bound on metadata.generation, that is on edits of the spec
    Environment     \* what may happen: a subset of Disturbances

ASSUME IDsAssumption ==
    /\ NoID \notin ClusterIDs \cup ConfigIDs \cup Prefixes
    /\ SpecPrefix \in Prefixes \cup {NoID}

\* A cache that lags, calls that fail, a manager that restarts, a user who
\* creates the object again, other tools at work on the cluster, child resources.
Disturbances == {"lag", "error", "crash", "recreate", "others", "children"}

ASSUME EnvironmentAssumption == Environment \subseteq Disturbances

ASSUME MaxGenerationAssumption == MaxGeneration \in Nat \ {0}

VARIABLES
    obj,        \* the ROSACluster in the API server, or None
    cache,      \* the informer's copy of it
    queued,     \* the object's key is in the work queue
    timer,      \* a delayed add (RequeueAfter, back-off) is outstanding
    pc,         \* the next call of the running reconcile, or "Idle"
    original,   \* req.Original
    snapshot,   \* the copy createCluster and ensureOIDCProvider take first
    refreshed,  \* a patch has answered with a newer original since the snapshot
    desired,    \* what req.Desired adds to it: generation and role prefix
    current,    \* req.Cluster as read or created by this reconcile
    cluster,    \* the cluster of that name in OCM, or None
    configs,    \* OIDC configs in OCM
    providers,  \* OIDC providers in AWS, named by their config
    roles,      \* operator roles in AWS by prefix: "none", "some" or "all"
    children,   \* status.clusterID of the child resources the informers list
    used        \* ids and prefixes handed out so far

kubernetes == <<obj, cache>>
queue      == <<queued, timer>>
request    == <<original, snapshot, refreshed, desired, current>>
cloud      == <<cluster, configs, providers, roles, used>>
vars       == <<kubernetes, queue, pc, request, cloud, children>>

-----------------------------------------------------------------------------
(* Data *)

ClusterStates == {"installing", "ready", "error", "uninstalling"}

\* config and prefix are what Builder put into the cluster; mine tells the
\* clusters this operator created from those of other tools.
Clusters ==
    [id: ClusterIDs, state: ClusterStates, spec: Nat, mine: BOOLEAN,
     config: ConfigIDs \cup {NoID}, prefix: Prefixes \cup {NoID}]

ClusterCreated       == Condition("ROSAClusterCreated", TRUE, "Create")
ClusterUpdated       == Condition("ROSAClusterUpdated", TRUE, "Update")
ClusterUninstalling  == Condition("ROSAClusterUninstalling", TRUE, "Delete")
ClusterDeleted       == Condition("ROSAClusterDeleted", TRUE, "Delete")
OperatorRolesDeleted == Condition("ROSAOperatorRolesDeleted", TRUE, "Delete")
OIDCProviderDeleted  == Condition("OIDCProviderDeleted", TRUE, "Delete")
OIDCConfigDeleted    == Condition("OIDCConfigDeleted", TRUE, "Delete")

AllConditions ==
    {ClusterCreated, ClusterUpdated, ClusterUninstalling, ClusterDeleted,
     OperatorRolesDeleted, OIDCProviderDeleted, OIDCConfigDeleted,
     Reconciling("Update"), Reconciling("Delete"), Reconciled("Create")}

ROSAClusterStatus ==
    [prefix: Prefixes \cup {NoID}, version: BOOLEAN, config: ConfigIDs \cup {NoID},
     provider: ConfigIDs \cup {NoID}, rolesCreated: BOOLEAN,
     clusterID: ClusterIDs \cup {NoID}, conditions: SUBSET AllConditions]

Objects ==
    [generation: 1..MaxGeneration, deleting: BOOLEAN, finalizer: BOOLEAN,
     status: ROSAClusterStatus]

ASSUME NoneAssumption == None \notin Objects /\ None \notin Clusters

NewStatus ==
    [prefix |-> NoID, version |-> FALSE, config |-> NoID, provider |-> NoID,
     rolesCreated |-> FALSE, clusterID |-> NoID, conditions |-> {}]

NewObject == [generation |-> 1, deleting |-> FALSE, finalizer |-> FALSE, status |-> NewStatus]

NoDesired == [generation |-> 0, prefix |-> NoID]

\* The user has just created the object.
Init ==
    /\ obj = NewObject /\ cache = None
    /\ queued = FALSE /\ timer = FALSE
    /\ pc = "Idle"
    /\ original = None /\ snapshot = None /\ refreshed = FALSE
    /\ desired = NoDesired /\ current = None
    /\ cluster = None /\ configs = {} /\ providers = {}
    /\ roles = [p \in Prefixes |-> "none"]
    /\ children \in SUBSET IF "children" \in Environment THEN {NoID} ELSE {}
    /\ used = {}

-----------------------------------------------------------------------------
(* Calls to Kubernetes *)

MergePatch(server, from, to) ==
    [prefix       |-> Merged(server.prefix, from.prefix, to.prefix),
     version      |-> Merged(server.version, from.version, to.version),
     config       |-> Merged(server.config, from.config, to.config),
     provider     |-> Merged(server.provider, from.provider, to.provider),
     rolesCreated |-> Merged(server.rolesCreated, from.rolesCreated, to.rolesCreated),
     clusterID    |-> Merged(server.clusterID, from.clusterID, to.clusterID),
     conditions   |-> Merged(server.conditions, from.conditions, to.conditions)]

\* The resource versions differ: someone else wrote the object since original
\* was last read or returned by a patch.
Modified ==
    <<obj.generation, obj.deleting>> # <<original.generation, original.deleting>>

\* PatchStatus when the API server answers.  The answer replaces original.
\* When `from` is older than original the patch carries a resource version;
\* the conflict this may cause is swallowed and nothing is stored.
PatchStatus(from, to, locked) ==
    /\ obj # None
    /\ IF locked /\ Modified
       THEN /\ obj' = obj
            /\ original' = [original EXCEPT !.status = to]
       ELSE /\ obj' = [obj EXCEPT !.status = MergePatch(obj.status, from, to)]
            /\ original' = obj'

\* conditions.Update
UpdateCondition(condition) ==
    IF IsSet(condition, original.status.conditions)
    THEN UNCHANGED <<obj, original>>
    ELSE PatchStatus(original.status,
                     [original.status EXCEPT
                         !.conditions = AddCondition(original.status.conditions, condition)],
                     FALSE)

\* Ends the reconcile; requeue.Skip(nil) and requeue.None leave the timer alone.
Return(requeue) ==
    /\ pc' = "Idle"
    /\ timer' = (timer \/ requeue)
    /\ original' = None /\ snapshot' = None /\ refreshed' = FALSE
    /\ desired' = NoDesired /\ current' = None

Goto(next) == pc' = next /\ UNCHANGED queue

-----------------------------------------------------------------------------
(* Reconcile: NewRequest and the choice of the path *)

\* NewRequest reads the object from the cache.  An object that is gone is
\* dropped: Reconcile answers NotFound with Skip(nil).
Start ==
    /\ pc = "Idle" /\ queued
    /\ "lag" \in Environment \/ cache = obj
    /\ queued' = FALSE
    /\ IF cache = None
       THEN UNCHANGED <<pc, original, desired>>
       ELSE /\ original' = cache
            /\ desired' = [generation |-> cache.generation, prefix |-> cache.status.prefix]
            /\ pc' = IF cache.status.prefix = NoID THEN "SavePrefix" ELSE "SetVersion"
    /\ UNCHANGED <<kubernetes, timer, snapshot, refreshed, current, cloud, children>>

\* Mutant: the prefix is not stored.
SavePrefixNotStored ==
    /\ pc = "SavePrefix"
    /\ \E p \in IF SpecPrefix = NoID THEN Prefixes \ used ELSE {SpecPrefix} :
        /\ PatchStatus(original.status, original.status, FALSE)
        /\ desired' = [desired EXCEPT !.prefix = p]
        /\ used' = used \cup {p}
    /\ Goto("SetVersion")
    /\ UNCHANGED <<cache, snapshot, refreshed, current, cluster, configs, providers, roles, children>>

\* The prefix of the spec or a random one, stored in the status.
SavePrefix ==
    /\ pc = "SavePrefix"
    /\ \E p \in IF SpecPrefix = NoID THEN Prefixes \ used ELSE {SpecPrefix} :
        /\ PatchStatus(original.status, [original.status EXCEPT !.prefix = p], FALSE)
        /\ desired' = [desired EXCEPT !.prefix = p]
        /\ used' = used \cup {p}
    /\ Goto("SetVersion")
    /\ UNCHANGED <<cache, snapshot, refreshed, current, cluster, configs, providers, roles, children>>

\* The version is looked up in OCM on every reconcile, and stored once.
SetVersion ==
    /\ pc = "SetVersion"
    /\ IF original.status.version
       THEN UNCHANGED <<obj, original>>
       ELSE PatchStatus(original.status, [original.status EXCEPT !.version = TRUE], FALSE)
    /\ Goto("Reconciling")
    /\ UNCHANGED <<cache, snapshot, refreshed, desired, current, cloud, children>>

\* A patch of NewRequest that finds no object: NotFound again, so Skip(nil).
NewRequestNotFound ==
    /\ \/ pc = "SavePrefix"
       \/ pc = "SetVersion" /\ ~original.status.version
    /\ obj = None
    /\ Return(FALSE)
    /\ UNCHANGED <<kubernetes, queued, cloud, children>>

\* The trigger is taken before the patch and decides the path.
ReconcileTrigger ==
    LET trigger == GetTrigger(original.deleting)
    IN  /\ pc = "Reconciling"
        /\ UpdateCondition(Reconciling(trigger))
        /\ Goto(IF trigger = "Delete" THEN "FindChildObjects" ELSE "AddFinalizer")
        /\ UNCHANGED <<cache, snapshot, refreshed, desired, current, cloud, children>>

-----------------------------------------------------------------------------
(* ReconcileCreate and ReconcileUpdate *)

\* Mutant: the finalizer is added to the object in memory only.
AddFinalizerNotPatched ==
    /\ pc = "AddFinalizer"
    /\ original' = [original EXCEPT !.finalizer = TRUE]
    /\ Goto("GetCurrentState")
    /\ UNCHANGED <<obj, cache, snapshot, refreshed, desired, current, cloud, children>>

AddFinalizer ==
    /\ pc = "AddFinalizer"
    /\ IF original.finalizer
       THEN UNCHANGED <<obj, original>>
       ELSE /\ obj # None
            /\ obj' = [obj EXCEPT !.finalizer = TRUE]
            /\ original' = obj'
    /\ Goto("GetCurrentState")
    /\ UNCHANGED <<cache, snapshot, refreshed, desired, current, cloud, children>>

GetCurrentState ==
    /\ pc = "GetCurrentState"
    /\ current' = cluster
    /\ Goto("ApplyCluster")
    /\ UNCHANGED <<kubernetes, original, snapshot, refreshed, desired, cloud, children>>

\* What ApplyCluster does next; createCluster starts with its copy of original.
ApplyCluster ==
    LET create == current = None /\ ~IsSet(ClusterCreated, original.status.conditions)
        update == /\ current # None
                  /\ current.state = "ready"
                  /\ current.spec # desired.generation
    IN  /\ pc = "ApplyCluster"
        /\ Goto(IF create THEN "EnsureOIDCConfig"
                ELSE IF update THEN "UpdateCluster" ELSE "WaitUntilReady")
        /\ snapshot' = IF create THEN original ELSE None
        /\ refreshed' = FALSE
        /\ UNCHANGED <<kubernetes, original, desired, current, cloud, children>>

EnsureOIDCConfig ==
    /\ pc = "EnsureOIDCConfig"
    /\ IF original.status.config = NoID
       THEN \E id \in ConfigIDs \ used :
              /\ configs' = configs \cup {id}
              /\ used' = used \cup {id}
              /\ original' = [original EXCEPT !.status.config = id]
              /\ Goto("SaveOIDCConfig")
       ELSE /\ original.status.config \in configs
            /\ Goto("EnsureOIDCProvider")
            /\ UNCHANGED <<configs, used, original>>
    /\ UNCHANGED <<kubernetes, snapshot, refreshed, desired, current, cluster, providers, roles, children>>

SaveOIDCConfig ==
    /\ pc = "SaveOIDCConfig"
    /\ PatchStatus(snapshot.status, original.status, refreshed)
    /\ refreshed' = TRUE
    /\ Goto("EnsureOIDCProvider")
    /\ UNCHANGED <<cache, snapshot, desired, current, cloud, children>>

\* IAM refuses a second provider for the same issuer.
EnsureOIDCProvider ==
    /\ pc = "EnsureOIDCProvider"
    /\ IF original.status.provider = NoID
       THEN /\ original.status.config \notin providers
            /\ providers' = providers \cup {original.status.config}
            /\ original' = [original EXCEPT !.status.provider = original.status.config]
            /\ Goto("SaveOIDCProvider")
       ELSE /\ Goto("CreateOperatorRoles")
            /\ UNCHANGED <<providers, original>>
    /\ UNCHANGED <<kubernetes, snapshot, refreshed, desired, current, cluster, configs, roles, used, children>>

SaveOIDCProvider ==
    /\ pc = "SaveOIDCProvider"
    /\ PatchStatus(snapshot.status, original.status, refreshed)
    /\ refreshed' = TRUE
    /\ Goto("CreateOperatorRoles")
    /\ UNCHANGED <<cache, snapshot, desired, current, cloud, children>>

\* Every role and policy is ensured in turn, so a second attempt completes
\* the first; a failure part of the way is CreateOperatorRolesFails.
CreateOperatorRoles ==
    /\ pc = "CreateOperatorRoles"
    /\ IF original.status.rolesCreated
       THEN /\ Goto("CreateCluster")
            /\ UNCHANGED <<roles, original>>
       ELSE /\ roles' = [roles EXCEPT ![desired.prefix] = "all"]
            /\ Goto("SaveRolesCreated")
            /\ UNCHANGED original
    /\ UNCHANGED <<kubernetes, snapshot, refreshed, desired, current, cluster, configs, providers, used, children>>

CreateOperatorRolesFails ==
    /\ pc = "CreateOperatorRoles"
    /\ "error" \in Environment
    /\ ~original.status.rolesCreated
    /\ roles[desired.prefix] = "none"
    /\ roles' = [roles EXCEPT ![desired.prefix] = "some"]
    /\ Return(TRUE)
    /\ UNCHANGED <<kubernetes, queued, cluster, configs, providers, used, children>>

SaveRolesCreated ==
    /\ pc = "SaveRolesCreated"
    /\ PatchStatus(original.status, [original.status EXCEPT !.rolesCreated = TRUE], FALSE)
    /\ refreshed' = TRUE
    /\ Goto("CreateCluster")
    /\ UNCHANGED <<cache, snapshot, desired, current, cloud, children>>

\* Mutant: the status gets the id of the config instead of the cluster's.
CreateClusterStoresConfig ==
    /\ pc = "CreateCluster"
    /\ cluster = None
    /\ \E id \in ClusterIDs \ used :
        /\ cluster' = [id |-> id, state |-> "installing", spec |-> desired.generation,
                       mine |-> TRUE, config |-> original.status.config,
                       prefix |-> desired.prefix]
        /\ used' = used \cup {id}
        /\ original' = [original EXCEPT !.status.clusterID = original.status.config]
    /\ current' = cluster'
    /\ Goto("SaveClusterID")
    /\ UNCHANGED <<kubernetes, snapshot, refreshed, desired, configs, providers, roles, children>>

\* OCM refuses a second cluster of the same name.
CreateCluster ==
    /\ pc = "CreateCluster"
    /\ cluster = None
    /\ \E id \in ClusterIDs \ used :
        /\ cluster' = [id |-> id, state |-> "installing", spec |-> desired.generation,
                       mine |-> TRUE, config |-> original.status.config,
                       prefix |-> desired.prefix]
        /\ used' = used \cup {id}
        /\ original' = [original EXCEPT !.status.clusterID = id]
    /\ current' = cluster'
    /\ Goto("SaveClusterID")
    /\ UNCHANGED <<kubernetes, snapshot, refreshed, desired, configs, providers, roles, children>>

SaveClusterID ==
    /\ pc = "SaveClusterID"
    /\ PatchStatus(snapshot.status, original.status, refreshed)
    /\ Goto("NotifyCreated")
    /\ UNCHANGED <<cache, snapshot, refreshed, desired, current, cloud, children>>

\* req.notify, whose event is fire and forget.
Notify(condition) ==
    /\ UpdateCondition(condition)
    /\ UNCHANGED <<cache, snapshot, refreshed, desired, current, cloud, children>>

NotifyCreated ==
    /\ pc = "NotifyCreated"
    /\ Notify(ClusterCreated)
    /\ Goto("WaitUntilReady")

\* The config is fetched first; the update is sent to the recorded id.
UpdateCluster ==
    /\ pc = "UpdateCluster"
    /\ original.status.config \in configs
    /\ cluster # None /\ cluster.id = original.status.clusterID
    /\ cluster' = [cluster EXCEPT !.spec = desired.generation]
    /\ current' = cluster'
    /\ Goto("NotifyUpdated")
    /\ UNCHANGED <<kubernetes, original, snapshot, refreshed, desired, configs, providers, roles, used, children>>

NotifyUpdated ==
    /\ pc = "NotifyUpdated"
    /\ Notify(ClusterUpdated)
    /\ Goto("WaitUntilReady")

\* Mutant: a cluster that is not ready is not looked at again.
WaitUntilReadyOnce ==
    /\ pc = "WaitUntilReady"
    /\ IF current # None /\ current.state = "ready"
       THEN Goto("Complete") /\ UNCHANGED request
       ELSE Return(FALSE) /\ UNCHANGED queued
    /\ UNCHANGED <<kubernetes, cloud, children>>

WaitUntilReady ==
    /\ pc = "WaitUntilReady"
    /\ IF current # None /\ current.state = "ready"
       THEN Goto("Complete") /\ UNCHANGED request
       ELSE Return(TRUE) /\ UNCHANGED queued
    /\ UNCHANGED <<kubernetes, cloud, children>>

\* The request ends here, so the answer to the patch is not kept.
Complete ==
    LET done == Reconciled("Create")
    IN  /\ pc = "Complete"
        /\ IF IsSet(done, original.status.conditions)
           THEN UNCHANGED obj
           ELSE /\ obj # None
                /\ obj' = [obj EXCEPT !.status.conditions =
                              AddCondition(original.status.conditions, done)]
        /\ Return(TRUE)
        /\ UNCHANGED <<cache, queued, cloud, children>>

-----------------------------------------------------------------------------
(* ReconcileDelete *)

\* Mutants: the children that are found do not hold the delete back; they end
\* the reconcile without another one.
FindChildObjectsIgnored ==
    /\ pc = "FindChildObjects"
    /\ Goto("DestroyCluster")
    /\ UNCHANGED <<kubernetes, request, cloud, children>>

FindChildObjectsOnce ==
    /\ pc = "FindChildObjects"
    /\ IF original.status.clusterID \in children
       THEN Return(FALSE) /\ UNCHANGED queued
       ELSE Goto("DestroyCluster") /\ UNCHANGED request
    /\ UNCHANGED <<kubernetes, cloud, children>>

\* Requeues while a child carries the recorded cluster id, which is the empty
\* string when none was recorded.
FindChildObjects ==
    /\ pc = "FindChildObjects"
    /\ IF original.status.clusterID \in children
       THEN Return(TRUE) /\ UNCHANGED queued
       ELSE Goto("DestroyCluster") /\ UNCHANGED request
    /\ UNCHANGED <<kubernetes, cloud, children>>

\* Mutant: the delete goes by name.
DestroyClusterByName ==
    LET skip == \/ IsSet(ClusterUninstalling, original.status.conditions)
                \/ ~IsSet(ClusterCreated, original.status.conditions)
    IN  /\ pc = "DestroyCluster"
        /\ Goto(IF skip THEN "WaitUntilMissing" ELSE "NotifyUninstalling")
        /\ cluster' = IF ~skip /\ cluster # None
                      THEN [cluster EXCEPT !.state = "uninstalling"]
                      ELSE cluster
        /\ UNCHANGED <<kubernetes, request, configs, providers, roles, used, children>>

\* A delete of an id OCM does not know answers 404, which is success.
DestroyCluster ==
    LET skip == \/ IsSet(ClusterUninstalling, original.status.conditions)
                \/ ~IsSet(ClusterCreated, original.status.conditions)
    IN  /\ pc = "DestroyCluster"
        /\ Goto(IF skip THEN "WaitUntilMissing" ELSE "NotifyUninstalling")
        /\ cluster' = IF ~skip /\ cluster # None /\ cluster.id = original.status.clusterID
                      THEN [cluster EXCEPT !.state = "uninstalling"]
                      ELSE cluster
        /\ UNCHANGED <<kubernetes, request, configs, providers, roles, used, children>>

NotifyUninstalling ==
    /\ pc = "NotifyUninstalling"
    /\ Notify(ClusterUninstalling)
    /\ Goto("WaitUntilMissing")

\* Mutants: a cluster in one of these states counts as missing; a cluster
\* that is still there is not looked at again.
WaitUntilMissingExcept(state) ==
    /\ pc = "WaitUntilMissing"
    /\ IF \/ IsSet(ClusterDeleted, original.status.conditions) \/ cluster = None
          \/ cluster # None /\ cluster.state = state
       THEN Goto("DestroyOperatorRoles") /\ UNCHANGED request
       ELSE Return(TRUE) /\ UNCHANGED queued
    /\ UNCHANGED <<kubernetes, cloud, children>>

WaitUntilMissingUninstalling == WaitUntilMissingExcept("uninstalling")

WaitUntilMissingError == WaitUntilMissingExcept("error")

WaitUntilMissingOnce ==
    /\ pc = "WaitUntilMissing"
    /\ IF IsSet(ClusterDeleted, original.status.conditions) \/ cluster = None
       THEN Goto("DestroyOperatorRoles") /\ UNCHANGED request
       ELSE Return(FALSE) /\ UNCHANGED queued
    /\ UNCHANGED <<kubernetes, cloud, children>>

\* Every state of a cluster that still exists is requeued.  The branch that
\* sets ClusterDeleted needs a cluster that exists and is nil: it is not taken.
WaitUntilMissing ==
    /\ pc = "WaitUntilMissing"
    /\ IF IsSet(ClusterDeleted, original.status.conditions) \/ cluster = None
       THEN Goto("DestroyOperatorRoles") /\ UNCHANGED request
       ELSE Return(TRUE) /\ UNCHANGED queued
    /\ UNCHANGED <<kubernetes, cloud, children>>

DestroyOperatorRoles ==
    LET skip == IsSet(OperatorRolesDeleted, original.status.conditions)
    IN  /\ pc = "DestroyOperatorRoles"
        /\ Goto(IF skip THEN "DestroyOIDCConfig" ELSE "NotifyRolesDeleted")
        /\ roles' = IF skip THEN roles ELSE [roles EXCEPT ![desired.prefix] = "none"]
        /\ UNCHANGED <<kubernetes, request, cluster, configs, providers, used, children>>

DestroyOperatorRolesFails ==
    /\ pc = "DestroyOperatorRoles"
    /\ "error" \in Environment
    /\ ~IsSet(OperatorRolesDeleted, original.status.conditions)
    /\ roles[desired.prefix] = "all"
    /\ roles' = [roles EXCEPT ![desired.prefix] = "some"]
    /\ Return(TRUE)
    /\ UNCHANGED <<kubernetes, queued, cluster, configs, providers, used, children>>

NotifyRolesDeleted ==
    /\ pc = "NotifyRolesDeleted"
    /\ Notify(OperatorRolesDeleted)
    /\ Goto("DestroyOIDCConfig")

\* First half of DestroyOIDC: the config is deleted from OCM under the
\* condition OIDCProviderDeleted.
DestroyOIDCConfig ==
    LET skip == IsSet(OIDCProviderDeleted, original.status.conditions)
    IN  /\ pc = "DestroyOIDCConfig"
        /\ Goto(IF skip THEN "DestroyOIDCProvider" ELSE "NotifyProviderDeleted")
        /\ configs' = IF skip THEN configs ELSE configs \ {original.status.config}
        /\ UNCHANGED <<kubernetes, request, cluster, providers, roles, used, children>>

NotifyProviderDeleted ==
    /\ pc = "NotifyProviderDeleted"
    /\ Notify(OIDCProviderDeleted)
    /\ Goto("DestroyOIDCProvider")

\* Mutant: the wrong condition is tested.
DestroyOIDCProviderSkipped ==
    LET skip == IsSet(OIDCProviderDeleted, original.status.conditions)
    IN  /\ pc = "DestroyOIDCProvider"
        /\ Goto(IF skip THEN "RemoveFinalizer" ELSE "NotifyConfigDeleted")
        /\ providers' = IF skip THEN providers ELSE providers \ {original.status.provider}
        /\ UNCHANGED <<kubernetes, request, cluster, configs, roles, used, children>>

\* Second half: the provider is deleted from AWS under OIDCConfigDeleted.
DestroyOIDCProvider ==
    LET skip == IsSet(OIDCConfigDeleted, original.status.conditions)
    IN  /\ pc = "DestroyOIDCProvider"
        /\ Goto(IF skip THEN "RemoveFinalizer" ELSE "NotifyConfigDeleted")
        /\ providers' = IF skip THEN providers ELSE providers \ {original.status.provider}
        /\ UNCHANGED <<kubernetes, request, cluster, configs, roles, used, children>>

NotifyConfigDeleted ==
    /\ pc = "NotifyConfigDeleted"
    /\ Notify(OIDCConfigDeleted)
    /\ Goto("RemoveFinalizer")

\* The API server removes a deleting object with its last finalizer.
RemoveFinalizer ==
    /\ pc = "RemoveFinalizer"
    /\ IF original.finalizer
       THEN /\ obj # None
            /\ obj' = IF obj.deleting THEN None ELSE [obj EXCEPT !.finalizer = FALSE]
       ELSE UNCHANGED obj
    /\ Return(FALSE)
    /\ UNCHANGED <<cache, queued, cloud, children>>

-----------------------------------------------------------------------------
(* Errors and crashes *)

\* The steps that patch the object.
PatchSteps ==
    {"Reconciling", "AddFinalizer", "SaveOIDCConfig", "SaveOIDCProvider", "SaveRolesCreated",
     "SaveClusterID", "NotifyCreated", "NotifyUpdated", "Complete", "NotifyUninstalling",
     "NotifyRolesDeleted", "NotifyProviderDeleted", "NotifyConfigDeleted", "RemoveFinalizer"}

\* The other calls of a reconcile; pc is "Idle" between two reconciles.
Steps ==
    PatchSteps \cup
    {"Idle", "SavePrefix", "SetVersion", "GetCurrentState", "ApplyCluster",
     "EnsureOIDCConfig", "EnsureOIDCProvider", "CreateOperatorRoles", "CreateCluster",
     "UpdateCluster", "WaitUntilReady", "FindChildObjects", "DestroyCluster",
     "WaitUntilMissing", "DestroyOperatorRoles", "DestroyOIDCConfig", "DestroyOIDCProvider"}

\* A patch with nothing to change is not sent.
ConditionOf ==
    [NotifyCreated        |-> ClusterCreated,
     NotifyUpdated        |-> ClusterUpdated,
     Complete             |-> Reconciled("Create"),
     NotifyUninstalling   |-> ClusterUninstalling,
     NotifyRolesDeleted   |-> OperatorRolesDeleted,
     NotifyProviderDeleted |-> OIDCProviderDeleted,
     NotifyConfigDeleted  |-> OIDCConfigDeleted]

NothingToPatch ==
    LET done(condition) == IsSet(condition, original.status.conditions)
    IN  \/ pc \in DOMAIN ConditionOf /\ done(ConditionOf[pc])
        \/ pc = "Reconciling" /\ done(Reconciling(GetTrigger(original.deleting)))
        \/ pc = "AddFinalizer" /\ original.finalizer
        \/ pc = "RemoveFinalizer" /\ ~original.finalizer

\* Calls the other side refuses in the present state, with no outage: the
\* object is gone, or the cluster, config or provider is not what the call
\* needs.  A delete by an empty id may be refused or answer 404.  The model
\* also refuses to hand out more ids than it has.
Refused ==
    LET status == original.status
        todo(condition) == ~IsSet(condition, status.conditions)
    IN  \/ pc \in PatchSteps /\ ~NothingToPatch /\ obj = None
        \/ pc = "SavePrefix" /\ SpecPrefix = NoID /\ Prefixes \subseteq used
        \/ /\ pc = "EnsureOIDCConfig"
           /\ IF status.config = NoID THEN ConfigIDs \subseteq used ELSE status.config \notin configs
        \/ pc = "EnsureOIDCProvider" /\ status.provider = NoID /\ status.config \in providers
        \/ pc = "CreateCluster" /\ (cluster # None \/ ClusterIDs \subseteq used)
        \/ /\ pc = "UpdateCluster"
           /\ \/ status.config \notin configs
              \/ cluster = None
              \/ cluster # None /\ cluster.id # status.clusterID
        \/ /\ pc = "DestroyCluster" /\ status.clusterID = NoID
           /\ todo(ClusterUninstalling) /\ ~todo(ClusterCreated)
        \/ pc = "DestroyOIDCConfig" /\ status.config = NoID /\ todo(OIDCProviderDeleted)
        \/ pc = "DestroyOIDCProvider" /\ status.provider = NoID /\ todo(OIDCConfigDeleted)

\* Every error is returned with a requeue: requeue.OnError, the handler of the
\* phases, or controller-runtime's back-off.
ReturnError ==
    /\ pc # "Idle"
    /\ Return(TRUE)
    /\ UNCHANGED <<kubernetes, queued, cloud, children>>

CallRefused == Refused /\ ReturnError

CallFails == "error" \in Environment /\ ReturnError

\* What the informers may list of the children next: one more, one less, or one
\* that has taken the id of a cluster, which may be gone by then.
ChildLists ==
    IF "children" \in Environment
    THEN UNION {{children \cup {id}, children \ {id}, (children \ {NoID}) \cup {id}} :
                    id \in {NoID} \cup (ClusterIDs \cap used)}
    ELSE {children}

\* The manager restarts, in a reconcile or between two: its memory and the
\* delayed adds are lost, the caches are listed anew and every object is queued.
Crash ==
    /\ "crash" \in Environment
    /\ pc' = "Idle"
    /\ original' = None /\ snapshot' = None /\ refreshed' = FALSE
    /\ desired' = NoDesired /\ current' = None
    /\ cache' = obj /\ children' \in ChildLists
    /\ queued' = (obj # None) /\ timer' = FALSE
    /\ UNCHANGED <<obj, cloud>>

-----------------------------------------------------------------------------
(* The rest of the world *)

\* The informer catches up.  The predicates pass the creation, the deletion and
\* a new generation; a change of the status alone is not an event.  When
\* the cache does not lag it is enough to let it catch up between reconciles,
\* which is when it is read.
SyncCache ==
    LET event == \/ cache = None \/ obj = None
                 \/ cache # None /\ obj # None /\ ~cache.deleting /\ obj.deleting
                 \/ cache # None /\ obj # None /\ cache.generation # obj.generation
    IN  /\ cache # obj
        /\ pc = "Idle" \/ "lag" \in Environment
        /\ cache' = obj
        /\ queued' = (queued \/ event)
        /\ UNCHANGED <<obj, timer, pc, request, cloud, children>>

TimerFires ==
    /\ timer
    /\ timer' = FALSE /\ queued' = TRUE
    /\ UNCHANGED <<kubernetes, pc, request, cloud, children>>

\* The watch reports the deletion and the creation, even when the cache goes
\* from the old object to the new one at once.
UserRecreates ==
    /\ "recreate" \in Environment
    /\ obj = None
    /\ obj' = NewObject
    /\ queued' = TRUE
    /\ UNCHANGED <<cache, timer, pc, request, cloud, children>>

UserEdits ==
    /\ obj # None /\ obj.generation < MaxGeneration
    /\ obj' = [obj EXCEPT !.generation = obj.generation + 1]
    /\ UNCHANGED <<cache, queue, pc, request, cloud, children>>

UserDeletes ==
    /\ obj # None /\ ~obj.deleting
    /\ obj' = IF obj.finalizer THEN [obj EXCEPT !.deleting = TRUE] ELSE None
    /\ UNCHANGED <<cache, queue, pc, request, cloud, children>>

ClusterChanges(next) ==
    /\ cluster' = next
    /\ UNCHANGED <<kubernetes, queue, pc, request, configs, providers, roles, children>>

OCMProvisions ==
    /\ cluster # None /\ cluster.state = "installing"
    /\ \E state \in {"ready", "error"} : ClusterChanges([cluster EXCEPT !.state = state])
    /\ UNCHANGED used

OCMUninstalls ==
    /\ cluster # None /\ cluster.state = "uninstalling"
    /\ ClusterChanges(None)
    /\ UNCHANGED used

\* Another tool creates a cluster of the same name, or removes this one.
OthersCreateCluster ==
    /\ "others" \in Environment
    /\ cluster = None
    /\ \E id \in ClusterIDs \ used :
        /\ ClusterChanges([id |-> id, state |-> "ready", spec |-> 0, mine |-> FALSE,
                           config |-> NoID, prefix |-> NoID])
        /\ used' = used \cup {id}

OthersDeleteCluster ==
    /\ "others" \in Environment
    /\ cluster # None /\ cluster.state # "uninstalling"
    /\ ClusterChanges([cluster EXCEPT !.state = "uninstalling"])
    /\ UNCHANGED used

ChildrenChange ==
    /\ children' \in ChildLists \ {children}
    /\ UNCHANGED <<kubernetes, queue, pc, request, cloud>>

-----------------------------------------------------------------------------

ReconcileStep ==
    \/ Start \/ SavePrefix \/ SetVersion \/ NewRequestNotFound \/ ReconcileTrigger
    \/ AddFinalizer \/ GetCurrentState \/ ApplyCluster
    \/ EnsureOIDCConfig \/ SaveOIDCConfig \/ EnsureOIDCProvider \/ SaveOIDCProvider
    \/ CreateOperatorRoles \/ SaveRolesCreated
    \/ CreateCluster \/ SaveClusterID \/ NotifyCreated
    \/ UpdateCluster \/ NotifyUpdated \/ WaitUntilReady \/ Complete
    \/ FindChildObjects \/ DestroyCluster \/ NotifyUninstalling \/ WaitUntilMissing
    \/ DestroyOperatorRoles \/ NotifyRolesDeleted
    \/ DestroyOIDCConfig \/ NotifyProviderDeleted \/ DestroyOIDCProvider \/ NotifyConfigDeleted
    \/ RemoveFinalizer \/ CallRefused

Outage == CreateOperatorRolesFails \/ DestroyOperatorRolesFails \/ CallFails \/ Crash

World ==
    \/ SyncCache \/ TimerFires
    \/ UserRecreates \/ UserEdits \/ UserDeletes
    \/ OCMProvisions \/ OCMUninstalls \/ OthersCreateCluster \/ OthersDeleteCluster
    \/ ChildrenChange

Next == ReconcileStep \/ Outage \/ World

Spec == Init /\ [][Next]_vars

\* The worker, the informer and the timers are always scheduled, and OCM
\* finishes what it started.  Outages end at some point.
FairSpec ==
    /\ Spec
    /\ WF_vars(ReconcileStep) /\ WF_vars(SyncCache) /\ WF_vars(TimerFires)
    /\ WF_vars(OCMProvisions) /\ WF_vars(OCMUninstalls)
    /\ <>[][ReconcileStep \/ World]_vars

-----------------------------------------------------------------------------
(* Properties *)

FinalizerHeld == obj # None /\ obj.finalizer

OwnCluster == cluster # None /\ cluster.mine

KubernetesOK == obj \in Objects \cup {None} /\ cache \in Objects \cup {None}

QueueOK == queued \in BOOLEAN /\ timer \in BOOLEAN

RequestOK ==
    /\ pc \in Steps
    /\ original \in Objects \cup {None} /\ snapshot \in Objects \cup {None}
    /\ refreshed \in BOOLEAN
    /\ desired \in [generation: 0..MaxGeneration, prefix: Prefixes \cup {NoID}]
    /\ current \in Clusters \cup {None}

CloudOK ==
    /\ cluster \in Clusters \cup {None}
    /\ configs \subseteq ConfigIDs /\ providers \subseteq ConfigIDs
    /\ roles \in [Prefixes -> {"none", "some", "all"}]
    /\ children \subseteq ClusterIDs \cup {NoID}
    /\ used \subseteq ClusterIDs \cup ConfigIDs \cup Prefixes

\* Every variable of the reconciler, of Kubernetes, OCM and AWS holds a value
\* the code can give it: no status field is ever stored with an id of another
\* kind, and no request refers to an object or a cluster that never was.
TypeOK == KubernetesOK /\ QueueOK /\ RequestOK /\ CloudOK

\* A cluster the operator created always has a resource that holds the
\* finalizer: createCluster runs after AddFinalizer, and CompleteDestroy only
\* after WaitUntilMissing has found no cluster of that name, whatever crashes,
\* errors, edits and deletes come in between.
ClusterHasOwner == OwnCluster => FinalizerHeld

\* While the operator's cluster exists, so do the OIDC config, the OIDC
\* provider and the operator roles it was built with: createCluster completes
\* them first and ReconcileDelete removes them last.
ClusterHasIdentity ==
    OwnCluster => /\ cluster.config \in configs
                  /\ cluster.config \in providers
                  /\ roles[cluster.prefix] = "all"

\* Operator roles are in AWS only under the prefix recorded in the status of a
\* resource that holds the finalizer, so DestroyOperatorRoles will find them:
\* NewRequest stores the prefix before anything is made under it, and never
\* generates a second one.
RolesAccountedFor ==
    \A p \in Prefixes : roles[p] # "none" => FinalizerHeld /\ obj.status.prefix = p

Milestones ==
    {ClusterCreated, ClusterUninstalling, OperatorRolesDeleted,
     OIDCProviderDeleted, OIDCConfigDeleted}

\* A milestone of the life cycle is never taken back while the resource lives.
\* The phases skip work on the strength of these conditions, and every status
\* patch replaces the whole list with the one its reconcile holds.
MilestonesKept ==
    [][obj # None /\ obj' # None
        => obj.status.conditions \cap Milestones \subseteq obj'.status.conditions]_vars

\* CompleteDestroy leaves nothing behind that the status records: when the
\* finalizer goes, the recorded OIDC config, OIDC provider and roles are gone.
ReleasedClean ==
    [][FinalizerHeld /\ ~FinalizerHeld' =>
        /\ obj.status.config \notin configs
        /\ obj.status.provider \notin providers
        /\ obj.status.prefix \in Prefixes => roles[obj.status.prefix] = "none"]_vars

\* DestroyCluster never deletes a cluster another tool created, not even one
\* that took over the name: it deletes by the recorded id.
OnlyOwnClusterDeleted ==
    [][DestroyCluster /\ cluster' # cluster => cluster.mine]_vars

\* The status records everything the delete path needs.
Recorded ==
    /\ obj # None
    /\ ClusterCreated \in obj.status.conditions
    /\ OwnCluster => obj.status.clusterID = cluster.id
    /\ NoID \notin {obj.status.prefix, obj.status.config, obj.status.provider}

\* The delete of a resource whose status is complete runs to its end, through
\* crashes and failed calls: every phase requeues until it has done its part.
DeletionCompletes == (Recorded /\ obj.deleting) ~> (obj = None)

\* An edit of the spec reaches the cluster, unless the resource is deleted or
\* the cluster fails first: neither a wait for readiness nor a failed update
\* loses it.
EditsReachOCM ==
    \A g \in 1..MaxGeneration :
        (Recorded /\ obj.generation = g)
            ~> \/ obj = None \/ obj.deleting
               \/ cluster = None \/ cluster.state \in {"error", "uninstalling"}
               \/ cluster.spec >= g

ExternalState ==
    IF ~OwnCluster THEN "absent"
    ELSE IF cluster.state = "uninstalling" THEN "going" ELSE "live"

C == INSTANCE Custody WITH
         held <- FinalizerHeld, external <- ExternalState, Releasable <- {"absent"}

\* The reconciler implements Custody: whatever happens, the finalizer and the
\* operator's cluster change only one at a time and in the order create under
\* the finalizer, delete, vanish, release.
ImplementsCustody == C!Spec

-----------------------------------------------------------------------------
(* What comments in the source say and the code does not keep *)

\* DestroyCluster skips the delete when "we have not created the cluster"
\* (phases.go): then OCM has no cluster of ours.
SkippedDeleteMeansNotCreated ==
    pc = "DestroyCluster" /\ ~IsSet(ClusterCreated, original.status.conditions)
        => ~OwnCluster

\* The condition OIDCProviderDeleted says "oidc provider has been deleted from
\* aws" (conditions.go): then AWS does not have the recorded provider.
ProviderDeletedMeansGone ==
    obj # None /\ OIDCProviderDeleted \in obj.status.conditions
        => obj.status.provider \notin providers

\* createCluster will "store the required provider data in the status"
\* (request.go): once it returns, the status holds the id of the cluster.
ClusterIDStored ==
    pc = "NotifyCreated" /\ obj # None => obj.status.clusterID = current.id

\* FindChildObjects is "to prevent deletion of the cluster while objects are
\* still attached" (phases.go): it is not deleted under a child that has its id.
NoChildrenAtDestroy ==
    [][DestroyCluster /\ cluster' # cluster => cluster.id \notin children]_vars

\* ensureOIDCProvider will "create oidc config only if we have not created it
\* already" (request.go): there are never two of them.
OIDCConfigCreatedOnce == Cardinality(configs) <= 1
=============================================================================
