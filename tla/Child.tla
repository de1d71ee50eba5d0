------------------------------- MODULE Child -------------------------------
(***************************************************************************)
(* What the reconcilers of the child resources share: MachinePool,         *)
(* GitLabIdentityProvider and LDAPIdentityProvider each name a parent      *)
(* cluster that the operator looks up in OCM (controllers/controller.go,   *)
(* controllers/phases, controllers/request/cluster.go).  The kinds add     *)
(* their own phases and the resource they own in OCM.                      *)
(*                                                                         *)
(* As in ROSACluster a step is one call to Kubernetes or OCM.  Here an     *)
(* action covers the answer NotFound of its own patch.                     *)
(***************************************************************************)
EXTENDS Conditions, Naturals

CONSTANTS
    None, NoID,
    ClusterIDs,     \* ids OCM gives to clusters of the parent's name
    Specs,          \* the specs the user chooses from
    MaxGeneration,  \* bound on edits of the spec
    Environment     \* what may happen: a subset of Disturbances

\* As in ROSACluster; in addition "clusters" come and go, the Secret and the
\* ConfigMap come and go, OCM may fail to answer a lookup by cluster id, and the
\* API server enforces the rules of the CRD that make ids "immutable".
Disturbances ==
    {"lag", "error", "crash", "recreate", "others", "clusters", "secrets", "flaky", "immutable"}

ASSUME ChildAssumption ==
    /\ NoID \notin ClusterIDs
    /\ MaxGeneration \in Nat \ {0}
    /\ Environment \subseteq Disturbances

VARIABLES
    obj, cache, queued, timer, pc,  \* as in ROSACluster
    original,   \* req.Original
    desired,    \* req.Desired: the spec when the reconcile started
    found,      \* the cluster GetUpstreamCluster returned
    current,    \* req.Current: the spec copied from the resource in OCM
    cluster,    \* the cluster of the parent's name in OCM, or None
    used        \* ids OCM has handed out

kubernetes == <<obj, cache>>
queue      == <<queued, timer>>
request    == <<original, desired, found, current>>
childVars  == <<kubernetes, queue, pc, request, cluster, used>>

Clusters == [id: ClusterIDs, state: {"installing", "ready", "uninstalling"}]

UpstreamCluster(trigger, exists) == Condition("UpstreamClusterExists", exists, trigger)

CommonConditions ==
    {Reconciling("Update"), Reconciling("Delete"), Reconciled("Create"),
     UpstreamCluster("Create", TRUE), UpstreamCluster("Create", FALSE)}

ChildInit(objects) ==
    /\ obj \in objects /\ cache = None
    /\ queued = FALSE /\ timer = FALSE
    /\ pc = "Idle"
    /\ original = None /\ desired = None /\ found = None /\ current = None
    /\ cluster = None /\ used = {}

-----------------------------------------------------------------------------
(* Calls to Kubernetes *)

Goto(next) == pc' = next /\ UNCHANGED queue

Return(requeue) ==
    /\ pc' = "Idle"
    /\ timer' = (timer \/ requeue) /\ UNCHANGED queued
    /\ original' = None /\ desired' = None /\ found' = None /\ current' = None

\* The merge patch of a status, field by field.
MergePatch(server, from, to) ==
    [field \in DOMAIN server |-> Merged(server[field], from[field], to[field])]

\* PatchStatus and on to the next call; the answer replaces original.
PatchStatus(to, next) ==
    IF obj = None
    THEN Return(TRUE) /\ UNCHANGED obj
    ELSE /\ obj' = [obj EXCEPT !.status = MergePatch(obj.status, original.status, to)]
         /\ original' = obj'
         /\ Goto(next)
         /\ UNCHANGED <<desired, found, current>>

\* The API server refuses a patch that changes an id the status has already.
Refuses(server, from, to) ==
    "immutable" \in Environment /\ to # from /\ server \notin {NoID, to}

\* conditions.Update and on to the next call
UpdateCondition(condition, next) ==
    IF IsSet(condition, original.status.conditions)
    THEN Goto(next) /\ UNCHANGED <<obj, request>>
    ELSE PatchStatus([original.status EXCEPT
                         !.conditions = AddCondition(original.status.conditions, condition)],
                     next)

\* conditions.Update at the end of a reconcile that is requeued either way
UpdateConditionAndReturn(condition) ==
    /\ obj' = IF IsSet(condition, original.status.conditions) \/ obj = None
              THEN obj
              ELSE [obj EXCEPT !.status.conditions =
                       AddCondition(original.status.conditions, condition)]
    /\ Return(TRUE)

-----------------------------------------------------------------------------
(* Reconcile, up to the phases of the kind *)

\* Takes the key from the queue and reads the object from the cache.
Dequeue ==
    /\ pc = "Idle" /\ queued
    /\ "lag" \in Environment \/ cache = obj
    /\ queued' = FALSE
    /\ UNCHANGED <<kubernetes, found, current, cluster, used>>

\* NewRequest succeeded.
Accept ==
    /\ original' = cache /\ desired' = cache.spec
    /\ pc' = "Reconciling"
    /\ UNCHANGED timer

\* NewRequest failed: NotFound is dropped, everything else is retried.
Reject(retry) ==
    /\ timer' = (timer \/ retry)
    /\ UNCHANGED <<pc, original, desired>>

ReconcileTrigger ==
    LET trigger == GetTrigger(original.deleting)
    IN  /\ pc = "Reconciling"
        /\ UpdateCondition(Reconciling(trigger),
                           IF trigger = "Delete" THEN "Destroy" ELSE "AddFinalizer")
        /\ UNCHANGED <<cache, cluster, used>>

\* Mutant: the finalizer is added to the object in memory only.
AddFinalizerNotPatched ==
    /\ pc = "AddFinalizer"
    /\ original' = [original EXCEPT !.finalizer = TRUE]
    /\ Goto("GetUpstreamCluster")
    /\ UNCHANGED <<obj, desired, found, current, cache, cluster, used>>

AddFinalizer ==
    /\ pc = "AddFinalizer"
    /\ IF original.finalizer
       THEN Goto("GetUpstreamCluster") /\ UNCHANGED <<obj, request>>
       ELSE IF obj = None
       THEN Return(TRUE) /\ UNCHANGED obj
       ELSE /\ obj' = [obj EXCEPT !.finalizer = TRUE]
            /\ original' = obj'
            /\ Goto("GetUpstreamCluster")
            /\ UNCHANGED <<desired, found, current>>
    /\ UNCHANGED <<cache, cluster, used>>

\* By name until an id is recorded, then by id: a cluster that was replaced by
\* another of the same name counts as missing.
GetUpstreamCluster ==
    LET id == original.status.clusterID
    IN  /\ pc = "GetUpstreamCluster"
        /\ found' = IF cluster # None /\ id \in {NoID, cluster.id} THEN cluster ELSE None
        /\ Goto(IF found' = None THEN "UpdateUpstream" ELSE "SaveClusterStatus")
        /\ UNCHANGED <<kubernetes, original, desired, current, cluster, used>>

\* A lookup by id that fails with anything but 404 is not reported: the nil
\* cluster goes on to SetClusterStatus.
GetUpstreamClusterFails ==
    /\ pc = "GetUpstreamCluster" /\ original.status.clusterID # NoID
    /\ "flaky" \in Environment
    /\ found' = None
    /\ Goto("SaveClusterStatus")
    /\ UNCHANGED <<kubernetes, original, desired, current, cluster, used>>

\* The patch at the end of GetUpstreamCluster, with what SetClusterStatus makes
\* of the status.
SaveClusterStatus(status) ==
    /\ pc = "SaveClusterStatus"
    /\ IF /\ obj # None
          /\ Refuses(obj.status.clusterID, original.status.clusterID, status.clusterID)
       THEN Return(TRUE) /\ UNCHANGED obj
       ELSE PatchStatus(status, "UpdateUpstream")
    /\ UNCHANGED <<cache, cluster, used>>

\* The rest of HandleClusterPhase.
UpdateUpstream ==
    LET condition == UpstreamCluster("Create", found # None)
    IN  /\ pc = "UpdateUpstream"
        /\ IF found # None /\ found.state = "ready"
           THEN UpdateCondition(condition, "GetCurrentState")
           ELSE UpdateConditionAndReturn(condition)
        /\ UNCHANGED <<cache, cluster, used>>

Complete ==
    /\ pc = "Complete"
    /\ UpdateConditionAndReturn(Reconciled("Create"))
    /\ UNCHANGED <<cache, cluster, used>>

\* CompleteDestroy: a deleting object goes with its last finalizer.
RemoveFinalizer ==
    /\ pc = "RemoveFinalizer"
    /\ IF original.finalizer /\ obj = None
       THEN Return(TRUE) /\ UNCHANGED obj
       ELSE /\ obj' = IF ~original.finalizer THEN obj
                      ELSE IF obj.deleting THEN None ELSE [obj EXCEPT !.finalizer = FALSE]
            /\ Return(FALSE)
    /\ UNCHANGED <<cache, cluster, used>>

\* A call that changes nothing and fails; every error is requeued.
CallFails ==
    /\ "error" \in Environment
    /\ pc # "Idle"
    /\ Return(TRUE)
    /\ UNCHANGED <<kubernetes, cluster, used>>

Crash ==
    /\ "crash" \in Environment
    /\ pc' = "Idle"
    /\ original' = None /\ desired' = None /\ found' = None /\ current' = None
    /\ cache' = obj
    /\ queued' = (obj # None) /\ timer' = FALSE
    /\ UNCHANGED <<obj, cluster, used>>

-----------------------------------------------------------------------------
(* The rest of the world *)

SyncCache ==
    LET event == \/ cache = None \/ obj = None
                 \/ cache # None /\ obj # None /\ ~cache.deleting /\ obj.deleting
                 \/ cache # None /\ obj # None /\ cache.generation # obj.generation
    IN  /\ cache # obj
        /\ pc = "Idle" \/ "lag" \in Environment
        /\ cache' = obj
        /\ queued' = (queued \/ event)
        /\ UNCHANGED <<obj, timer, pc, request, cluster, used>>

TimerFires ==
    /\ timer
    /\ timer' = FALSE /\ queued' = TRUE
    /\ UNCHANGED <<kubernetes, pc, request, cluster, used>>

UserRecreates(objects) ==
    /\ "recreate" \in Environment
    /\ obj = None
    /\ obj' \in objects
    /\ queued' = TRUE
    /\ UNCHANGED <<cache, timer, pc, request, cluster, used>>

UserEdits ==
    /\ obj # None /\ obj.generation < MaxGeneration
    /\ \E spec \in Specs \ {obj.spec} :
        obj' = [obj EXCEPT !.generation = obj.generation + 1, !.spec = spec]
    /\ UNCHANGED <<cache, queue, pc, request, cluster, used>>

UserDeletes ==
    /\ obj # None /\ ~obj.deleting
    /\ obj' = IF obj.finalizer THEN [obj EXCEPT !.deleting = TRUE] ELSE None
    /\ UNCHANGED <<cache, queue, pc, request, cluster, used>>

ClusterAppears ==
    /\ cluster = None
    /\ \E id \in ClusterIDs \ used :
        /\ cluster' = [id |-> id, state |-> "installing"]
        /\ used' = used \cup {id}
    /\ UNCHANGED <<kubernetes, queue, pc, request>>

ClusterInstalled ==
    /\ cluster # None /\ cluster.state = "installing"
    /\ cluster' = [cluster EXCEPT !.state = "ready"]
    /\ UNCHANGED <<kubernetes, queue, pc, request, used>>

ClusterUninstalls ==
    /\ "clusters" \in Environment
    /\ cluster # None /\ cluster.state # "uninstalling"
    /\ cluster' = [cluster EXCEPT !.state = "uninstalling"]
    /\ UNCHANGED <<kubernetes, queue, pc, request, used>>

\* The kinds add that what the cluster held goes with it.
ClusterGone ==
    /\ cluster # None /\ cluster.state = "uninstalling"
    /\ cluster' = None
    /\ UNCHANGED <<kubernetes, queue, pc, request, used>>

-----------------------------------------------------------------------------

ChildStep ==
    \/ ReconcileTrigger \/ AddFinalizer \/ GetUpstreamCluster \/ UpdateUpstream
    \/ Complete \/ RemoveFinalizer

ChildOutage == GetUpstreamClusterFails \/ CallFails \/ Crash

ChildWorld ==
    \/ SyncCache \/ TimerFires \/ UserEdits \/ UserDeletes
    \/ ClusterAppears \/ ClusterInstalled \/ ClusterUninstalls

FinalizerHeld == obj # None /\ obj.finalizer
=============================================================================
