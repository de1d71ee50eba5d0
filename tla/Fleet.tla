------------------------------- MODULE Fleet -------------------------------
(***************************************************************************)
(* One manager that runs the ROSACluster and the MachinePool reconcilers,  *)
(* each with its own worker, queue and informer (main.go).  They never     *)
(* call each other.  The pool's reconciler finds the cluster in OCM that   *)
(* the other one creates and deletes; the cluster's reconciler counts, in  *)
(* the informer's list, the pools that carry the id of its cluster and     *)
(* holds its delete back for them.                                         *)
(*                                                                         *)
(* Both modules are instantiated as they are: what is environment to one   *)
(* of them is a step of the other here.  Failed calls and edits stay with  *)
(* the modules.                                                            *)
(***************************************************************************)
EXTENDS Conditions, Naturals, FiniteSets

CONSTANTS
    None, NoID, ClusterIDs, ConfigIDs, Prefixes, SpecPrefix,    \* as in ROSACluster
    MaxGeneration,
    Specs, Waits, Hosted, Zones,                                \* as in MachinePool
    Environment     \* {} or {"crash"}

VARIABLES
    obj, cache, queued, timer, pc, original, snapshot, refreshed, desired, current,
    cluster, configs, providers, roles, used,                   \* as in ROSACluster
    poolObj, poolCache, poolQueued, poolTimer, poolPc, poolOriginal, poolDesired,
    poolFound, poolCurrent, pool, nodes,                        \* as in MachinePool
    awaited         \* the cluster ids of pools listed since the ROSACluster was deleted

rosaVars ==
    <<obj, cache, queued, timer, pc, original, snapshot, refreshed, desired, current,
      cluster, configs, providers, roles, used>>

poolReconciler ==
    <<poolObj, poolCache, poolQueued, poolTimer, poolPc, poolOriginal, poolDesired,
      poolFound, poolCurrent>>

poolVars == <<poolReconciler, pool, nodes>>

vars == <<rosaVars, poolVars, awaited>>

\* Mutant: a pool without a cluster id matches every id.
AttachedLoose ==
    IF poolCache = None THEN {} ELSE {NoID, poolCache.status.clusterID}

\* ExistsForClusterID lists the pools from the informer's cache, not from the API
\* server, and matches their status.clusterID.
Attached == IF poolCache = None THEN {} ELSE {poolCache.status.clusterID}

\* The ROSACluster's cluster as the pool's lookup sees it.  A cluster that failed
\* is like one that is installing: it is not ready.
Upstream ==
    IF cluster = None THEN None
    ELSE [id |-> cluster.id, state |-> IF cluster.state = "error" THEN "installing" ELSE cluster.state]

R == INSTANCE ROSACluster WITH
         children <- Attached, Environment <- Environment \cup {"children"}

P == INSTANCE MachinePool WITH
         obj <- poolObj, cache <- poolCache, queued <- poolQueued, timer <- poolTimer,
         pc <- poolPc, original <- poolOriginal, desired <- poolDesired, found <- poolFound,
         current <- poolCurrent, cluster <- Upstream, used <- ClusterIDs \cap used,
         Environment <- Environment \cup {"clusters"}

\* The user has just created both objects.
Init ==
    /\ poolCache = None
    /\ R!Init /\ P!Init
    /\ awaited = {}

-----------------------------------------------------------------------------

\* A pool is awaited from the deletion of the ROSACluster until it leaves the list.
Awaits ==
    awaited' = IF obj # None /\ ~obj.deleting /\ obj' # None /\ obj'.deleting
               THEN Attached' ELSE awaited \cap Attached'

ClusterReconciles == UNCHANGED poolVars /\ R!ReconcileStep /\ Awaits

ClusterSync == UNCHANGED poolVars /\ R!SyncCache /\ Awaits

ClusterTimer == UNCHANGED poolVars /\ R!TimerFires /\ Awaits

UserDeletesCluster == UNCHANGED poolVars /\ R!UserDeletes /\ Awaits

PoolReconciles == UNCHANGED rosaVars /\ P!ReconcileStep /\ Awaits

PoolSync == UNCHANGED <<rosaVars, pool, nodes>> /\ P!SyncCache /\ Awaits

PoolTimer == UNCHANGED <<rosaVars, pool, nodes>> /\ P!TimerFires /\ Awaits

UserDeletesPool == UNCHANGED <<rosaVars, pool, nodes>> /\ P!UserDeletes /\ Awaits

OCMProvisions == UNCHANGED poolVars /\ R!OCMProvisions /\ Awaits

\* What the cluster held goes with it.
OCMUninstalls == UNCHANGED poolReconciler /\ R!OCMUninstalls /\ P!ParentGone /\ Awaits

PoolRemoved == UNCHANGED rosaVars /\ P!PoolRemoved /\ Awaits

NodesJoin == UNCHANGED rosaVars /\ P!NodesJoin /\ Awaits

NodesLeave == UNCHANGED rosaVars /\ P!NodesLeave /\ Awaits

\* Mutant: the queue of the pools is not filled again.
ManagerRestartsOne ==
    /\ "crash" \in Environment
    /\ UNCHANGED <<cluster, used, pool, nodes, poolObj>>
    /\ poolPc' = "Idle" /\ poolQueued' = FALSE /\ poolTimer' = FALSE /\ poolCache' = poolObj
    /\ poolOriginal' = None /\ poolDesired' = None /\ poolFound' = None /\ poolCurrent' = None
    /\ R!Crash
    /\ Awaits

\* The workers are goroutines of one process, so both reconciles end at once.
ManagerRestarts == UNCHANGED <<cluster, used, pool, nodes>> /\ P!Crash /\ R!Crash /\ Awaits

Next ==
    \/ ClusterReconciles \/ ClusterSync \/ ClusterTimer \/ UserDeletesCluster
    \/ PoolReconciles \/ PoolSync \/ PoolTimer \/ UserDeletesPool
    \/ OCMProvisions \/ OCMUninstalls \/ PoolRemoved \/ NodesJoin \/ NodesLeave
    \/ ManagerRestarts

Spec == Init /\ [][Next]_vars

\* As in the two modules; no outage ends because an Environment of {} has none.
FairSpec ==
    /\ Spec
    /\ WF_vars(ClusterReconciles) /\ WF_vars(ClusterSync) /\ WF_vars(ClusterTimer)
    /\ WF_vars(PoolReconciles) /\ WF_vars(PoolSync) /\ WF_vars(PoolTimer)
    /\ WF_vars(OCMProvisions) /\ WF_vars(OCMUninstalls)
    /\ WF_vars(PoolRemoved) /\ WF_vars(NodesLeave)

-----------------------------------------------------------------------------
(* Properties *)

\* To the ROSACluster reconciler the manager looks like ROSACluster: what the
\* pool's reconciler does is a change of the children's list, or nothing.  What is
\* checked and proved of ROSACluster under its own environment therefore holds here.
ClusterSide == R!Spec

\* To the MachinePool reconciler the manager looks like MachinePool: a cluster
\* appears, is installed, is uninstalled and goes, in that order, and a new id is
\* never an old one.
PoolSide == P!Spec

\* FindChildObjects holds: a pool with the cluster's id that was listed when the
\* user deleted the ROSACluster has left the list before DestroyCluster deletes
\* the cluster.  Each restart and retry looks again.
ListedPoolsFirst ==
    [][cluster # None /\ cluster' # None
       /\ cluster.state # "uninstalling" /\ cluster'.state = "uninstalling"
       => cluster.id \notin awaited]_vars

\* Deleting a recorded cluster and its pool at the same time ends: the cluster
\* waits for the pool and the pool asks for the cluster, but not both at once.  It
\* is enough that the cluster's status is complete; a pool that has no cluster id
\* yet is let go when the cluster is gone.
TeardownCompletes ==
    (R!Recorded /\ obj.deleting /\ poolObj # None /\ poolObj.deleting)
        ~> (obj = None /\ poolObj = None)
=============================================================================
