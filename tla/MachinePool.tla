---------------------------- MODULE MachinePool ----------------------------
(***************************************************************************)
(* The MachinePool reconciler: the phases of Child plus the machine pool   *)
(* in OCM (a node pool when the cluster has a hosted control plane) and    *)
(* the nodes it brings to the cluster.  A spec is [min, max, reserved];    *)
(* reserved tells that its labels contain the managed ones.                *)
(***************************************************************************)
EXTENDS Child, Replicas

CONSTANTS
    Waits,      \* the values of spec.wait the user chooses from
    Hosted,     \* the ids of clusters with a hosted control plane
    Zones       \* availability zones of every cluster

ASSUME MachinePoolAssumption ==
    /\ Waits \subseteq BOOLEAN
    /\ Hosted \subseteq ClusterIDs
    /\ Zones \in Nat \ {0}
    /\ \A spec \in Specs : spec.min \in Nat /\ spec.max \in Nat /\ spec.reserved \in BOOLEAN

VARIABLES
    pool,   \* the pool of that name in OCM, or None
    nodes   \* the nodes with the labels of the pool: "none", "unready" or "ready"

vars == <<childVars, pool, nodes>>

\* managed: the pool carries the managed labels, so it is the operator's.
Pools ==
    [cluster: ClusterIDs, managed: BOOLEAN, state: {"live", "deleting"},
     size: [min: Nat, max: Nat, replicas: Nat]]

MachinePoolDeleted == Condition("MachinePoolDeleted", TRUE, "Delete")

NewObjects ==
    {[generation |-> 1, deleting |-> FALSE, finalizer |-> FALSE, wait |-> wait, spec |-> spec,
      status |-> [clusterID |-> NoID, zones |-> 0, hosted |-> FALSE, conditions |-> {}]] :
        wait \in Waits, spec \in Specs}

Init == ChildInit(NewObjects) /\ pool = None /\ nodes = "none"

-----------------------------------------------------------------------------

\* Reserved labels are refused, on the way to a deletion as well.
NewRequest ==
    /\ Dequeue
    /\ IF cache = None THEN Reject(FALSE)
       ELSE IF cache.spec.reserved THEN Reject(TRUE)
       ELSE Accept
    /\ UNCHANGED <<pool, nodes>>

\* Mutant: the zones are appended at every lookup.
SetClusterStatusAppends(status, upstream) ==
    IF upstream = None
    THEN [status EXCEPT !.hosted = FALSE]
    ELSE [status EXCEPT !.clusterID = IF @ = NoID THEN upstream.id ELSE @,
                        !.zones = @ + Zones,
                        !.hosted = upstream.id \in Hosted]

\* Set once, except for hosted, which follows every lookup; a nil cluster reads
\* as one without a hosted control plane.
SetClusterStatus(status, upstream) ==
    IF upstream = None
    THEN [status EXCEPT !.hosted = FALSE]
    ELSE [status EXCEPT !.clusterID = IF @ = NoID THEN upstream.id ELSE @,
                        !.zones = IF @ = 0 THEN Zones ELSE @,
                        !.hosted = upstream.id \in Hosted]

SaveUpstreamCluster ==
    /\ SaveClusterStatus(SetClusterStatus(original.status, found))
    /\ UNCHANGED <<pool, nodes>>

OwnPool == pool # None /\ pool.managed

\* The client is made for machine pools or for node pools, after status.hosted,
\* and for the recorded cluster; the other kind answers 404.
Reachable ==
    /\ pool # None /\ pool.state = "live"
    /\ pool.cluster = original.status.clusterID
    /\ original.status.hosted = (pool.cluster \in Hosted)

CopyFromPool ==
    IF original.status.hosted
    THEN CopyFromNodePool(pool.size)
    ELSE CopyFromMachinePool(pool.size, Zones)

PoolBuilder ==
    IF original.status.hosted
    THEN NodePoolBuilder(desired, original.status.zones)
    ELSE MachinePoolBuilder(desired, original.status.zones)

\* Mutant: the labels are not looked at.
GetCurrentStateUnlabelled ==
    /\ pc = "GetCurrentState"
    /\ current' = IF Reachable THEN CopyFromPool ELSE None
    /\ Goto("Apply")
    /\ UNCHANGED <<kubernetes, original, desired, found, cluster, used, pool, nodes>>

\* A pool without the managed labels is an error.
GetCurrentState ==
    /\ pc = "GetCurrentState"
    /\ IF Reachable /\ ~pool.managed
       THEN Return(TRUE)
       ELSE /\ current' = IF Reachable THEN CopyFromPool ELSE None
            /\ Goto("Apply")
            /\ UNCHANGED <<original, desired, found>>
    /\ UNCHANGED <<kubernetes, cluster, used, pool, nodes>>

\* Mutant: only the minimum is compared.
InDesiredStateMinimum == current # None /\ current.min = desired.min

InDesiredState == current # None /\ current = [min |-> desired.min, max |-> desired.max]

\* Mutant: the pool is created in whatever cluster has the name now.
CreateByName ==
    /\ pc = "Apply" /\ current = None
    /\ IF cluster # None /\ cluster.state = "ready" /\ pool = None
       THEN /\ pool' = [cluster |-> cluster.id, managed |-> TRUE, state |-> "live",
                        size |-> PoolBuilder]
            /\ Goto("WaitUntilReady")
            /\ UNCHANGED request
       ELSE Return(TRUE) /\ UNCHANGED pool
    /\ UNCHANGED <<kubernetes, cluster, used, nodes>>

\* Refused when the cluster is not there or not ready, and while a pool of that
\* name exists; one that is being deleted makes Apply retry without an error.
Create ==
    /\ pc = "Apply" /\ current = None
    /\ IF /\ cluster # None /\ cluster.state = "ready"
          /\ cluster.id = original.status.clusterID
          /\ original.status.hosted = (cluster.id \in Hosted)
          /\ pool = None
       THEN /\ pool' = [cluster |-> cluster.id, managed |-> TRUE, state |-> "live",
                        size |-> PoolBuilder]
            /\ Goto("WaitUntilReady")
            /\ UNCHANGED request
       ELSE Return(TRUE) /\ UNCHANGED pool
    /\ UNCHANGED <<kubernetes, cluster, used, nodes>>

Update ==
    /\ pc = "Apply" /\ current # None /\ ~InDesiredState
    /\ IF Reachable
       THEN /\ pool' = [pool EXCEPT !.size = PoolBuilder]
            /\ Goto("WaitUntilReady")
            /\ UNCHANGED request
       ELSE Return(TRUE) /\ UNCHANGED pool
    /\ UNCHANGED <<kubernetes, cluster, used, nodes>>

AlreadyApplied ==
    /\ pc = "Apply" /\ InDesiredState
    /\ Goto("WaitUntilReady")
    /\ UNCHANGED <<kubernetes, request, cluster, used, pool, nodes>>

Apply == Create \/ Update \/ AlreadyApplied

\* NodesAreReady wants a node, and none whose condition Ready is False.
WaitUntilReady ==
    /\ pc = "WaitUntilReady"
    /\ IF original.wait /\ nodes # "ready"
       THEN Return(TRUE)
       ELSE Goto("Complete") /\ UNCHANGED request
    /\ UNCHANGED <<kubernetes, cluster, used, pool, nodes>>

-----------------------------------------------------------------------------

\* First half of Destroy: the condition and ClusterExists, by name.
Destroy ==
    /\ pc = "Destroy"
    /\ Goto(IF IsSet(MachinePoolDeleted, original.status.conditions) \/ cluster = None
            THEN "WaitUntilMissing" ELSE "DeletePool")
    /\ UNCHANGED <<kubernetes, request, cluster, used, pool, nodes>>

\* Second half: the delete, for which 404 is a success.  The labels are not
\* looked at.
DeletePool ==
    /\ pc = "DeletePool"
    /\ pool' = IF Reachable THEN [pool EXCEPT !.state = "deleting"] ELSE pool
    /\ Goto("NotifyDeleted")
    /\ UNCHANGED <<kubernetes, request, cluster, used, nodes>>

\* A request without a cluster id may be refused or answer 404.
DeletePoolRefused ==
    /\ pc = "DeletePool" /\ original.status.clusterID = NoID
    /\ Return(TRUE)
    /\ UNCHANGED <<kubernetes, cluster, used, pool, nodes>>

NotifyDeleted ==
    /\ pc = "NotifyDeleted"
    /\ UpdateCondition(MachinePoolDeleted, "WaitUntilMissing")
    /\ UNCHANGED <<cache, cluster, used, pool, nodes>>

\* Mutant: nodes that are left are not waited for a second time.
WaitUntilMissingOnce ==
    /\ pc = "WaitUntilMissing"
    /\ IF original.wait /\ nodes # "none"
       THEN Return(FALSE)
       ELSE Goto("RemoveFinalizer") /\ UNCHANGED request
    /\ UNCHANGED <<kubernetes, cluster, used, pool, nodes>>

\* Mutant: nodes that are not ready count as missing.
WaitUntilMissingUnready ==
    /\ pc = "WaitUntilMissing"
    /\ IF original.wait /\ nodes = "ready"
       THEN Return(TRUE)
       ELSE Goto("RemoveFinalizer") /\ UNCHANGED request
    /\ UNCHANGED <<kubernetes, cluster, used, pool, nodes>>

WaitUntilMissing ==
    /\ pc = "WaitUntilMissing"
    /\ IF original.wait /\ nodes # "none"
       THEN Return(TRUE)
       ELSE Goto("RemoveFinalizer") /\ UNCHANGED request
    /\ UNCHANGED <<kubernetes, cluster, used, pool, nodes>>

-----------------------------------------------------------------------------
(* The rest of the world *)

PoolRemoved ==
    /\ pool # None /\ pool.state = "deleting"
    /\ pool' = None
    /\ UNCHANGED <<childVars, nodes>>

\* Another tool creates a pool of that name.
OthersCreatePool ==
    /\ "others" \in Environment
    /\ pool = None /\ cluster # None /\ cluster.state = "ready"
    /\ pool' = [cluster |-> cluster.id, managed |-> FALSE, state |-> "live", size |-> Fixed(1)]
    /\ UNCHANGED <<childVars, nodes>>

NodesJoin ==
    /\ OwnPool /\ pool.state = "live"
    /\ nodes' = CASE nodes = "none" -> "unready" [] OTHER -> "ready"
    /\ UNCHANGED <<childVars, pool>>

NodesLeave ==
    /\ OwnPool => pool.state = "deleting"
    /\ nodes' = "none"
    /\ UNCHANGED <<childVars, pool>>

ParentGone == ClusterGone /\ pool' = None /\ nodes' = "none"

-----------------------------------------------------------------------------

ReconcileStep ==
    \/ ChildStep /\ UNCHANGED <<pool, nodes>>
    \/ NewRequest \/ SaveUpstreamCluster \/ GetCurrentState \/ Apply \/ WaitUntilReady
    \/ Destroy \/ DeletePool \/ DeletePoolRefused \/ NotifyDeleted \/ WaitUntilMissing

Outage == ChildOutage /\ UNCHANGED <<pool, nodes>>

World ==
    \/ ChildWorld /\ UNCHANGED <<pool, nodes>>
    \/ UserRecreates(NewObjects) /\ UNCHANGED <<pool, nodes>>
    \/ PoolRemoved \/ OthersCreatePool \/ NodesJoin \/ NodesLeave \/ ParentGone

Next == ReconcileStep \/ Outage \/ World

Spec == Init /\ [][Next]_vars

\* As in ROSACluster; OCM finishes installations and deletions, and nodes of a
\* deleted pool leave.
FairSpec ==
    /\ Spec
    /\ WF_vars(ReconcileStep)
    /\ WF_vars(SyncCache /\ UNCHANGED <<pool, nodes>>)
    /\ WF_vars(TimerFires /\ UNCHANGED <<pool, nodes>>)
    /\ WF_vars(ClusterInstalled /\ UNCHANGED <<pool, nodes>>)
    /\ WF_vars(PoolRemoved) /\ WF_vars(NodesLeave) /\ WF_vars(ParentGone)
    /\ <>[][ReconcileStep \/ World]_vars

-----------------------------------------------------------------------------
(* Properties *)

Status ==
    [clusterID: ClusterIDs \cup {NoID}, zones: {0, Zones}, hosted: BOOLEAN,
     conditions: SUBSET (CommonConditions \cup {MachinePoolDeleted})]

Objects ==
    [generation: 1..MaxGeneration, deleting: BOOLEAN, finalizer: BOOLEAN, wait: BOOLEAN,
     spec: Specs, status: Status]

ASSUME NoneAssumption ==
    None \notin Objects /\ None \notin Clusters /\ None \notin Pools

\* Every variable holds a value the code can give it: the status has at most the
\* conditions of a machine pool, and a pool exists only in a cluster.
TypeOK ==
    /\ {obj, cache, original} \subseteq Objects \cup {None}
    /\ {queued, timer} \subseteq BOOLEAN
    /\ desired \in Specs \cup {None} /\ current \in [min: Nat, max: Nat] \cup {None}
    /\ {found, cluster} \subseteq Clusters \cup {None}
    /\ pool \in Pools \cup {None} /\ used \subseteq ClusterIDs
    /\ nodes \in {"none", "unready", "ready"}
    /\ pool # None => cluster # None /\ cluster.id = pool.cluster

\* Whatever the reconciler needs to delete its pool is in the status for as long
\* as the pool is live: the id of the cluster that holds it and the kind of
\* pool.  GetUpstreamCluster stores both before Apply creates anything, and
\* looks the cluster up by the recorded id from then on.
PoolRecorded ==
    OwnPool /\ pool.state = "live" =>
        /\ FinalizerHeld
        /\ obj.status.clusterID = pool.cluster
        /\ obj.status.hosted = (pool.cluster \in Hosted)

\* A pool of another tool is never updated: GetCurrentState stops at a pool
\* without the managed labels.
OthersPoolNotUpdated ==
    [][pool # None /\ ~pool.managed /\ pool' # None => pool'.size = pool.size]_vars

\* With wait set, the resource outlives the nodes of its pool: WaitUntilMissing
\* holds back the finalizer.
NodesOutlived ==
    [][obj # None /\ obj.wait /\ FinalizerHeld /\ ~FinalizerHeld' => nodes = "none"]_vars

ExternalState ==
    IF ~OwnPool THEN "absent"
    ELSE IF pool.state = "deleting" \/ cluster.state = "uninstalling" THEN "going" ELSE "live"

C == INSTANCE Custody WITH
         held <- FinalizerHeld, external <- ExternalState, Releasable <- {"absent", "going"}

\* The reconciler implements Custody: it creates the pool under the finalizer
\* and gives the finalizer up only when OCM is deleting the pool, or the
\* cluster that holds it.
ImplementsCustody == C!Spec

\* The delete of a resource that knows its cluster runs to its end, through
\* outages and whatever happens to the cluster, unless its spec is edited to
\* one that NewRequest refuses.
DeletionCompletes ==
    (obj # None /\ obj.deleting /\ obj.status.clusterID # NoID)
        ~> (obj = None \/ obj.spec.reserved)

\* A spec reaches OCM: while the resource is not deleted or edited, its cluster
\* stays and no other tool's pool is in the way, the pool gets the size the
\* builder makes of the spec, through outages and a pool of the same name that
\* is still being deleted.
Wanted(spec) ==
    /\ obj # None /\ ~obj.deleting /\ obj.spec = spec /\ ~spec.reserved
    /\ cluster # None /\ cluster.state = "ready" /\ obj.status.clusterID \in {NoID, cluster.id}
    /\ pool # None => pool.managed

SizeOf(spec, id) ==
    IF id \in Hosted THEN NodePoolBuilder(spec, Zones) ELSE MachinePoolBuilder(spec, Zones)

\* (as stated above Wanted)
SpecReachesOCM ==
    \A spec \in Specs :
        Wanted(spec) ~> \/ ~Wanted(spec)
                        \/ pool # None /\ pool.size = SizeOf(spec, pool.cluster)

-----------------------------------------------------------------------------
(* What comments in the source say and the code does not keep *)

\* The labels are checked "to ensure we are not managing something that may have
\* been created by another process" (machinepool/phases.go): such a pool is
\* not deleted.
OthersPoolNotDeleted ==
    [][DeletePool => pool = None \/ pool.managed \/ pool' = pool]_vars

\* The condition MachinePoolDeleted says "machine pool has been deleted from
\* openshift cluster manager" (machinepool/conditions.go).
DeletedMeansDeleted ==
    obj # None /\ MachinePoolDeleted \in obj.status.conditions
        => ~(OwnPool /\ pool.state = "live")

\* The condition UpstreamClusterExists = False says "upstream cluster is missing"
\* (conditions.go).
MissingMeansMissing ==
    obj # None /\ cluster # None /\ obj.status.clusterID = cluster.id
        => UpstreamCluster("Create", FALSE) \notin obj.status.conditions
=============================================================================
