------------------------------ MODULE Scaling ------------------------------
(***************************************************************************)
(* The update loop seen from the number of nodes alone: a reconciler       *)
(* compares what CopyFrom makes of the resource in OCM with the spec and   *)
(* sends what the builder makes of the spec when they differ.  The user    *)
(* edits the spec and other tools scale the pool in between.               *)
(***************************************************************************)
EXTENDS Replicas

CONSTANTS
    Kinds,      \* a subset of {"MachinePool", "NodePool", "ROSACluster"}
    MaxNodes    \* bound on the nodes per zone

ASSUME ScalingAssumption ==
    /\ Kinds \subseteq {"MachinePool", "NodePool", "ROSACluster"}
    /\ MaxNodes \in Nat

VARIABLES
    kind,   \* which pair of conversions is used
    zones,  \* the availability zones of the cluster
    spec,   \* minimumNodesPerZone and maximumNodesPerZone; 0 when left out
    pool    \* the replicas in OCM

vars == <<kind, zones, spec, pool>>

\* The validation rule of the custom resource.
Specs == {s \in [min: 0..MaxNodes, max: 0..MaxNodes] : s.max = 0 \/ s.min <= s.max}

Build(s) ==
    CASE kind = "MachinePool" -> MachinePoolBuilder(s, zones)
      [] kind = "NodePool"    -> NodePoolBuilder(s, zones)
      [] kind = "ROSACluster" -> BuildClusterNodes(s, zones)

Copy(p) ==
    CASE kind = "MachinePool" -> CopyFromMachinePool(p, zones)
      [] kind = "NodePool"    -> CopyFromNodePool(p)
      [] kind = "ROSACluster" -> CopyFromCluster(p, zones)

InDesiredState == Copy(pool) = spec

Init ==
    /\ kind \in Kinds
    /\ \E hosted, multiAZ \in BOOLEAN : zones = GetAvailabilityZoneCount(hosted, multiAZ)
    /\ spec \in Specs
    /\ pool = Build(spec)

Apply ==
    /\ ~InDesiredState
    /\ pool' = Build(spec)
    /\ UNCHANGED <<kind, zones, spec>>

UserEdits ==
    /\ spec' \in Specs
    /\ UNCHANGED <<kind, zones, pool>>

\* OCM keeps the replicas a multiple of the zones.
OthersScale ==
    /\ \E s \in Specs :
        pool' = IF s.max > 0 THEN Autoscaling(s.min * zones, s.max * zones)
                ELSE Fixed(s.min * zones)
    /\ UNCHANGED <<kind, zones, spec>>

Next == Apply \/ UserEdits \/ OthersScale

Spec == Init /\ [][Next]_vars

-----------------------------------------------------------------------------

\* The conversions match: one zone, or autoscaling of anything but a node pool.
Exact == zones = 1 \/ (spec.max > 0 /\ kind # "NodePool")

\* Where the conversions match, one update is enough: the next reconcile finds
\* the resource in its desired state and leaves OCM alone.
Settles == [][Apply /\ Exact => InDesiredState']_vars

\* Where the conversions match, a reconciler that sees no difference is right:
\* OCM has what the builder makes of the spec, whoever scaled the pool.
NoFalseCalm == InDesiredState /\ Exact => pool = Build(spec)

-----------------------------------------------------------------------------
(* What comments in the source say and the code does not keep *)

\* minimumNodesPerZone is the "minimum amount of nodes allowed per availability
\* zone" (machinepool_types.go): an update that turns autoscaling off leaves
\* that many nodes in each zone.
MinimumPerZone == [][Apply /\ spec.max = 0 => pool'.replicas = spec.min * zones]_vars

\* ApplyCluster will "return if it is already in its desired state" (phases.go):
\* an update always brings the cluster there.
UpdateReachesDesiredState == [][Apply => InDesiredState']_vars
=============================================================================
