------------------------------ MODULE Replicas ------------------------------
(***************************************************************************)
(* Nodes per zone and replicas.  The spec of a MachinePool, and of the     *)
(* default machine pool of a ROSACluster, counts nodes per availability    *)
(* zone; OCM counts replicas in all zones.  The builders convert one way   *)
(* and the CopyFrom methods the other, and a reconciler updates OCM        *)
(* whenever the copy differs from the spec.                                *)
(***************************************************************************)
EXTENDS Naturals

\* A field left unset in OCM reads as 0.
Autoscaling(min, max) == [min |-> min, max |-> max, replicas |-> 0]

Fixed(replicas) == [min |-> 0, max |-> 0, replicas |-> replicas]

\* Mutant: autoscaling is not multiplied by the number of zones.
MachinePoolBuilderPerZone(spec, zones) ==
    IF spec.max > 0 THEN Autoscaling(spec.min, spec.max) ELSE Fixed(spec.min)

MachinePoolBuilder(spec, zones) ==
    IF spec.max > 0
    THEN Autoscaling(spec.min * zones, spec.max * zones)
    ELSE Fixed(spec.min)

CopyFromMachinePool(pool, zones) ==
    IF pool.max > 0
    THEN [min |-> pool.min \div zones, max |-> pool.max \div zones]
    ELSE [min |-> pool.replicas \div zones, max |-> 0]

NodePoolBuilder(spec, zones) ==
    IF spec.max > 0
    THEN Autoscaling(spec.min * zones, spec.max * zones)
    ELSE Fixed(spec.min)

\* The number of zones is left out.
CopyFromNodePool(pool) ==
    IF pool.max > 0
    THEN [min |-> pool.min, max |-> pool.max]
    ELSE [min |-> pool.replicas, max |-> 0]

GetAvailabilityZoneCount(hosted, multiAZ) == IF multiAZ /\ ~hosted THEN 3 ELSE 1

BuildClusterNodes(spec, zones) ==
    IF spec.max > 0
    THEN Autoscaling(spec.min * zones, spec.max * zones)
    ELSE Fixed(spec.min * zones)

\* Autoscaling is divided by the number of zones, the fixed count is not.
CopyFromCluster(nodes, zones) ==
    IF nodes.max > 0
    THEN [min |-> nodes.min \div zones, max |-> nodes.max \div zones]
    ELSE [min |-> nodes.replicas, max |-> 0]
=============================================================================
