--------------------------- MODULE MCProvisioning ---------------------------
(***************************************************************************)
(* Two clusters in two regions.  The first names subnets and follows OCM's *)
(* default version, the second fixes a version that OCM comes to retire.   *)
(***************************************************************************)
EXTENDS Provisioning

CONSTANTS c1, c2, ingress, storage

TwoRegions   == [k \in {c1, c2} |-> IF k = c1 THEN "us-east-1" ELSE "eu-west-1"]
TwoRequests  == <<ingress, storage>>
DefaultOrFixed == [k \in {c1, c2} |-> IF k = c1 THEN NoVersion ELSE 121]
MinorUpgrade   ==
    <<[offered |-> {121}, defaults |-> {121}],
      [offered |-> {121, 131}, defaults |-> {121, 131}],
      [offered |-> {131}, defaults |-> {131}]>>
=============================================================================
