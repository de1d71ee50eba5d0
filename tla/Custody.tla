------------------------------ MODULE Custody ------------------------------
(***************************************************************************)
(* What every reconciler of this operator promises about one external      *)
(* resource and the finalizer of the custom resource that stands for it:   *)
(* the external resource is created only under the finalizer, and the      *)
(* finalizer is given up only when the external resource is gone, or is    *)
(* going for the reconcilers that do not wait.  ROSACluster, MachinePool   *)
(* and IdentityProvider are compared with this module.                     *)
(***************************************************************************)
EXTENDS TLAPS

CONSTANT Releasable     \* states of the external resource in which Release is allowed

VARIABLES
    held,       \* the custom resource exists and carries the finalizer
    external    \* "absent", "live", or "going" while it is being deleted

Init == held = FALSE /\ external = "absent"

Hold == ~held /\ held' = TRUE /\ UNCHANGED external

Create == held /\ external = "absent" /\ external' = "live" /\ UNCHANGED held

\* By the operator or by someone else, at once or in the background.
Destroy == external = "live" /\ external' \in {"going", "absent"} /\ UNCHANGED held

Vanish == external = "going" /\ external' = "absent" /\ UNCHANGED held

Release == held /\ external \in Releasable /\ held' = FALSE /\ UNCHANGED external

Next == Hold \/ Create \/ Destroy \/ Vanish \/ Release

Spec == Init /\ [][Next]_<<held, external>>

-----------------------------------------------------------------------------

\* An external resource the operator created and has yet to delete is never
\* without the finalizer that makes the operator delete it.
Custodial == external \notin Releasable => held

\* The five steps are enough: whoever implements them, with or without a wait
\* for the external resource to go, keeps Custodial.
THEOREM CustodyKept ==
    ASSUME Releasable \in {{"absent"}, {"absent", "going"}}
    PROVE  Spec => []Custodial
  <1>1. Init => Custodial
    BY DEF Init, Custodial
  <1>2. Custodial /\ [Next]_<<held, external>> => Custodial'
    BY DEF Custodial, Next, Hold, Create, Destroy, Vanish, Release
  <1> QED
    BY <1>1, <1>2, PTL DEF Spec
=============================================================================
