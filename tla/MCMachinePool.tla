--------------------------- MODULE MCMachinePool ---------------------------
(***************************************************************************)
(* Machine pool specs for model checking: a fixed and an autoscaled size,  *)
(* which convert differently, and one with reserved labels.                *)
(***************************************************************************)
EXTENDS MachinePool

Fixed1   == [min |-> 1, max |-> 0, reserved |-> FALSE]
Scaled   == [min |-> 1, max |-> 2, reserved |-> FALSE]
Reserved == [min |-> 1, max |-> 2, reserved |-> TRUE]

Valid == {Fixed1, Scaled}
All   == {Fixed1, Scaled, Reserved}
=============================================================================
