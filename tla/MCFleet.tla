------------------------------ MODULE MCFleet ------------------------------
(***************************************************************************)
(* One pool that autoscales; nobody edits it.                              *)
(***************************************************************************)
EXTENDS Fleet

Autoscaled == {[min |-> 1, max |-> 2, reserved |-> FALSE]}
=============================================================================
