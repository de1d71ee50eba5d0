----------------------------- MODULE Conditions -----------------------------
(***************************************************************************)
(* The status conditions of a custom resource and the JSON merge patch by  *)
(* which every reconciler stores its status (controllers/conditions,       *)
(* pkg/kubernetes).  A condition keeps its type, status and reason; the    *)
(* message is a function of the three, and equalCondition ignores the      *)
(* transition time and the observed generation.  status.conditions is a    *)
(* list with at most one entry per type; its order is never read, so it    *)
(* is a set of conditions here.                                            *)
(***************************************************************************)

Condition(type, status, reason) ==
    [type |-> type, status |-> status, reason |-> reason]

Reconciling(trigger) == Condition("Reconciling", TRUE, trigger)

Reconciled(trigger) == Condition("Reconciling", FALSE, trigger)

IsSet(condition, conditions) == condition \in conditions

\* Mutant: the list is replaced by the new condition.
AddConditionDropsOthers(conditions, condition) == {condition}

\* Replaces the entry of the same type, or adds one.
AddCondition(conditions, condition) ==
    {c \in conditions : c.type # condition.type} \cup {condition}

\* One field of client.MergeFrom(from): the patch holds the field only when
\* the caller changed it, and a list such as the conditions is one field.
Merged(server, from, to) == IF to # from THEN to ELSE server

\* triggers.GetTrigger for an object read from the API, which always has a
\* creation time: only Update and Delete are seen.
GetTrigger(deleting) == IF deleting THEN "Delete" ELSE "Update"
=============================================================================
