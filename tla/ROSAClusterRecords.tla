------------------------- MODULE ROSAClusterRecords ------------------------
(***************************************************************************)
(* What the status of a ROSACluster records and what is in OCM and AWS:    *)
(* proofs that the milestones of a status stay, that a release leaves      *)
(* nothing recorded behind, that operator roles are accounted for and that *)
(* a cluster keeps the identity it was built with.  Each invariant is      *)
(* shown for the effects that ROSAClusterProofs reduces the steps to.      *)
(***************************************************************************)
EXTENDS ROSAClusterProofs

-----------------------------------------------------------------------------
(* Deletion: what is marked, and what is gone once it is marked *)

\* ReconcileDelete from FindChildObjects on.
DeletePath ==
  Cleanup \cup {"FindChildObjects", "DestroyCluster", "NotifyUninstalling", "WaitUntilMissing"}

\* A reconcile on its way to ReconcileCreate, or to ReconcileDelete.
Updating == pc \in Owning \cup {"AddFinalizer"} \/ (pc \in Prelude /\ ~original.deleting)

Deleting == pc \in DeletePath \/ (pc \in Prelude /\ original.deleting)

\* The conditions only a deletion sets.
Marks ==
  {Reconciling("Delete"), ClusterUninstalling, OperatorRolesDeleted, OIDCProviderDeleted,
   OIDCConfigDeleted}

Marked(o) == o # None /\ o.status.conditions \cap Marks # {}

InStep == SameIDs(original, obj) /\ SameConditions(original, obj)

\* Only a resource that is being deleted is marked, and only a reconcile that
\* works on its deletion has a copy that is.  That reconcile has the status of
\* the object: an object with a finalizer cannot be replaced under its feet.
LifeInv ==
  /\ obj # None /\ obj.deleting => obj.finalizer
  /\ Marked(obj) => obj.deleting /\ obj.status.prefix # NoID
  /\ Updating => ~Marked(obj) /\ ~Marked(original)
  /\ Deleting => obj # None /\ obj.deleting /\ InStep
  /\ pc \in DeletePath => Marked(obj) /\ original.deleting
  /\ pc \in Prelude /\ obj # None /\ obj.finalizer => InStep
  /\ pc \in DeletePath \/ (pc \in Prelude \ {"SavePrefix"} /\ obj # None /\ obj.finalizer)
       => desired.prefix = original.status.prefix
  /\ pc = "SavePrefix" => original.status.prefix = NoID
  /\ pc # "Idle" /\ obj # None
       => obj.status.conditions \cap Milestones \subseteq original.status.conditions

Has(c) == obj # None /\ c \in obj.status.conditions

RolesGone == obj.status.prefix \in Prefixes => roles[obj.status.prefix] = "none"

\* What DestroyOperatorRoles and the two halves of DestroyOIDC have deleted
\* stays deleted: for the rest of the reconcile, and for the reconciles that
\* skip the step on the strength of its condition.
CleanInv ==
  /\ Has(OperatorRolesDeleted) \/ pc \in Cleanup \ {"DestroyOperatorRoles"} => RolesGone
  /\ \/ Has(OIDCProviderDeleted)
     \/ pc \in {"NotifyProviderDeleted", "DestroyOIDCProvider", "NotifyConfigDeleted",
                "RemoveFinalizer"}
     => obj.status.config \notin configs
  /\ Has(OIDCConfigDeleted) \/ pc \in {"NotifyConfigDeleted", "RemoveFinalizer"}
     => obj.status.provider \notin providers

LEMMA MarkFacts ==
  /\ {Reconciling("Delete"), ClusterUninstalling, OperatorRolesDeleted, OIDCProviderDeleted,
      OIDCConfigDeleted} \subseteq Marks
  /\ {Reconciling("Update"), Reconciled("Create"), ClusterCreated, ClusterUpdated}
       \cap Marks = {}
  BY DEF Marks, Condition, ClusterCreated, ClusterUpdated, ClusterUninstalling,
         OperatorRolesDeleted, OIDCProviderDeleted, OIDCConfigDeleted, Reconciling, Reconciled

\* Marks are conditions: equal lists have the same ones.
LEMMA SameMarks ==
  /\ ~Marked(None)
  /\ \A a, b : a # None /\ b # None /\ a.status.conditions = b.status.conditions
       => (Marked(a) <=> Marked(b))
  BY DEF Marked

\* A request in progress has an object, and a prefix once NewRequest stored it.
LEMMA RequestFacts ==
  ASSUME Typed
  PROVE  /\ pc # "Idle" => original # None
         /\ pc \notin {"Idle", "SavePrefix"} => desired.prefix \in Prefixes
         /\ NoID \notin Prefixes
  BY ObjectNotNone, IDsAssumption DEF Typed, InProgress

LEMMA InitLife == Init => LifeInv /\ CleanInv
  BY DEF Init, NewObject, NewStatus, LifeInv, CleanInv, Marked, Has, Updating, Deleting,
         DeletePath, Prelude, Owning, CreateSteps, Cleanup

\* The steps that leave the object and the request alone, and stay on the path
\* the reconcile is on.
Stays ==
  /\ UNCHANGED <<obj, original, desired>>
  /\ UNCHANGED pc \/ (pc \in Owning /\ pc' \in Owning) \/ (pc \in DeletePath /\ pc' \in DeletePath)

LEMMA LifeKept ==
  ASSUME "lag" \notin Environment, Typed, LifeInv, Effect
  PROVE  LifeInv'
  <1> USE DEF LifeInv, Updating, Deleting, DeletePath, Prelude, Owning, CreateSteps, Cleanup,
              InStep, SameIDs, SameConditions, Alike
  <1>1. /\ pc # "Idle" => original # None
        /\ pc \notin {"Idle", "SavePrefix"} => desired.prefix \in Prefixes
        /\ NoID \notin Prefixes
    BY RequestFacts
  <1>2. /\ {Reconciling("Delete"), ClusterUninstalling, OperatorRolesDeleted,
            OIDCProviderDeleted, OIDCConfigDeleted} \subseteq Marks
        /\ {Reconciling("Update"), Reconciled("Create"), ClusterCreated, ClusterUpdated}
             \cap Marks = {}
    BY MarkFacts
  <1>3. Stays \/ Ends \/ Starts \/ SavesPrefix \/ SetsVersion \/ Notes \/ Finalizes
         \/ MakesConfig \/ Saves \/ MakesProvider \/ SavesRoles \/ Creates \/ Completes
         \/ Releases \/ Recreates \/ Edits \/ Removes
    BY Zenon DEF Effect, Nothing, Passes, BeginsCreate, FindsConfig, FindsProvider,
           MakesRoles, FindsRoles, FindsNoCluster, DestroysRoles, DestroysConfig,
           DestroysProvider, AltersCluster, LosesCluster, MeetsCluster, Syncs, Stops,
           MakesSomeRoles, DestroysSomeRoles, Request, Apart, Stays, Ends
  <1>4. CASE Stays
    BY <1>1, <1>4 DEF Stays
  <1>5. CASE Ends
    BY <1>5 DEF Ends
  <1>6. CASE Starts
    BY <1>1, <1>6 DEF Starts, Apart
  <1>7. CASE SavesPrefix
    BY <1>1, SameMarks, <1>7 DEF SavesPrefix, Stored, Merged
  <1>8. CASE SetsVersion
    BY <1>1, SameMarks, <1>8 DEF SetsVersion, Stored, Apart
  <1>9. CASE Notes
    <2>1. /\ UNCHANGED <<obj, original>> \/ (Stored /\ SameIDs(obj, obj'))
          /\ UNCHANGED desired /\ pc \notin {"Idle", "SavePrefix"}
      BY <1>9 DEF Notes, Noted
    <2>2. pc' # "Idle" /\ obj' # None
            => obj'.status.conditions \cap Milestones \subseteq original'.status.conditions
      BY <2>1 DEF Stored
    <2>3. CASE Updating
      <3>1. /\ \E c \in {Reconciling("Update"), ClusterCreated, ClusterUpdated} : Noted(c)
            /\ pc' \in {"AddFinalizer", "WaitUntilReady"}
        BY <1>9, <2>3 DEF Notes
      <3>2. ~Marked(obj)' /\ ~Marked(original)'
        BY <1>1, <1>2, <2>3, <3>1 DEF Noted, Stored, WithCondition, Marked
      <3> QED
        BY <1>1, <2>1, <2>2, <2>3, <3>1, <3>2 DEF Stored
    <2>4. CASE Deleting
      <3>1. \E c \in Marks : Noted(c)
        BY <1>2, <1>9, <2>4 DEF Notes
      <3>2. pc' \in DeletePath
        BY <1>9, <2>4 DEF Notes
      <3>3. Marked(obj)'
        BY <1>1, <2>4, <3>1 DEF Noted, Stored, WithCondition, Marked
      <3>4. original.deleting
        BY <1>9, <2>4 DEF Notes
      <3> QED
        BY <1>1, <2>1, <2>2, <2>4, <3>2, <3>3, <3>4 DEF Stored
    <2> QED
      BY <1>9, <2>3, <2>4 DEF Notes
  <1>10. CASE Finalizes
    BY <1>1, SameMarks, <1>10 DEF Finalizes, Apart
  <1>11. CASE MakesConfig
    BY <1>1, SameMarks, <1>11 DEF MakesConfig
  <1>12. CASE Saves
    <2>1. Updating /\ original # None /\ obj # None
      BY <1>1, <1>12 DEF Saves, Stored, Dropped
    <2>2. obj'.status.conditions \in {obj.status.conditions, original.status.conditions}
      BY <1>12 DEF Saves, Dropped
    <2>3. ~Marked(obj)' /\ ~Marked(original)'
      BY <1>12, <2>1, <2>2 DEF Saves, Stored, Dropped, Marked
    <2> QED
      BY <1>1, <1>12, <2>1, <2>3 DEF Saves, Stored, Dropped
  <1>13. CASE MakesProvider
    BY <1>1, SameMarks, <1>13 DEF MakesProvider
  <1>14. CASE SavesRoles
    BY <1>1, SameMarks, <1>14 DEF SavesRoles, Stored, Apart
  <1>15. CASE Creates
    BY <1>1, SameMarks, <1>15 DEF Creates
  <1>16. CASE Completes
    <2>1. Updating /\ original # None /\ ~Marked(original)
      BY <1>1, <1>16 DEF Completes
    <2>2. ~Marked(obj)'
      BY <1>2, <1>16, <2>1 DEF Completes, WithCondition, Marked
    <2> QED
      BY <1>16, <2>1, <2>2 DEF Completes
  <1>17. CASE Releases
    BY SameMarks, <1>17 DEF Releases, Apart
  <1>18. CASE Recreates
    <2>1. obj'.status.conditions = {}
      BY <1>18 DEF Recreates, NewStatus
    <2>2. ~Marked(obj)' /\ ~Deleting
      BY <1>18, <2>1 DEF Recreates, Marked
    <2> QED
      BY <1>1, <1>18, <2>1, <2>2 DEF Recreates, Request
  <1>19. CASE Edits
    BY <1>1, SameMarks, <1>19 DEF Edits, Request, Apart
  <1>20. CASE Removes
    BY <1>1, SameMarks, <1>20 DEF Removes, Request, Apart
  <1> QED
    BY <1>3, <1>4, <1>5, <1>6, <1>7, <1>8, <1>9, <1>10, <1>11, <1>12, <1>13, <1>14, <1>15,
       <1>16, <1>17, <1>18, <1>19, <1>20, Zenon

LEMMA DistinctMarks ==
  /\ {OperatorRolesDeleted, OIDCProviderDeleted, OIDCConfigDeleted}
       \cap {Reconciling("Delete"), ClusterUninstalling} = {}
  /\ OperatorRolesDeleted \notin {OIDCProviderDeleted, OIDCConfigDeleted}
  /\ OIDCProviderDeleted # OIDCConfigDeleted
  BY DEF Condition, ClusterUninstalling, OperatorRolesDeleted, OIDCProviderDeleted,
         OIDCConfigDeleted, Reconciling

\* The steps that delete nothing, make nothing and note nothing, and do not move
\* past DestroyOperatorRoles.
Rests ==
  /\ UNCHANGED <<obj, configs, providers, roles>>
  /\ UNCHANGED pc \/ pc' \notin Cleanup \/ pc' = "DestroyOperatorRoles"

LEMMA CleanKept ==
  ASSUME "lag" \notin Environment, Typed, LifeInv, CleanInv, Effect
  PROVE  CleanInv'
  <1> USE DEF CleanInv, Has, RolesGone, Cleanup
  <1>1. /\ {Reconciling("Delete"), ClusterUninstalling, OperatorRolesDeleted,
            OIDCProviderDeleted, OIDCConfigDeleted} \subseteq Marks
        /\ {Reconciling("Update"), Reconciled("Create"), ClusterCreated, ClusterUpdated}
             \cap Marks = {}
    BY MarkFacts
  <1>2. /\ pc # "Idle" => original # None
        /\ pc \notin {"Idle", "SavePrefix"} => desired.prefix \in Prefixes
        /\ NoID \notin Prefixes
        /\ roles \in [Prefixes -> {"none", "some", "all"}]
    BY RequestFacts DEF Typed, TypeOK, CloudOK
  <1>3. pc \in Owning \cup {"AddFinalizer"} \/ (pc \in Prelude /\ ~original.deleting)
          => /\ obj # None => obj.status.conditions \cap Marks = {}
             /\ original # None => original.status.conditions \cap Marks = {}
    BY DEF LifeInv, Updating, Marked
  <1>4. pc \in DeletePath \/ (pc \in Prelude /\ original.deleting)
          => obj # None /\ obj.deleting /\ SameIDs(original, obj) /\ SameConditions(original, obj)
    BY DEF LifeInv, Deleting, InStep
  <1> USE DEF Owning, CreateSteps, Prelude, DeletePath, SameIDs, SameConditions, Alike
  <1> DEFINE Moved(c) ==
           \/ /\ c \in {Reconciling("Delete"), ClusterUninstalling}
              /\ pc' \in {"FindChildObjects", "WaitUntilMissing"}
           \/ /\ c = OperatorRolesDeleted
              /\ pc = "NotifyRolesDeleted" /\ pc' = "DestroyOIDCConfig"
           \/ /\ c = OIDCProviderDeleted
              /\ pc = "NotifyProviderDeleted" /\ pc' = "DestroyOIDCProvider"
           \/ /\ c = OIDCConfigDeleted
              /\ pc = "NotifyConfigDeleted" /\ pc' = "RemoveFinalizer"
  <1>5. pc \in DeletePath => desired.prefix = original.status.prefix
    BY DEF LifeInv
  <1>6. Rests \/ SavesPrefix \/ SetsVersion \/ Notes \/ Finalizes \/ MakesConfig \/ Saves
         \/ MakesProvider \/ MakesRoles \/ MakesSomeRoles \/ SavesRoles \/ Creates
         \/ Completes \/ DestroysRoles \/ DestroysSomeRoles \/ DestroysConfig
         \/ DestroysProvider \/ Releases \/ Recreates \/ Edits \/ Removes
    BY Zenon DEF Effect, Nothing, Starts, Passes, BeginsCreate, FindsConfig, FindsProvider,
           FindsRoles, Stops, AltersCluster, LosesCluster, MeetsCluster, FindsNoCluster,
           Syncs, Request, Apart, Rests
  <1>7. CASE Rests
    BY <1>7 DEF Rests
  <1>8. CASE SavesPrefix
    <2>1. obj # None /\ original.status.prefix = NoID
      BY <1>8 DEF LifeInv, SavesPrefix, Stored
    <2>2. obj.status.conditions \cap Marks # {}
            => obj.status.prefix = NoID /\ obj.status.prefix # NoID
      BY <1>8, <2>1 DEF SavesPrefix, LifeInv, Marked, InStep
    <2> QED
      BY <1>1, <1>8, <2>1, <2>2 DEF SavesPrefix, Stored
  <1>9. CASE SetsVersion
    BY <1>9 DEF SetsVersion, Stored, Apart
  <1>10. CASE Notes
    <2>1. /\ UNCHANGED <<obj, original>> \/ (Stored /\ SameIDs(obj, obj'))
          /\ Apart
      BY <1>10 DEF Notes, Noted
    <2>2. CASE pc \in DeletePath \/ (pc \in Prelude /\ original.deleting)
      <3>1. PICK c \in Marks : Noted(c) /\ Moved(c)
        BY <1>1, <1>10, <2>2 DEF Notes
      <3>2. Has(OperatorRolesDeleted)' => Has(OperatorRolesDeleted) \/ c = OperatorRolesDeleted
        BY <1>2, <1>4, <2>2, <3>1 DEF Noted, Stored, WithCondition
      <3>3. Has(OIDCProviderDeleted)' => Has(OIDCProviderDeleted) \/ c = OIDCProviderDeleted
        BY <1>2, <1>4, <2>2, <3>1 DEF Noted, Stored, WithCondition
      <3>4. Has(OIDCConfigDeleted)' => Has(OIDCConfigDeleted) \/ c = OIDCConfigDeleted
        BY <1>2, <1>4, <2>2, <3>1 DEF Noted, Stored, WithCondition
      <3> HIDE DEF Has
      <3>5. /\ obj' # None => obj # None /\ SameIDs(obj, obj')
            /\ roles' = roles /\ configs' = configs /\ providers' = providers
        BY <2>1 DEF Stored, Apart
      <3>6. obj # None /\ obj' # None
        BY <1>4, <2>1, <2>2 DEF Stored
      <3> QED
        BY DistinctMarks, <2>2, <3>1, <3>2, <3>3, <3>4, <3>5, <3>6, Zenon
    <2>3. CASE pc \in Owning \/ (pc \in Prelude /\ ~original.deleting)
      <3>1. /\ \E c \in {Reconciling("Update"), ClusterCreated, ClusterUpdated} : Noted(c)
            /\ pc' \notin Cleanup /\ pc # "Idle"
        BY <1>10, <2>3 DEF Notes
      <3>2. obj # None /\ obj' # None => obj'.status.conditions \cap Marks = {}
        BY <1>1, <1>2, <1>3, <2>3, <3>1 DEF Noted, Stored, WithCondition
      <3> QED
        BY <1>1, <2>1, <3>1, <3>2 DEF Stored, Apart
    <2> QED
      BY <1>10, <2>2, <2>3 DEF Notes
  <1>11. CASE Finalizes
    BY <1>11 DEF Finalizes, Apart
  <1>12. CASE MakesConfig
    BY <1>1, <1>2, <1>3, <1>12 DEF MakesConfig
  <1>13. CASE Saves
    BY <1>1, <1>2, <1>3, <1>13 DEF Saves, Stored, Dropped, Apart
  <1>14. CASE MakesProvider
    BY <1>1, <1>2, <1>3, <1>14 DEF MakesProvider
  <1>15. CASE MakesRoles
    BY <1>1, <1>2, <1>3, <1>15 DEF MakesRoles
  <1>16. CASE MakesSomeRoles
    BY <1>1, <1>2, <1>3, <1>16 DEF MakesSomeRoles
  <1>17. CASE SavesRoles
    BY <1>1, <1>2, <1>3, <1>17 DEF SavesRoles, Stored, Apart
  <1>18. CASE Creates
    BY <1>1, <1>2, <1>3, <1>18 DEF Creates
  <1>19. CASE Completes
    BY <1>1, <1>2, <1>3, <1>19 DEF Completes, WithCondition, Apart
  <1>20. CASE DestroysRoles
    BY <1>2, <1>4, <1>5, <1>20 DEF DestroysRoles
  <1>21. CASE DestroysSomeRoles
    BY <1>2, <1>4, <1>5, <1>21 DEF DestroysSomeRoles
  <1>22. CASE DestroysConfig
    BY <1>4, <1>22 DEF DestroysConfig
  <1>23. CASE DestroysProvider
    BY <1>4, <1>23 DEF DestroysProvider
  <1>24. CASE Releases
    BY <1>4, <1>24 DEF Releases, Apart
  <1>25. CASE Recreates
    <2>1. obj'.status.conditions = {}
      BY <1>25 DEF Recreates, NewStatus
    <2>2. pc \notin Cleanup
      BY <1>4, <1>25 DEF Recreates
    <2> QED
      BY <1>25, <2>1, <2>2 DEF Recreates, Request
  <1>26. CASE Edits
    BY <1>26 DEF Edits, Request, Apart
  <1>27. CASE Removes
    BY <1>4, <1>27 DEF Removes, Request, Apart
  <1> QED
    BY <1>6, <1>7, <1>8, <1>9, <1>10, <1>11, <1>12, <1>13, <1>14, <1>15, <1>16, <1>17, <1>18,
       <1>19, <1>20, <1>21, <1>22, <1>23, <1>24, <1>25, <1>26, <1>27, Zenon

LEMMA SpecLife ==
  ASSUME "lag" \notin Environment
  PROVE  Spec => [](LifeInv /\ CleanInv)
  <1>1. Typed /\ LifeInv /\ CleanInv /\ [Next]_vars => (LifeInv /\ CleanInv)'
    BY StepEffect, LifeKept, CleanKept
  <1> QED
    BY <1>1, InitLife, SpecTyped, PTL DEF Spec

\* No milestone is ever taken back while the resource lives, whatever the user
\* and the other tools do and wherever a reconcile is cut off: each patch of
\* the condition list is computed from a copy that has all of them, provided
\* that reconciles start from a cache that is up to date.
THEOREM MilestonesStay ==
  ASSUME "lag" \notin Environment
  PROVE  Spec => MilestonesKept
  <1>1. ASSUME Typed, LifeInv, Effect, obj # None, obj' # None
        PROVE  obj.status.conditions \cap Milestones \subseteq obj'.status.conditions
    <2>1. pc # "Idle" => obj.status.conditions \cap Milestones \subseteq original.status.conditions
      BY <1>1 DEF LifeInv
    <2> QED
      BY <1>1, <2>1, Zenon
         DEF Effect, Nothing, Starts, SavesPrefix, SetsVersion, Notes, Finalizes, Passes,
             BeginsCreate, MakesConfig, FindsConfig, Saves, MakesProvider, FindsProvider,
             MakesRoles, MakesSomeRoles, FindsRoles, SavesRoles, Creates, Stops, Completes,
             AltersCluster, LosesCluster, MeetsCluster, FindsNoCluster, DestroysRoles,
             DestroysSomeRoles, DestroysConfig, DestroysProvider, Releases, Syncs, Recreates,
             Edits, Removes, Noted, Stored, Dropped, WithCondition, SameConditions
  <1>2. Typed /\ LifeInv /\ [Next]_vars
          => [obj # None /\ obj' # None
               => obj.status.conditions \cap Milestones \subseteq obj'.status.conditions]_vars
    BY <1>1, StepEffect
  <1> QED
    BY <1>2, SpecTyped, SpecLife, PTL DEF Spec, MilestonesKept

\* When the finalizer goes, what the status records is gone: the roles, the
\* OIDC config and the OIDC provider.  A crash, an error or a skipped step
\* between DestroyOperatorRoles and CompleteDestroy does not change that.
THEOREM ReleaseIsClean ==
  ASSUME "lag" \notin Environment
  PROVE  Spec => ReleasedClean
  <1>1. ASSUME Typed, LifeInv, CleanInv, Effect, FinalizerHeld, ~FinalizerHeld'
        PROVE  /\ obj.status.config \notin configs
               /\ obj.status.provider \notin providers
               /\ obj.status.prefix \in Prefixes => roles[obj.status.prefix] = "none"
    <2>1. pc = "RemoveFinalizer"
      BY <1>1, Zenon
         DEF FinalizerHeld, Effect, Nothing, Starts, SavesPrefix, SetsVersion, Notes, Finalizes,
             Passes, BeginsCreate, MakesConfig, FindsConfig, Saves, MakesProvider,
             FindsProvider, MakesRoles, MakesSomeRoles, FindsRoles, SavesRoles, Creates, Stops,
             Completes, AltersCluster, LosesCluster, MeetsCluster, FindsNoCluster,
             DestroysRoles, DestroysSomeRoles, DestroysConfig, DestroysProvider, Releases,
             Syncs, Recreates, Edits, Removes, Noted, Stored, Dropped, Alike
    <2> QED
      BY <1>1, <2>1 DEF CleanInv, RolesGone, Cleanup
  <1>2. Typed /\ LifeInv /\ CleanInv /\ [Next]_vars
          => [FinalizerHeld /\ ~FinalizerHeld' =>
                /\ obj.status.config \notin configs
                /\ obj.status.provider \notin providers
                /\ obj.status.prefix \in Prefixes => roles[obj.status.prefix] = "none"]_vars
    BY <1>1, StepEffect
  <1> QED
    BY <1>2, SpecTyped, SpecLife, PTL DEF Spec, ReleasedClean

-----------------------------------------------------------------------------
(* Records: what the status says is there is there *)

\* The roles and the provider that a status records exist.
Backed(o) ==
  /\ o.status.rolesCreated => o.status.prefix \in Prefixes /\ roles[o.status.prefix] = "all"
  /\ o.status.provider # NoID
       => o.status.provider = o.status.config /\ o.status.provider \in providers

\* The request agrees with the object on all but what createCluster is about to
\* save; whatever a resource that is not marked records exists; and createCluster
\* has what the steps before the present one were to make.
RecordInv ==
  /\ pc # "Idle" /\ obj # None
       => /\ obj.status.prefix = original.status.prefix
          /\ obj.status.rolesCreated = original.status.rolesCreated
          /\ pc # "SaveOIDCConfig" => obj.status.config = original.status.config
          /\ pc = "SaveOIDCConfig" => obj.status.config = NoID
  /\ pc \in {"EnsureOIDCConfig", "SaveOIDCConfig"} => ~refreshed
  /\ pc \notin {"Idle", "SavePrefix"} => desired.prefix = original.status.prefix
  /\ obj # None /\ ~Marked(obj) => Backed(obj)
  /\ Updating => Backed(original)
  /\ pc \in CreateSteps \ {"EnsureOIDCConfig", "SaveClusterID"}
       => original.status.config \in configs
  /\ pc \in {"SaveOIDCProvider", "CreateOperatorRoles", "SaveRolesCreated", "CreateCluster"}
       => original.status.config \in providers
  /\ pc \in {"SaveRolesCreated", "CreateCluster"} => roles[desired.prefix] = "all"

\* The cluster was built with a prefix, and with what ClusterHasIdentity says.
IdentityInv == ClusterHasIdentity /\ (OwnCluster => cluster.prefix \in Prefixes)

LEMMA InitRecord == Init => RecordInv /\ RolesAccountedFor /\ IdentityInv
  BY DEF Init, NewObject, NewStatus, RecordInv, Backed, Marked, Updating, Prelude, Owning,
         CreateSteps, RolesAccountedFor, IdentityInv, ClusterHasIdentity, OwnCluster

\* The steps that leave everything but the cluster alone, and stay on the path
\* the reconcile is on, outside createCluster.
Idles ==
  /\ UNCHANGED <<obj, original, desired, configs, providers, roles>>
  /\ \/ UNCHANGED <<pc, refreshed>>
     \/ pc \in Owning \ CreateSteps /\ pc' \in Owning \ CreateSteps
     \/ pc \in DeletePath /\ pc' \in DeletePath

LEMMA RecordKept ==
  ASSUME {"lag", "recreate"} \cap Environment = {}, Typed, LifeInv, LifeInv', RecordInv, Effect
  PROVE  RecordInv'
  <1> USE DEF RecordInv, Backed, Updating, Prelude, Owning, CreateSteps, SameIDs,
              SameConditions, Alike
  <1>1. /\ pc # "Idle" => original # None
        /\ pc \notin {"Idle", "SavePrefix"} => desired.prefix \in Prefixes
        /\ NoID \notin Prefixes
        /\ roles \in [Prefixes -> {"none", "some", "all"}]
    BY RequestFacts DEF Typed, TypeOK, CloudOK
  <1>2. /\ {Reconciling("Delete"), ClusterUninstalling, OperatorRolesDeleted,
            OIDCProviderDeleted, OIDCConfigDeleted} \subseteq Marks
    BY MarkFacts
  <1>3. /\ Updating => ~Marked(obj) /\ ~Marked(original)
        /\ Updating' => ~Marked(obj)' /\ ~Marked(original)'
        /\ pc \in DeletePath => Marked(obj)
    BY DEF LifeInv
  <1>4. pc = "SavePrefix" => original.status.prefix = NoID
    BY DEF LifeInv
  <1>5. Deleting => obj # None /\ SameConditions(original, obj)
    BY SMTT(20) DEF LifeInv, InStep
  <1>6. Idles \/ Starts \/ SavesPrefix \/ SetsVersion \/ Notes \/ Finalizes \/ BeginsCreate
         \/ MakesConfig \/ FindsConfig \/ Saves \/ MakesProvider \/ FindsProvider
         \/ MakesRoles \/ MakesSomeRoles \/ FindsRoles \/ SavesRoles \/ Creates \/ Stops
         \/ Completes \/ DestroysRoles \/ DestroysSomeRoles \/ DestroysConfig
         \/ DestroysProvider \/ Releases \/ Recreates \/ Edits \/ Removes
    BY Zenon DEF Effect, Nothing, Passes, AltersCluster, LosesCluster, MeetsCluster,
           FindsNoCluster, Syncs, Request, Apart, Idles, DeletePath, Cleanup
  <1>7. CASE Idles
    BY <1>7 DEF Idles, DeletePath, Cleanup
  <1>8. CASE Starts
    BY <1>1, <1>3, <1>8 DEF Starts, Apart
  <1>9. CASE SavesPrefix
    BY <1>1, <1>3, <1>4, SameMarks, <1>9 DEF SavesPrefix, Stored, Merged
  <1>10. CASE SetsVersion
    BY <1>1, <1>3, SameMarks, <1>10 DEF SetsVersion, Stored, Apart
  <1>11. CASE Notes
    <2>1. /\ UNCHANGED <<obj, original>> \/ (Stored /\ SameIDs(obj, obj'))
          /\ UNCHANGED <<cache, desired>> /\ Apart
      BY <1>11, SMTT(20) DEF Notes, Noted
    <2>2. CASE Updating
      <3>1. /\ pc' \in {"AddFinalizer", "WaitUntilReady"}
            /\ pc \in {"Reconciling", "NotifyCreated", "NotifyUpdated"}
        BY <1>11, <2>2 DEF Notes
      <3> QED
        BY <1>1, <1>3, <2>1, <2>2, <3>1 DEF Stored, Apart
    <2>3. CASE ~Updating
      <3>1. /\ pc' \in {"FindChildObjects", "WaitUntilMissing"} \cup Cleanup
            /\ pc \notin {"Idle", "SavePrefix", "SaveOIDCConfig"} /\ Deleting
        BY <1>11, <2>3 DEF Notes, Deleting, DeletePath, Cleanup
      <3>2. \E c \in Marks : Noted(c)
        BY <1>2, <1>11, <2>3 DEF Notes
      <3>3. Marked(obj)'
        BY <1>1, <1>5, <3>1, <3>2 DEF Noted, Stored, WithCondition, Marked
      <3> QED
        BY <1>1, <2>1, <3>1, <3>3 DEF Stored, Apart, Cleanup
    <2> QED
      BY <2>2, <2>3
  <1>12. CASE Finalizes
    BY <1>1, <1>3, SameMarks, <1>12 DEF Finalizes, Apart
  <1>13. CASE BeginsCreate
    BY <1>1, <1>3, <1>13 DEF BeginsCreate, Apart
  <1>14. CASE MakesConfig
    BY <1>1, <1>3, SameMarks, <1>14 DEF MakesConfig
  <1>15. CASE FindsConfig
    BY <1>1, <1>3, <1>15 DEF FindsConfig, Apart
  <1>16. CASE Saves
    BY <1>1, <1>3, <1>16 DEF Saves, Stored, Dropped, Apart
  <1>17. CASE MakesProvider
    BY <1>1, <1>3, SameMarks, <1>17 DEF MakesProvider
  <1>18. CASE FindsProvider
    BY <1>1, <1>3, <1>18 DEF FindsProvider, Apart
  <1>19. CASE MakesRoles
    BY <1>1, <1>3, <1>19 DEF MakesRoles
  <1>20. CASE MakesSomeRoles
    BY <1>1, <1>3, <1>20 DEF MakesSomeRoles
  <1>21. CASE FindsRoles
    BY <1>1, <1>3, <1>21, Zenon DEF FindsRoles, Apart
  <1>22. CASE SavesRoles
    BY <1>1, <1>3, SameMarks, <1>22 DEF SavesRoles, Stored, Apart
  <1>23. CASE Creates
    BY <1>1, <1>3, SameMarks, <1>23 DEF Creates
  <1>24. CASE Stops
    BY <1>24 DEF Stops, Apart
  <1>25. CASE Completes
    BY <1>1, <1>3, <1>25 DEF Completes, WithCondition, Apart
  <1>26. CASE DestroysRoles
    BY <1>1, <1>3, <1>26 DEF DestroysRoles, DeletePath, Cleanup
  <1>27. CASE DestroysSomeRoles
    BY <1>1, <1>3, <1>27 DEF DestroysSomeRoles, DeletePath, Cleanup
  <1>28. CASE DestroysConfig
    BY <1>1, <1>3, <1>28 DEF DestroysConfig, DeletePath, Cleanup
  <1>29. CASE DestroysProvider
    BY <1>1, <1>3, <1>29 DEF DestroysProvider, DeletePath, Cleanup
  <1>30. CASE Releases
    BY <1>1, <1>3, SameMarks, <1>30 DEF Releases, Apart, DeletePath, Cleanup
  <1>31. CASE Recreates
    BY <1>31 DEF Recreates, NewStatus, Request, Apart
  <1>32. CASE Edits
    BY <1>1, <1>3, SameMarks, <1>32, SMTT(20) DEF Edits, Request, Apart
  <1>33. CASE Removes
    BY <1>1, <1>3, SameMarks, <1>33 DEF Removes, Request, Apart
  <1> QED
    BY <1>6, <1>7, <1>8, <1>9, <1>10, <1>11, <1>12, <1>13, <1>14, <1>15, <1>16, <1>17, <1>18,
       <1>19, <1>20, <1>21, <1>22, <1>23, <1>24, <1>25, <1>26, <1>27, <1>28, <1>29, <1>30,
       <1>31, <1>32, <1>33, Zenon

LEMMA RolesKept ==
  ASSUME {"lag", "recreate"} \cap Environment = {}, Typed, CustodyInv, LifeInv, CleanInv,
         RecordInv, RolesAccountedFor, Effect
  PROVE  RolesAccountedFor'
  <1> USE DEF RolesAccountedFor, FinalizerHeld, SameIDs, Alike
  <1>1. /\ pc \notin {"Idle", "SavePrefix"} => desired.prefix \in Prefixes
        /\ NoID \notin Prefixes
        /\ roles \in [Prefixes -> {"none", "some", "all"}]
    BY RequestFacts DEF Typed, TypeOK, CloudOK
  <1>2. pc \in Owning => FinalizerHeld
    BY DEF CustodyInv, HeldInv
  <1>3. /\ pc # "Idle" /\ obj # None => obj.status.prefix = original.status.prefix
        /\ pc \notin {"Idle", "SavePrefix"} => desired.prefix = original.status.prefix
        /\ pc = "SavePrefix" => original.status.prefix = NoID
    BY DEF RecordInv, LifeInv
  <1>4. pc = "RemoveFinalizer" => obj # None /\ obj.deleting /\ RolesGone
    BY DEF LifeInv, Deleting, DeletePath, CleanInv, Cleanup
  <1>5. pc = "DestroyOperatorRoles" => obj # None
    BY DEF LifeInv, Deleting, DeletePath, Cleanup
  <1> USE DEF RolesGone, Owning, CreateSteps
  <1>6. UNCHANGED <<obj, roles>> \/ SavesPrefix \/ SetsVersion \/ Notes \/ Finalizes \/ Saves
         \/ MakesRoles \/ MakesSomeRoles \/ SavesRoles \/ Completes \/ DestroysRoles
         \/ DestroysSomeRoles \/ Releases \/ Recreates \/ Edits \/ Removes
    BY Zenon DEF Effect, Nothing, Starts, Passes, BeginsCreate, MakesConfig, FindsConfig,
           MakesProvider, FindsProvider, FindsRoles, Creates, Stops, AltersCluster,
           LosesCluster, MeetsCluster, FindsNoCluster, DestroysConfig, DestroysProvider,
           Syncs, Request, Apart
  <1>7. CASE UNCHANGED <<obj, roles>>
    BY <1>7
  <1>8. CASE SavesPrefix
    BY <1>1, <1>3, <1>8 DEF SavesPrefix, Stored, Merged
  <1>9. CASE SetsVersion
    BY <1>9 DEF SetsVersion, Stored, Apart
  <1>10. CASE Notes
    BY <1>10, SMTT(20) DEF Notes, Noted, Stored, Apart
  <1>11. CASE Finalizes
    BY <1>11 DEF Finalizes, Apart
  <1>12. CASE Saves
    BY <1>1, <1>3, <1>12 DEF Saves, Stored, Dropped, Apart
  <1>13. CASE MakesRoles
    BY <1>1, <1>2, <1>3, <1>13 DEF MakesRoles
  <1>14. CASE MakesSomeRoles
    BY <1>1, <1>2, <1>3, <1>14 DEF MakesSomeRoles
  <1>15. CASE SavesRoles
    BY <1>15 DEF SavesRoles, Stored, Apart
  <1>16. CASE Completes
    BY <1>16 DEF Completes, Apart
  <1>17. CASE DestroysRoles
    BY <1>1, <1>3, <1>5, <1>17 DEF DestroysRoles
  <1>18. CASE DestroysSomeRoles
    BY <1>1, <1>3, <1>5, <1>18 DEF DestroysSomeRoles
  <1>19. CASE Releases
    BY <1>4, <1>19 DEF Releases, Apart
  <1>20. CASE Recreates
    BY <1>20 DEF Recreates, NewStatus, Request, Apart
  <1>21. CASE Edits
    BY <1>21 DEF Edits, Request, Apart
  <1>22. CASE Removes
    BY <1>22 DEF Removes, Request, Apart
  <1> QED
    BY <1>6, <1>7, <1>8, <1>9, <1>10, <1>11, <1>12, <1>13, <1>14, <1>15, <1>16, <1>17, <1>18,
       <1>19, <1>20, <1>21, <1>22, Zenon

LEMMA IdentityKept ==
  ASSUME Typed, CustodyInv, RecordInv, IdentityInv, Effect
  PROVE  IdentityInv'
  <1> USE DEF IdentityInv, ClusterHasIdentity, OwnCluster
  <1>1. /\ pc \notin {"Idle", "SavePrefix"} => desired.prefix \in Prefixes
        /\ NoID \notin Prefixes
        /\ roles \in [Prefixes -> {"none", "some", "all"}]
    BY RequestFacts DEF Typed, TypeOK, CloudOK
  <1>2. pc \in Cleanup => ~OwnCluster
    BY DEF CustodyInv, HeldInv
  <1>3. pc = "CreateCluster" => /\ original.status.config \in configs
                                /\ original.status.config \in providers
                                /\ roles[desired.prefix] = "all"
    BY DEF RecordInv, CreateSteps
  <1> USE DEF Cleanup
  <1>4. UNCHANGED <<cluster, configs, providers, roles>> \/ MakesConfig \/ MakesProvider
         \/ MakesRoles \/ MakesSomeRoles \/ Creates \/ AltersCluster \/ LosesCluster
         \/ MeetsCluster \/ DestroysRoles \/ DestroysSomeRoles \/ DestroysConfig
         \/ DestroysProvider
    BY Zenon DEF Effect, Nothing, Starts, SavesPrefix, SetsVersion, Notes, Finalizes, Passes,
           BeginsCreate, FindsConfig, Saves, FindsProvider, FindsRoles, SavesRoles, Stops,
           Completes, FindsNoCluster, Releases, Syncs, Recreates, Edits, Removes, Request,
           Apart
  <1>5. CASE UNCHANGED <<cluster, configs, providers, roles>>
    BY <1>5
  <1>6. CASE MakesConfig
    BY <1>6 DEF MakesConfig
  <1>7. CASE MakesProvider
    BY <1>7 DEF MakesProvider
  <1>8. CASE MakesRoles
    BY <1>1, <1>8 DEF MakesRoles
  <1>9. CASE MakesSomeRoles
    BY <1>1, <1>9 DEF MakesSomeRoles
  <1>10. CASE Creates
    BY <1>1, <1>3, <1>10 DEF Creates
  <1>11. CASE AltersCluster
    BY <1>11 DEF AltersCluster
  <1>12. CASE LosesCluster
    BY <1>12 DEF LosesCluster, Request
  <1>13. CASE MeetsCluster
    BY <1>13 DEF MeetsCluster, Request
  <1>14. CASE DestroysRoles
    BY <1>2, <1>14 DEF DestroysRoles
  <1>15. CASE DestroysSomeRoles
    BY <1>2, <1>15 DEF DestroysSomeRoles
  <1>16. CASE DestroysConfig
    BY <1>2, <1>16 DEF DestroysConfig
  <1>17. CASE DestroysProvider
    BY <1>2, <1>17 DEF DestroysProvider
  <1> QED
    BY <1>4, <1>5, <1>6, <1>7, <1>8, <1>9, <1>10, <1>11, <1>12, <1>13, <1>14, <1>15, <1>16,
       <1>17, Zenon

LEMMA SpecRecord ==
  ASSUME {"lag", "recreate"} \cap Environment = {}
  PROVE  Spec => [](RecordInv /\ RolesAccountedFor /\ IdentityInv)
  <1>0. "lag" \notin Environment
    OBVIOUS
  <1>1. Typed /\ CustodyInv /\ (LifeInv /\ CleanInv) /\ (LifeInv /\ CleanInv)'
          /\ (RecordInv /\ RolesAccountedFor /\ IdentityInv) /\ [Next]_vars
        => (RecordInv /\ RolesAccountedFor /\ IdentityInv)'
    BY StepEffect, RecordKept, RolesKept, IdentityKept
  <1>2. Spec => []CustodyInv
    BY <1>0, SpecCustody
  <1>3. Spec => [](LifeInv /\ CleanInv)
    BY <1>0, SpecLife
  <1> QED
    BY <1>1, <1>2, <1>3, InitRecord, SpecTyped, PTL DEF Spec

\* Operator roles are in AWS only under the prefix that a resource with the
\* finalizer records, for every number of ids, prefixes and edits and through
\* crashes, errors and other tools; the cache is up to date when a reconcile
\* starts, and the resource is not created a second time.
THEOREM RolesAlwaysAccountedFor ==
  ASSUME {"lag", "recreate"} \cap Environment = {}
  PROVE  Spec => []RolesAccountedFor
  BY SpecRecord, PTL

\* The operator's cluster has its OIDC config, its OIDC provider and its roles
\* from the call that creates it to the moment OCM has removed it, under the
\* same hypotheses.
THEOREM ClusterKeepsIdentity ==
  ASSUME {"lag", "recreate"} \cap Environment = {}
  PROVE  Spec => []ClusterHasIdentity
  BY SpecRecord, PTL DEF IdentityInv
=============================================================================
