------------------------------- MODULE Drift -------------------------------
(***************************************************************************)
(* The update loop of Scaling with one more field of the spec.  OCM's      *)
(* update is a patch: a field that the builder leaves out keeps its value. *)
(* Whether the loop comes to rest depends on what the builder and CopyFrom *)
(* make of a field that is empty, rounded or shortened.  The fields are    *)
(* converted one by one, so a behaviour follows one of them.               *)
(***************************************************************************)
EXTENDS Scaling

VARIABLES
    field,  \* the field followed
    want,   \* its value in the spec
    have    \* its value in OCM

driftVars == <<vars, field, want, have>>

\* "optional" stands for the trust bundle, the proxy, the keys and the subnets.
Fields ==
    [MachinePool |-> {"labels", "taints", "spot"},
     NodePool    |-> {"labels", "taints", "spot"},
     ROSACluster |-> {"labels", "optional", "tags", "version", "accountRolesPrefix"}]

NoSpot == [enabled |-> FALSE, price |-> 0]

Unset(f) == IF f = "spot" THEN NoSpot ELSE "unset"

\* In the spec.  A list or a map may be unset or given as empty, which DeepEqual
\* tells apart; SetMachinePoolLabels leaves no empty map.
Wanted(f) ==
    CASE f = "spot"               -> [enabled: BOOLEAN, price: 0 .. 1]
      [] f = "accountRolesPrefix" -> {"team", "team-a"}
      [] f = "version"            -> {"4.12.1", "4.13.1"}
      [] f = "optional" \/ (f = "labels" /\ kind # "ROSACluster") -> {"unset", "a", "b"}
      [] OTHER                    -> {"unset", "empty", "a", "b"}

\* In OCM, where the price of a spot instance is counted in half dollars here.
Held(f) ==
    CASE f = "spot" -> {NoSpot} \cup IF kind = "NodePool" THEN {} ELSE [enabled: {TRUE}, price: 0 .. 3]
      [] OTHER      -> Wanted(f) \ {"empty"}

\* What the builder sends of the field: nothing, or a value.  The managed labels
\* are always sent and so is an empty list of taints.
BuildField(v) ==
    CASE field = "spot" ->
             IF kind = "NodePool" \/ ~v.enabled THEN {} ELSE {[v EXCEPT !.price = 2 * @]}
      [] field # "spot" /\ kind = "ROSACluster" /\ v \in {"unset", "empty"} -> {}
      [] OTHER -> {IF v = "empty" THEN "unset" ELSE v}

UpToDash(v) == IF v = "team-a" THEN "team" ELSE v

\* Mutant: spot instances are read back without their price.
CopyFieldNoPrice(v) ==
    CASE field = "spot"               -> [v EXCEPT !.price = 0]
      [] field = "accountRolesPrefix" -> UpToDash(v)
      [] OTHER                        -> v

\* CopyFrom: the price is cut to an int, the prefix at its first dash.
CopyField(v) ==
    CASE field = "spot"               -> [v EXCEPT !.price = @ \div 2]
      [] field = "accountRolesPrefix" -> UpToDash(v)
      [] OTHER                        -> v

\* Mutant: the tags are not compared at all.
FieldInDesiredStateNoTags ==
    CASE field = "tags"                      -> TRUE
      [] field = "spot" /\ kind = "NodePool" -> CopyField(have) = NoSpot
      [] OTHER                               -> CopyField(have) = want

\* desired: only the tags of the spec are looked for, and NewRequest drops the spot
\* instances of a hosted cluster.
FieldInDesiredState ==
    CASE field = "tags"                      -> want \in {"unset", "empty", have}
      [] field = "spot" /\ kind = "NodePool" -> CopyField(have) = NoSpot
      [] OTHER                               -> CopyField(have) = want

\* OCM changes neither the version nor the roles of a cluster by an update.
Patched(sent) ==
    IF sent = {} \/ field \in {"version", "accountRolesPrefix"}
    THEN have ELSE CHOOSE v \in sent : TRUE

DriftInit ==
    /\ Init
    /\ field \in Fields[kind]
    /\ want \in Wanted(field)
    /\ have = IF BuildField(want) = {} THEN Unset(field) ELSE CHOOSE v \in BuildField(want) : TRUE

\* updateCluster and updateMachinePool: one update carries the whole spec,
\* whatever differs.
Update ==
    /\ ~(InDesiredState /\ FieldInDesiredState)
    /\ pool' = Build(spec)
    /\ have' = Patched(BuildField(want))
    /\ UNCHANGED <<kind, zones, spec, field, want>>

\* An immutable field without a default may still be added or removed.
UserEditsField ==
    /\ field \notin {"version", "accountRolesPrefix"}
    /\ want' \in Wanted(field)
    /\ field \in {"optional", "tags"} => "unset" \in {want, want'}
    /\ UNCHANGED <<vars, field, have>>

\* Other tools; a cluster is upgraded this way.
OthersEditField ==
    /\ field # "accountRolesPrefix"
    /\ have' \in Held(field)
    /\ UNCHANGED <<vars, field, want>>

DriftNext ==
    \/ Update \/ UserEditsField \/ OthersEditField
    \/ (UserEdits \/ OthersScale) /\ UNCHANGED <<field, want, have>>

DriftSpec == DriftInit /\ [][DriftNext]_driftVars

-----------------------------------------------------------------------------

\* The fields that settle.  Not: what the builder leaves out of the patch (spot
\* instances turned off, an optional field or the labels of a ROSACluster removed),
\* taints given as an empty list, a prefix with a dash, the version of a cluster
\* that was upgraded.
Settling ==
    CASE field = "spot"               -> kind = "NodePool" \/ want.enabled
      [] field = "accountRolesPrefix" -> want = UpToDash(want)
      [] field = "version"            -> have = want
      [] field = "taints"             -> want # "empty"
      [] field = "optional" \/ (field = "labels" /\ kind = "ROSACluster") ->
             want \notin {"unset", "empty"}
      [] OTHER                        -> TRUE

\* One update brings such a field to rest, whatever the user and other tools did to
\* it and to the nodes before: CopyFrom gives back what the builder sent (Builder,
\* CopyFrom and desired).
FieldSettles == [][Update /\ Settling => FieldInDesiredState']_driftVars

\* A reconciler that sees no difference is right about the field: OCM has what the
\* builder would send (CopyFrom and desired).  Only a price that is not a whole
\* number of dollars escapes, as CopyFrom cuts it.
NoFalseCalmField ==
    FieldInDesiredState /\ (field = "spot" => have.price % 2 = 0)
        => BuildField(want) \subseteq {have}
=============================================================================
