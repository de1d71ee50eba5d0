--------------------------- MODULE ScalingProofs ---------------------------
(***************************************************************************)
(* Where the conversions of Replicas match they are inverse to each other  *)
(* for every number of nodes, so the update loop of Scaling settles and is *)
(* never wrongly calm; and so does the loop of Drift, with a field that is *)
(* converted along with the nodes.                                         *)
(***************************************************************************)
EXTENDS Drift, TLAPS

\* Every pool in OCM was sized by a builder or by OCM's rule of multiples.
ScalingInv ==
    /\ kind \in {"MachinePool", "NodePool", "ROSACluster"}
    /\ zones \in {1, 3}
    /\ spec \in Specs
    /\ \/ \E a, b \in Nat : b > 0 /\ pool = Autoscaling(a * zones, b * zones)
       \/ \E n \in Nat : pool = Fixed(n)

\* A spec is a pair of numbers.
LEMMA SpecNat == ASSUME NEW s \in Specs
                 PROVE  s = [min |-> s.min, max |-> s.max] /\ s.min \in Nat /\ s.max \in Nat
  BY ScalingAssumption DEF Specs

\* What every builder makes of a spec is such a pool.
LEMMA BuildSized ==
    ASSUME ScalingInv, NEW s \in Specs
    PROVE  \/ \E a, b \in Nat : b > 0 /\ Build(s) = Autoscaling(a * zones, b * zones)
           \/ \E n \in Nat : Build(s) = Fixed(n)
  <1>1. s.min \in Nat /\ s.max \in Nat /\ s.min * zones \in Nat
    BY SpecNat DEF ScalingInv
  <1>2. CASE s.max > 0
    <2>1. Build(s) = Autoscaling(s.min * zones, s.max * zones)
      BY <1>2 DEF ScalingInv, Build, MachinePoolBuilder, NodePoolBuilder, BuildClusterNodes
    <2> QED
      BY <1>1, <1>2, <2>1
  <1>3. CASE ~(s.max > 0)
    <2>1. Build(s) = Fixed(s.min) \/ Build(s) = Fixed(s.min * zones)
      BY <1>3 DEF ScalingInv, Build, MachinePoolBuilder, NodePoolBuilder, BuildClusterNodes
    <2> QED
      BY <1>1, <2>1
  <1> QED
    BY <1>2, <1>3

\* The sizes are invariant under every step.
LEMMA SizedKept == ScalingInv /\ [Next]_vars => ScalingInv'
  <1> SUFFICES ASSUME ScalingInv, [Next]_vars PROVE ScalingInv'
    OBVIOUS
  <1>1. CASE Apply
    <2>1. \/ \E a, b \in Nat : b > 0 /\ Build(spec) = Autoscaling(a * zones, b * zones)
          \/ \E n \in Nat : Build(spec) = Fixed(n)
      BY BuildSized DEF ScalingInv
    <2> QED
      BY <1>1, <2>1 DEF Apply, ScalingInv
  <1>2. CASE UserEdits
    BY <1>2 DEF UserEdits, ScalingInv
  <1>3. CASE OthersScale
    <2>1. PICK s \in Specs :
            pool' = IF s.max > 0 THEN Autoscaling(s.min * zones, s.max * zones)
                    ELSE Fixed(s.min * zones)
      BY <1>3 DEF OthersScale
    <2>2. s.min \in Nat /\ s.max \in Nat /\ s.min * zones \in Nat
      BY SpecNat DEF ScalingInv
    <2> QED
      BY <1>3, <2>1, <2>2 DEF OthersScale, ScalingInv
  <1>4. CASE UNCHANGED vars
    BY <1>4 DEF vars, ScalingInv
  <1> QED
    BY <1>1, <1>2, <1>3, <1>4 DEF Next

\* A new resource has the sizes its builder gives it.
LEMMA InitSized == Init => ScalingInv
  <1> SUFFICES ASSUME Init PROVE ScalingInv
    OBVIOUS
  <1>1. kind \in {"MachinePool", "NodePool", "ROSACluster"} /\ zones \in {1, 3} /\ spec \in Specs
    BY ScalingAssumption DEF Init, GetAvailabilityZoneCount
  <1>2. spec.min \in Nat /\ spec.max \in Nat /\ spec.min * zones \in Nat
    BY <1>1, SpecNat
  <1>3. CASE spec.max > 0
    <2>1. Build(spec) = Autoscaling(spec.min * zones, spec.max * zones)
      BY <1>1, <1>3 DEF Build, MachinePoolBuilder, NodePoolBuilder, BuildClusterNodes
    <2> QED
      BY <1>1, <1>2, <1>3, <2>1 DEF Init, ScalingInv
  <1>4. CASE ~(spec.max > 0)
    <2>1. Build(spec) = Fixed(spec.min) \/ Build(spec) = Fixed(spec.min * zones)
      BY <1>1, <1>4 DEF Build, MachinePoolBuilder, NodePoolBuilder, BuildClusterNodes
    <2> QED
      BY <1>1, <1>2, <2>1 DEF Init, ScalingInv
  <1> QED
    BY <1>3, <1>4

\* Every behaviour keeps the sizes.
LEMMA SpecSized == Spec => []ScalingInv
  BY InitSized, SizedKept, PTL DEF Spec

-----------------------------------------------------------------------------

\* Where the conversions match, the copy of what a builder made is the spec.
LEMMA RoundTrip ==
    ASSUME ScalingInv, Exact PROVE Copy(Build(spec)) = spec
  <1>1. /\ spec.min \in Nat /\ spec.max \in Nat
        /\ spec = [min |-> spec.min, max |-> spec.max]
    BY SpecNat DEF ScalingInv
  <1>2. CASE spec.max > 0
    <2>1. Build(spec) = Autoscaling(spec.min * zones, spec.max * zones)
      BY <1>2 DEF ScalingInv, Build, MachinePoolBuilder, NodePoolBuilder, BuildClusterNodes
    <2>2. /\ (spec.min * zones) \div zones = spec.min
          /\ (spec.max * zones) \div zones = spec.max
          /\ spec.max * zones > 0
      BY <1>1, <1>2 DEF ScalingInv
    <2>3. zones = 1 => spec.min * zones = spec.min /\ spec.max * zones = spec.max
      BY <1>1
    <2>4. Copy(Build(spec)) = [min |-> spec.min, max |-> spec.max]
      BY <2>1, <2>2, <2>3, <1>2
         DEF ScalingInv, Exact, Copy, CopyFromMachinePool, CopyFromNodePool, CopyFromCluster,
             Autoscaling
    <2> QED
      BY <1>1, <2>4
  <1>3. CASE ~(spec.max > 0)
    <2>1. zones = 1 /\ spec.max = 0
      BY <1>1, <1>3 DEF Exact
    <2>2. spec.min * zones = spec.min /\ spec.min \div zones = spec.min
      BY <1>1, <2>1
    <2>3. Build(spec) = Fixed(spec.min)
      BY <1>3, <2>2 DEF ScalingInv, Build, MachinePoolBuilder, NodePoolBuilder, BuildClusterNodes
    <2>4. Copy(Build(spec)) = [min |-> spec.min, max |-> 0]
      BY <2>2, <2>3
         DEF ScalingInv, Copy, CopyFromMachinePool, CopyFromNodePool, CopyFromCluster, Fixed
    <2> QED
      BY <1>1, <2>1, <2>4
  <1> QED
    BY <1>2, <1>3

\* Apply sends what CopyFrom will read back as the spec.
LEMMA ApplySettles == ScalingInv => [Apply /\ Exact => InDesiredState']_vars
  <1> SUFFICES ASSUME ScalingInv, Apply, Exact PROVE InDesiredState'
    OBVIOUS
  <1>1. Copy(Build(spec)) = spec
    BY RoundTrip
  <1>2. Copy(pool)' = Copy(pool')
    BY DEF Apply, Copy
  <1> QED
    BY <1>1, <1>2 DEF Apply, InDesiredState

\* One update is enough, whatever the spec and the number of nodes: Apply
\* sends what CopyFrom will read back as the spec.
THEOREM UpdateSettles == Spec => Settles
  BY ApplySettles, SpecSized, PTL DEF Settles

\* CopyFrom loses nothing the builder would restore.
LEMMA SizedCalm == ScalingInv => NoFalseCalm
  <1> SUFFICES ASSUME ScalingInv, InDesiredState, Exact PROVE pool = Build(spec)
    BY DEF NoFalseCalm
  <1>0. /\ spec.min \in Nat /\ spec.max \in Nat
        /\ spec = [min |-> spec.min, max |-> spec.max]
    BY SpecNat DEF ScalingInv
  <1>1. CASE \E a, b \in Nat : b > 0 /\ pool = Autoscaling(a * zones, b * zones)
    <2>1. PICK a, b \in Nat : b > 0 /\ pool = Autoscaling(a * zones, b * zones)
      BY <1>1
    <2>2. /\ (a * zones) \div zones = a /\ (b * zones) \div zones = b /\ b * zones > 0
          /\ zones = 1 => a * zones = a /\ b * zones = b
      BY <2>1 DEF ScalingInv
    <2>3. Copy(pool) = [min |-> a, max |-> b] \/ (kind = "NodePool" /\ zones = 3)
      BY <2>1, <2>2
         DEF ScalingInv, Copy, CopyFromMachinePool, CopyFromNodePool, CopyFromCluster,
             Autoscaling
    <2>4. kind = "NodePool" => zones = 1
      <3>1. pool.max = b * zones /\ pool.max > 0
        BY <2>1, <2>2 DEF Autoscaling
      <3> QED
        BY <3>1 DEF Exact
    <2>5. [min |-> a, max |-> b] = spec
      BY <2>3, <2>4 DEF InDesiredState
    <2>6. spec.min = a /\ spec.max = b
      BY <2>5
    <2> QED
      BY <2>1, <2>6
         DEF ScalingInv, Build, MachinePoolBuilder, NodePoolBuilder, BuildClusterNodes
  <1>2. CASE \E n \in Nat : pool = Fixed(n)
    <2>1. PICK n \in Nat : pool = Fixed(n)
      BY <1>2
    <2>2. Copy(pool).max = 0
      BY <2>1
         DEF ScalingInv, Copy, CopyFromMachinePool, CopyFromNodePool, CopyFromCluster, Fixed
    <2>3. spec.max = 0 /\ zones = 1
      BY <2>2 DEF InDesiredState, Exact
    <2>4. n \div zones = n /\ spec.min * zones = spec.min
      BY <1>0, <2>1, <2>3
    <2>5. Copy(pool).min = n
      BY <2>1, <2>4
         DEF ScalingInv, Copy, CopyFromMachinePool, CopyFromNodePool, CopyFromCluster, Fixed
    <2>6. Build(spec) = Fixed(spec.min)
      BY <2>3, <2>4
         DEF ScalingInv, Build, MachinePoolBuilder, NodePoolBuilder, BuildClusterNodes
    <2> QED
      BY <2>1, <2>5, <2>6 DEF InDesiredState
  <1> QED
    BY <1>1, <1>2 DEF ScalingInv

\* A reconciler that finds its resource in the desired state is right about
\* it, whoever scaled it: CopyFrom loses nothing the builder would restore.
THEOREM CalmIsRight == Spec => []NoFalseCalm
  BY SizedCalm, SpecSized, PTL

-----------------------------------------------------------------------------
(* With a field of the spec *)

\* OCM never has an empty list, a price outside its range or another kind's
\* field, and nobody changes the prefix of the account roles.
DriftInv ==
    /\ ScalingInv
    /\ field \in Fields[kind]
    /\ want \in Wanted(field)
    /\ have \in Held(field)
    /\ field = "accountRolesPrefix" => have = want

LEMMA OneChosen == \A x : (CHOOSE v \in {x} : TRUE) = x
  OBVIOUS

LEMMA Chosen == \A S : S # {} => (CHOOSE v \in S : TRUE) \in S
  OBVIOUS

\* The fields that are a name, a list or a map, and spot instances.
LEMMA FieldKinds ==
    ASSUME kind \in {"MachinePool", "NodePool", "ROSACluster"}
    PROVE  /\ Fields[kind] \subseteq {"labels", "taints", "spot", "optional", "tags", "version",
                                     "accountRolesPrefix"}
           /\ kind = "ROSACluster" => "spot" \notin Fields[kind] /\ "taints" \notin Fields[kind]
           /\ kind # "ROSACluster" => Fields[kind] = {"labels", "taints", "spot"}
  BY DEF Fields

LEMMA Doubled ==
    ASSUME NEW w \in [enabled: BOOLEAN, price: 0 .. 1]
    PROVE  [w EXCEPT !.price = 2 * w.price] = [enabled |-> w.enabled, price |-> 2 * w.price]
  OBVIOUS

\* A price in dollars, doubled and cut to its half again.
LEMMA SpotRoundTrip ==
    ASSUME NEW w \in [enabled: BOOLEAN, price: 0 .. 1], w.enabled
    PROVE  /\ [w EXCEPT !.price = 2 * w.price] \in [enabled: {TRUE}, price: 0 .. 3]
           /\ \A b : b = [w EXCEPT !.price = 2 * w.price]
                      => [b EXCEPT !.price = b.price \div 2] = w
  <1>1. w.enabled = TRUE /\ w = [enabled |-> w.enabled, price |-> w.price]
    BY Zenon
  <1>2. w.price \in 0 .. 1
    OBVIOUS
  <1>3. 2 * w.price \in 0 .. 3 /\ (2 * w.price) \div 2 = w.price
    BY <1>2
  <1>4. [w EXCEPT !.price = 2 * w.price] = [enabled |-> w.enabled, price |-> 2 * w.price]
    BY Doubled
  <1> QED
    BY <1>1, <1>3, <1>4

\* What the builder sends, CopyFrom reads and OCM can have of spot instances.
LEMMA SpotFacts ==
    ASSUME field = "spot"
    PROVE  /\ Wanted(field) = [enabled: BOOLEAN, price: 0 .. 1]
           /\ Unset(field) = NoSpot /\ NoSpot \in Held(field)
           /\ kind # "NodePool" => [enabled: {TRUE}, price: 0 .. 3] \subseteq Held(field)
           /\ \A v : /\ kind = "NodePool" \/ ~v.enabled => BuildField(v) = {}
                    /\ kind # "NodePool" /\ v.enabled
                         => BuildField(v) = {[v EXCEPT !.price = 2 * v.price]}
                    /\ CopyField(v) = [v EXCEPT !.price = v.price \div 2]
           /\ kind # "NodePool" /\ Settling => want.enabled
  <1>1. Wanted(field) = [enabled: BOOLEAN, price: 0 .. 1]
    BY DEF Wanted
  <1>2. /\ Unset(field) = NoSpot /\ NoSpot \in Held(field)
        /\ kind # "NodePool" => [enabled: {TRUE}, price: 0 .. 3] \subseteq Held(field)
    BY DEF Held, Unset
  <1>3. ASSUME NEW v
        PROVE  /\ kind = "NodePool" \/ ~v.enabled => BuildField(v) = {}
               /\ kind # "NodePool" /\ v.enabled
                    => BuildField(v) = {[v EXCEPT !.price = 2 * v.price]}
               /\ CopyField(v) = [v EXCEPT !.price = v.price \div 2]
    BY Zenon DEF BuildField, CopyField
  <1>4. kind # "NodePool" /\ Settling => want.enabled
    BY Zenon DEF Settling
  <1> QED
    BY <1>1, <1>2, <1>3, <1>4, Zenon

\* What the builder sends of a value of the spec, OCM can have.
LEMMA BuiltHeld ==
    ASSUME kind \in {"MachinePool", "NodePool", "ROSACluster"}, field \in Fields[kind],
           NEW w \in Wanted(field)
    PROVE  /\ BuildField(w) \subseteq Held(field)
           /\ BuildField(w) = {} => Unset(field) \in Held(field)
           /\ field = "accountRolesPrefix" => BuildField(w) = {w}
  <1>1. CASE field = "spot"
    <2>0. field # "accountRolesPrefix"
      BY <1>1
    <2>1. w \in [enabled: BOOLEAN, price: 0 .. 1]
      BY <1>1, SpotFacts, Zenon
    <2>2. CASE kind # "NodePool" /\ w.enabled
      <3>1. [w EXCEPT !.price = 2 * w.price] \in Held(field)
        BY <1>1, <2>1, <2>2, SpotRoundTrip, SpotFacts
      <3>2. BuildField(w) = {[w EXCEPT !.price = 2 * w.price]}
        BY <1>1, <2>2 DEF BuildField
      <3> QED
        BY <2>0, <3>1, <3>2
    <2>3. CASE kind = "NodePool" \/ ~w.enabled
      <3>1. BuildField(w) = {} /\ Unset(field) \in Held(field)
        BY <1>1, <2>3, SpotFacts DEF BuildField
      <3> QED
        BY <2>0, <3>1
    <2> QED
      BY <2>2, <2>3
  <1>2. CASE field # "spot"
    BY <1>2, FieldKinds DEF Wanted, Held, Unset, BuildField
  <1> QED
    BY <1>1, <1>2

\* The sizes and the fields are invariant under every step of the loop.
LEMMA SpecDrift == DriftSpec => []DriftInv
  <1>1. DriftInit => DriftInv
    <2> SUFFICES ASSUME DriftInit PROVE DriftInv
      OBVIOUS
    <2>1. ScalingInv
      BY InitSized DEF DriftInit
    <2>2. /\ kind \in {"MachinePool", "NodePool", "ROSACluster"}
          /\ field \in Fields[kind] /\ want \in Wanted(field)
      BY <2>1 DEF DriftInit, ScalingInv
    <2>3. have \in Held(field)
      BY <2>2, BuiltHeld, Chosen DEF DriftInit
    <2>4. field = "accountRolesPrefix" => have = want
      BY <2>2, BuiltHeld, OneChosen DEF DriftInit
    <2> QED
      BY <2>1, <2>2, <2>3, <2>4 DEF DriftInv
  <1>2. DriftInv /\ [DriftNext]_driftVars => DriftInv'
    <2> SUFFICES ASSUME DriftInv, [DriftNext]_driftVars PROVE DriftInv'
      OBVIOUS
    <2> USE DEF DriftInv
    <2>1. CASE Update
      <3>1. ScalingInv'
        BY <2>1, BuildSized DEF Update, ScalingInv
      <3>2. kind \in {"MachinePool", "NodePool", "ROSACluster"}
        BY DEF ScalingInv
      <3>3. have' \in Held(field) /\ (field = "accountRolesPrefix" => have' = have)
        BY <2>1, <3>2, BuiltHeld, Chosen DEF Update, Patched
      <3> QED
        BY <2>1, <3>1, <3>3 DEF Update, Wanted, Held
    <2>2. CASE UserEditsField
      BY <2>2 DEF UserEditsField, vars, ScalingInv, Wanted, Held
    <2>3. CASE OthersEditField
      BY <2>3 DEF OthersEditField, vars, ScalingInv, Wanted, Held
    <2>4. CASE (UserEdits \/ OthersScale) /\ UNCHANGED <<field, want, have>>
      <3>1. ScalingInv' /\ UNCHANGED <<kind, field, want, have>>
        BY <2>4, SizedKept DEF Next, UserEdits, OthersScale
      <3> QED
        BY <3>1 DEF Wanted, Held
    <2>5. CASE UNCHANGED driftVars
      BY <2>5 DEF driftVars, vars, ScalingInv, Wanted, Held
    <2> QED
      BY <2>1, <2>2, <2>3, <2>4, <2>5 DEF DriftNext
  <1> QED
    BY <1>1, <1>2, PTL DEF DriftSpec

\* What OCM has after an update that sends the field is read back as the spec.
LEMMA FieldRoundTrip ==
    ASSUME DriftInv, Update, Settling PROVE FieldInDesiredState'
  <1> USE DEF DriftInv
  <1>1. UNCHANGED <<kind, field, want>> /\ have' = Patched(BuildField(want))
    BY DEF Update
  <1>2. kind \in {"MachinePool", "NodePool", "ROSACluster"} /\ field \in Fields[kind]
    BY DEF ScalingInv
  <1>3. CASE field = "spot"
    <2>1. CASE kind = "NodePool"
      <3>1. BuildField(want) = {}
        BY <1>3, <2>1, Zenon DEF BuildField
      <3>2. have = NoSpot
        BY <1>3, <2>1 DEF Held
      <3>3. have' = NoSpot
        BY <1>1, <3>1, <3>2 DEF Patched
      <3> QED
        BY <1>1, <1>3, <2>1, <3>3 DEF FieldInDesiredState, CopyField, NoSpot
    <2>2. CASE kind # "NodePool"
      <3>1. want.enabled /\ want \in [enabled: BOOLEAN, price: 0 .. 1]
        BY <1>3, <2>2, SpotFacts, Zenon
      <3>2. have' = CHOOSE v \in {[want EXCEPT !.price = 2 * want.price]} : TRUE
        BY <1>1, <1>3, <2>2, <3>1, SpotFacts, Zenon DEF Patched
      <3>3. [have' EXCEPT !.price = have'.price \div 2] = want
        BY <3>1, <3>2, OneChosen, SpotRoundTrip, Zenon
      <3> QED
        BY <1>1, <1>3, <2>2, <3>3, Zenon DEF FieldInDesiredState, CopyField
    <2> QED
      BY <2>1, <2>2
  <1>4. CASE field \in {"version", "accountRolesPrefix"}
    <2>1. have' = have
      BY <1>1, <1>4 DEF Patched
    <2>2. CASE field = "version"
      BY <1>1, <2>1, <2>2 DEF Settling, FieldInDesiredState, CopyField
    <2>3. CASE field = "accountRolesPrefix"
      BY <1>1, <2>1, <2>3 DEF Settling, FieldInDesiredState, CopyField
    <2> QED
      BY <1>4, <2>2, <2>3
  <1>5. CASE field \in {"labels", "taints", "optional", "tags"}
    BY <1>1, <1>2, <1>5, FieldKinds, OneChosen
       DEF Patched, BuildField, Settling, FieldInDesiredState, CopyField, Wanted, Held
  <1> QED
    BY <1>2, <1>3, <1>4, <1>5, FieldKinds

\* One update brings the nodes and the field to rest, whatever the user and other
\* tools did to either: the builders send what CopyFrom will read back.
THEOREM DriftSettles == DriftSpec => Settles /\ FieldSettles
  <1>1. DriftInv /\ [DriftNext]_driftVars
          => [Update /\ Settling => FieldInDesiredState']_driftVars
    BY FieldRoundTrip
  <1>2. DriftInv => [Apply /\ Exact => InDesiredState']_vars
    BY ApplySettles DEF DriftInv
  <1> QED
    BY <1>1, <1>2, SpecDrift, PTL DEF DriftSpec, Settles, FieldSettles

\* A reconciler that sees no difference is right about the nodes and the field:
\* CopyFrom and desired hide nothing the builder would send, but for a price
\* that is not a whole number of dollars.
THEOREM DriftCalm == DriftSpec => [](NoFalseCalm /\ NoFalseCalmField)
  <1>1. DriftInv => NoFalseCalmField
    <2> SUFFICES ASSUME DriftInv, FieldInDesiredState, field = "spot" => have.price % 2 = 0
                 PROVE  BuildField(want) \subseteq {have}
      BY DEF NoFalseCalmField
    <2> USE DEF DriftInv
    <2>1. kind \in {"MachinePool", "NodePool", "ROSACluster"} /\ field \in Fields[kind]
      BY DEF ScalingInv
    <2>2. CASE field = "spot"
      <3> SUFFICES ASSUME kind # "NodePool", want.enabled
                   PROVE  [want EXCEPT !.price = 2 * @] = have
        BY <2>2 DEF BuildField
      <3>1. have = NoSpot \/ have \in [enabled: {TRUE}, price: 0 .. 3]
        BY <2>2 DEF Held
      <3>2. have.price \in Nat /\ have = [enabled |-> have.enabled, price |-> have.price]
        <4>1. CASE have = NoSpot
          BY <4>1 DEF NoSpot
        <4>2. CASE have \in [enabled: {TRUE}, price: 0 .. 3]
          BY <4>2
        <4> QED
          BY <3>1, <4>1, <4>2
      <3>3. [have EXCEPT !.price = @ \div 2] = want
        BY <2>2 DEF FieldInDesiredState, CopyField
      <3>4. have.price = 2 * (have.price \div 2)
        BY <2>2, <3>2
      <3> QED
        BY <3>2, <3>3, <3>4
    <2>3. CASE field \in {"version", "accountRolesPrefix"}
      <3>1. have = want /\ want \notin {"unset", "empty"}
        BY <2>3 DEF FieldInDesiredState, CopyField, Wanted
      <3> QED
        BY <2>3, <3>1 DEF BuildField
    <2>4. CASE field \in {"labels", "taints", "optional", "tags"}
      BY <2>1, <2>4, FieldKinds DEF BuildField, FieldInDesiredState, CopyField, Wanted, Held
    <2> QED
      BY <2>1, <2>2, <2>3, <2>4, FieldKinds
  <1> QED
    BY <1>1, SizedCalm, SpecDrift, PTL DEF DriftInv
=============================================================================
