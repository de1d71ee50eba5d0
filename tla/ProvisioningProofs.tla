------------------------- MODULE ProvisioningProofs -------------------------
(***************************************************************************)
(* Proofs about Provisioning, for any number of clusters, operator roles   *)
(* and catalogs: its types, that no key is lost, that a cluster has the    *)
(* roles it needs and that a released object leaves none.                  *)
(***************************************************************************)
EXTENDS Provisioning, SequenceTheorems, FiniteSetTheorems, TLAPS

-----------------------------------------------------------------------------
(* Sequences and listings *)

\* The elements of a sequence are its head and those of its tail.
LEMMA RangeHeadTail ==
    ASSUME NEW S, NEW s \in Seq(S), s # <<>>
    PROVE  /\ Head(s) \in S /\ Tail(s) \in Seq(S)
           /\ Range(s) = {Head(s)} \cup Range(Tail(s))
           /\ IsInjective(s) => IsInjective(Tail(s)) /\ Head(s) \notin Range(Tail(s))
<1>1. /\ Head(s) \in S /\ Tail(s) \in Seq(S) /\ Len(Tail(s)) = Len(s) - 1
      /\ \A i \in 1 .. Len(Tail(s)) : Tail(s)[i] = s[i + 1]
  BY HeadTailProperties
<1>2. Head(s) = s[1] /\ Len(s) \in Nat \ {0} /\ DOMAIN s = 1 .. Len(s)
  BY EmptySeq, LenProperties
<1>3. DOMAIN Tail(s) = 1 .. Len(Tail(s))
  BY <1>1, LenProperties
<1>4. Range(s) = {Head(s)} \cup Range(Tail(s))
  <2>1. ASSUME NEW x \in Range(s) PROVE x \in {Head(s)} \cup Range(Tail(s))
    <3>1. PICK i \in 1 .. Len(s) : x = s[i]
      BY <1>2 DEF Range
    <3>2. CASE i = 1
      BY <3>1, <3>2, <1>2
    <3>3. CASE i # 1
      <4>1. i - 1 \in 1 .. Len(Tail(s)) /\ Tail(s)[i - 1] = s[i]
        BY <3>3, <1>1, <1>2
      <4> QED BY <4>1, <3>1, <1>3 DEF Range
    <3> QED BY <3>2, <3>3
  <2>2. ASSUME NEW x \in Range(Tail(s)) PROVE x \in Range(s)
    <3>1. PICK i \in 1 .. Len(Tail(s)) : x = Tail(s)[i]
      BY <1>3 DEF Range
    <3>2. i + 1 \in 1 .. Len(s) /\ x = s[i + 1]
      BY <3>1, <1>1, <1>2
    <3> QED BY <3>2, <1>2 DEF Range
  <2>3. Head(s) \in Range(s)
    <3>1. 1 \in 1 .. Len(s)
      BY <1>2
    <3> QED BY <3>1, <1>2 DEF Range
  <2> QED BY <2>1, <2>2, <2>3
<1>5. ASSUME IsInjective(s) PROVE IsInjective(Tail(s)) /\ Head(s) \notin Range(Tail(s))
  <2>1. \A a, b \in 1 .. Len(s) : s[a] = s[b] => a = b
    BY <1>5, <1>2 DEF IsInjective
  <2>2. \A i \in 1 .. Len(Tail(s)) : i + 1 \in 1 .. Len(s) /\ i + 1 # 1 /\ i \in Int
    BY <1>1, <1>2
  <2>3. 1 \in 1 .. Len(s)
    BY <1>2
  <2>4. \A a, b \in 1 .. Len(Tail(s)) : Tail(s)[a] = Tail(s)[b] => a = b
    BY <2>1, <2>2, <1>1
  <2>5. \A i \in 1 .. Len(Tail(s)) : Tail(s)[i] # s[1]
    BY <2>1, <2>2, <2>3, <1>1
  <2> QED BY <2>4, <2>5, <1>2, <1>3 DEF IsInjective, Range
<1> QED BY <1>1, <1>4, <1>5

\* Append adds one element.
LEMMA RangeAppend ==
    ASSUME NEW S, NEW s \in Seq(S), NEW x \in S
    PROVE  /\ Append(s, x) \in Seq(S)
           /\ Range(Append(s, x)) = Range(s) \cup {x}
           /\ IsInjective(s) /\ x \notin Range(s) => IsInjective(Append(s, x))
<1> DEFINE t == Append(s, x)
<1>1. /\ t \in Seq(S) /\ Len(t) = Len(s) + 1
      /\ \A i \in 1 .. Len(s) : t[i] = s[i]
      /\ t[Len(s) + 1] = x
  BY AppendProperties
<1>2. Len(s) \in Nat /\ DOMAIN s = 1 .. Len(s) /\ DOMAIN t = 1 .. Len(s) + 1
  BY <1>1, LenProperties
<1> HIDE DEF t
<1>3. \A i \in 1 .. Len(s) + 1 : i \in 1 .. Len(s) \/ i = Len(s) + 1
  BY <1>2
<1>4. \A i \in 1 .. Len(s) : i \in 1 .. Len(s) + 1
  BY <1>2
<1>5. Len(s) + 1 \in 1 .. Len(s) + 1
  BY <1>2
<1>6. Range(t) = Range(s) \cup {x}
  BY <1>1, <1>2, <1>3, <1>4, <1>5, Zenon DEF Range
<1>7. ASSUME IsInjective(s), x \notin Range(s) PROVE IsInjective(t)
  <2>1. \A a, b \in 1 .. Len(s) : s[a] = s[b] => a = b
    BY <1>7, <1>2 DEF IsInjective
  <2>2. \A a \in 1 .. Len(s) : s[a] # x
    BY <1>7, <1>2 DEF Range
  <2> SUFFICES ASSUME NEW a \in 1 .. Len(s) + 1, NEW b \in 1 .. Len(s) + 1, t[a] = t[b]
               PROVE  a = b
    BY <1>2 DEF IsInjective
  <2> QED BY <2>1, <2>2, <1>1, <1>3
<1> QED BY <1>1, <1>6, <1>7 DEF t

\* A listing of a finite set is a sequence with each of its elements once.
LEMMA ListingIsSeq ==
    ASSUME NEW S, IsFiniteSet(S), NEW s \in Listings(S)
    PROVE  s \in Seq(S) /\ Range(s) = S /\ IsInjective(s)
<1>1. Cardinality(S) \in Nat
  BY FS_CardinalityType
<1>2. /\ s \in [1 .. Cardinality(S) -> S] /\ IsInjective(s)
      /\ \A t \in S : \E i \in 1 .. Cardinality(S) : s[i] = t
  BY DEF Listings, Bijection, Injection, Surjection, IsInjective
<1>3. s \in Seq(S)
  BY <1>1, <1>2, SeqDef
<1>4. Range(s) = S
  BY <1>2 DEF Range
<1> QED BY <1>2, <1>3, <1>4

\* There is a listing of every finite set.
LEMMA ListingExists ==
    ASSUME NEW S, IsFiniteSet(S)
    PROVE  (CHOOSE s \in Listings(S) : TRUE) \in Listings(S)
<1>1. Listings(S) # {}
  BY FS_CardinalityType DEF ExistsBijection, Listings
<1> QED BY <1>1

\* There are finitely many credential requests.
LEMMA RequestsFinite == IsFiniteSet(Range(Requests))
<1> DEFINE R == Range(Requests)
<1>1. Requests \in Seq(R)
  BY ProvisioningAssumption
<1>2. Len(Requests) \in Nat /\ Requests \in [1 .. Len(Requests) -> R]
  BY <1>1, LenProperties
<1>3. Requests \in Surjection(1 .. Len(Requests), R)
  BY <1>2 DEF Surjection, Range
<1>4. ExistsSurjection(1 .. Len(Requests), R)
  BY <1>3 DEF ExistsSurjection
<1> QED BY <1>2, <1>4, FS_NatSurjection

\* DestroyCluster lists the roles that exist.
LEMMA RolesListed ==
    ASSUME NEW S \in SUBSET Range(Requests), NEW list, list = CHOOSE s \in Listings(S) : TRUE
    PROVE  list \in Seq(S) /\ Range(list) = S
BY RequestsFinite, FS_Subset, ListingExists, ListingIsSeq

-----------------------------------------------------------------------------
(* Types *)

Looping == {"EnsurePolicy", "EnsureRole", "AttachRolePolicy"}

Creating ==
    Looping \cup {"WaitForThumbprint", "CreateOperatorRoles", "SaveRolesCreated", "CreateCluster"}

Deleting == {"DestroyCluster", "DeleteOperatorRoles"}

\* TypeOK is not inductive: what a step works on depends on pc.
Control ==
    /\ pc \in Looping => todo # <<>>
    /\ pc \in Creating => obj[key] # None /\ obj[key].finalizer
    /\ pc \in Deleting => obj[key] # None /\ obj[key].deleting
    /\ key # None => /\ version \in Versions
                     /\ obj[key] # None => obj[key].version = version
    /\ \A k \in Keys :
        obj[k] # None => obj[k].version \in {NoVersion, SpecVersion[k]} \/ SpecVersion[k] = NoVersion

Typed == TypeOK /\ Control

\* The end of a reconcile keeps the queue in order.
LEMMA DoneQueue ==
    ASSUME QueueOK, key # None, NEW requeue \in BOOLEAN, Done(requeue)
    PROVE  QueueOK'
<1>1. key \in Keys /\ queue \in Seq(Keys) /\ None \notin Keys
  BY ProvisioningAssumption DEF QueueOK
<1>2. queue' \in Seq(Keys) /\ IsInjective(queue')
  <2>1. CASE again
    BY <2>1, <1>1, RangeAppend DEF Done, QueueOK
  <2>2. CASE ~again
    BY <2>2, <1>1 DEF Done, QueueOK
  <2> QED BY <2>1, <2>2
<1>3. Range(queue') \subseteq Keys
  BY <1>2, RangeOfSeq
<1>4. key' = None /\ pc' = "Idle" /\ again' = FALSE /\ delayed' \subseteq Keys
  BY <1>1 DEF Done, QueueOK
<1> QED BY <1>1, <1>2, <1>3, <1>4 DEF QueueOK

\* So does a key that is added.
LEMMA AddQueue ==
    ASSUME QueueOK, NEW k \in Keys, Add(k), UNCHANGED <<key, pc>>, delayed' \subseteq Keys
    PROVE  QueueOK'
<1>1. CASE k = key
  BY <1>1 DEF Add, QueueOK
<1>2. CASE k # key /\ k \in Range(queue)
  BY <1>2 DEF Add, QueueOK
<1>3. CASE k # key /\ k \notin Range(queue)
  <2>1. queue' = Append(queue, k) /\ again' = again
    BY <1>3 DEF Add
  <2>2. queue' \in Seq(Keys) /\ IsInjective(queue') /\ key \notin Range(queue')
    BY <2>1, <1>3, RangeAppend DEF QueueOK
  <2> QED BY <2>1, <2>2 DEF QueueOK
<1> QED BY <1>1, <1>2, <1>3

LEMMA GotoQueue ==
    ASSUME QueueOK, key # None, NEW next, next # "Idle", Goto(next)
    PROVE  QueueOK'
BY DEF QueueOK, Goto

\* What Done leaves of the request has its type.
LEMMA ResetTyped ==
    NoVersion \in Versions \cup {NoVersion} /\ 0 \in 0 .. Patience /\ <<>> \in Seq(Range(Requests))
BY ProvisioningAssumption, EmptySeq

\* The types and Control hold initially.
LEMMA TypedInit == Init => Typed
<1> SUFFICES ASSUME Init PROVE Typed
  OBVIOUS
<1>1. queue \in Seq(Keys) /\ IsInjective(queue) /\ None \notin Range(queue)
  BY ListingIsSeq, ProvisioningAssumption DEF Init
<1>2. QueueOK
  BY <1>1 DEF Init, QueueOK
<1>3. NewObject \in Objects /\ NewObject # None /\ NewObject.version = NoVersion
  <2>1. NewObject \in Objects /\ NewObject.version = NoVersion
    BY DEF NewObject, Objects
  <2> QED BY <2>1, ProvisioningAssumption
<1>4. NoRole \in Roles
  BY DEF NoRole, Roles, Stages
<1>5. 1 \in 1 .. Len(Catalogs)
  BY ProvisioningAssumption, EmptySeq
<1>6. TypeOK
  BY <1>2, <1>3, <1>4, <1>5, ProvisioningAssumption, EmptySeq DEF Init, TypeOK
<1>7. Control
  BY <1>3 DEF Init, Control, Looping, Creating, Deleting
<1> QED BY <1>6, <1>7 DEF Typed

\* A patch that sets a field of an object keeps its type, its version and what was set.
LEMMA ObjectPatched ==
    ASSUME TypeOK, NEW k \in Keys, obj[k] # None,
           obj' \in {[obj EXCEPT ![k].deleting = TRUE], [obj EXCEPT ![k].finalizer = TRUE],
                     [obj EXCEPT ![k].provider = TRUE], [obj EXCEPT ![k].rolesCreated = TRUE],
                     [obj EXCEPT ![k].created = TRUE]}
    PROVE  /\ obj' \in [Keys -> Objects \cup {None}]
           /\ obj'[k] # None /\ obj'[k].version = obj[k].version
           /\ obj[k].finalizer => obj'[k].finalizer
           /\ obj[k].deleting => obj'[k].deleting
           /\ \A j \in Keys \ {k} : obj'[j] = obj[j]
<1>1. obj[k] \in Objects /\ obj \in [Keys -> Objects \cup {None}]
  BY DEF TypeOK
<1>2. PICK new \in {[obj[k] EXCEPT !.deleting = TRUE], [obj[k] EXCEPT !.finalizer = TRUE],
                     [obj[k] EXCEPT !.provider = TRUE], [obj[k] EXCEPT !.rolesCreated = TRUE],
                     [obj[k] EXCEPT !.created = TRUE]} :
        obj' = [obj EXCEPT ![k] = new]
  BY <1>1
<1>3. /\ new \in Objects /\ new.version = obj[k].version
      /\ obj[k].finalizer => new.finalizer
      /\ obj[k].deleting => new.deleting
  BY <1>1 DEF Objects
<1>4. new # None
  BY <1>3, ProvisioningAssumption
<1> QED BY <1>1, <1>2, <1>3, <1>4

\* A step that changes one role leaves the others.
LEMMA RolePatched ==
    ASSUME TypeOK, NEW k \in Keys, NEW r \in Range(Requests), NEW role \in Roles,
           roles' = [roles EXCEPT ![k][r] = role]
    PROVE  /\ roles' \in [Keys -> [Range(Requests) -> Roles]]
           /\ roles'[k][r] = role
           /\ \A q \in Range(Requests) \ {r} : roles'[k][q] = roles[k][q]
           /\ \A j \in Keys \ {k} : roles'[j] = roles[j]
<1> DEFINE row == [roles[k] EXCEPT ![r] = role]
<1>1. roles \in [Keys -> [Range(Requests) -> Roles]]
  BY DEF TypeOK
<1>2. roles[k] \in [Range(Requests) -> Roles]
  BY <1>1
<1>3. /\ row \in [Range(Requests) -> Roles] /\ row[r] = role
      /\ \A q \in Range(Requests) \ {r} : row[q] = roles[k][q]
  BY <1>2
<1>4. roles' = [roles EXCEPT ![k] = row]
  OBVIOUS
<1> HIDE DEF row
<1> QED BY <1>1, <1>3, <1>4

LEMMA StagePatched ==
    ASSUME TypeOK, NEW k \in Keys, NEW r \in Range(Requests), NEW stage \in Stages,
           roles' = [roles EXCEPT ![k][r].stage = stage]
    PROVE  /\ roles' \in [Keys -> [Range(Requests) -> Roles]]
           /\ roles'[k][r] = [stage |-> stage, tag |-> roles[k][r].tag]
           /\ \A q \in Range(Requests) \ {r} : roles'[k][q] = roles[k][q]
           /\ \A j \in Keys \ {k} : roles'[j] = roles[j]
<1>1. roles[k][r] \in Roles
  BY DEF TypeOK
<1>2. /\ [stage |-> stage, tag |-> roles[k][r].tag] \in Roles
      /\ [roles[k][r] EXCEPT !.stage = stage] = [stage |-> stage, tag |-> roles[k][r].tag]
  BY <1>1 DEF Roles
<1> DEFINE row == [roles[k] EXCEPT ![r] = [roles[k][r] EXCEPT !.stage = stage]]
<1>3. roles \in [Keys -> [Range(Requests) -> Roles]] /\ roles[k] \in [Range(Requests) -> Roles]
  BY DEF TypeOK
<1>4. /\ row \in [Range(Requests) -> Roles]
      /\ row[r] = [stage |-> stage, tag |-> roles[k][r].tag]
      /\ \A q \in Range(Requests) \ {r} : row[q] = roles[k][q]
  BY <1>2, <1>3
<1>5. roles' = [roles EXCEPT ![k] = row]
  OBVIOUS
<1> HIDE DEF row
<1> QED BY <1>3, <1>4, <1>5

\* The steps of the creation keep Typed.
LEMMA TypedCreation ==
    ASSUME Typed,
           \/ ApplyCluster \/ Tick \/ Timeout \/ CreateOperatorRoles \/ EnsurePolicy
           \/ EnsureRole \/ AttachRolePolicy \/ SaveRolesCreated \/ CreateCluster
    PROVE  Typed'
<1> USE DEF Typed, cloud
<1>0. key \in Keys /\ key # None /\ QueueOK /\ version \in Versions
  BY DEF TypeOK, QueueOK, Control, ApplyCluster, Tick, Timeout, CreateOperatorRoles,
         EnsurePolicy, EnsureRole, AttachRolePolicy, SaveRolesCreated, CreateCluster
<1>1. CASE ApplyCluster
  <2>1. QueueOK'
    BY <1>0, <1>1, DoneQueue, GotoQueue DEF ApplyCluster
  <2>2. CASE obj[key] = None
    <3>1. TypeOK'
      BY <1>1, <2>1, <2>2, ResetTyped DEF TypeOK, ApplyCluster, Done
    <3>2. Control'
      BY <1>1, <2>2 DEF Control, ApplyCluster, Done, Looping, Creating, Deleting
    <3> QED BY <3>1, <3>2
  <2>3. CASE obj[key] # None
    <3>1. obj' = [obj EXCEPT ![key].finalizer = TRUE]
      BY <1>1, <2>3 DEF ApplyCluster
    <3>2. /\ obj' \in [Keys -> Objects \cup {None}]
          /\ obj'[key] # None /\ obj'[key].version = obj[key].version
          /\ \A k \in Keys \ {key} : obj'[k] = obj[k]
      BY <1>0, <2>3, <3>1, ObjectPatched
    <3>3. obj'[key].finalizer
      <4>1. obj[key] \in Objects /\ obj'[key] = [obj[key] EXCEPT !.finalizer = TRUE]
        BY <1>0, <2>3, <3>1 DEF TypeOK
      <4> QED BY <4>1 DEF Objects
    <3>4. TypeOK'
      <4>1. /\ version' \in Versions \cup {NoVersion} /\ waited' \in 0 .. Patience
            /\ todo' \in Seq(Range(Requests))
        <5>1. \/ UNCHANGED <<version, waited, todo>>
              \/ version' = NoVersion /\ waited' = 0 /\ todo' = <<>>
          BY <1>1, <2>3 DEF ApplyCluster, Done
        <5> QED BY <5>1, ResetTyped DEF TypeOK
      <4> QED BY <1>1, <2>1, <3>2, <4>1 DEF TypeOK, ApplyCluster
    <3>5. Control'
      <4>1. CASE key' = None
        BY <1>0, <1>1, <2>3, <3>2, <4>1
        DEF Control, ApplyCluster, Goto, Done, Looping, Creating, Deleting
      <4>2. CASE key' # None
        BY <1>0, <1>1, <2>3, <3>2, <3>3, <4>2
        DEF Control, ApplyCluster, Goto, Done, Looping, Creating, Deleting
      <4> QED BY <4>1, <4>2
    <3> QED BY <3>4, <3>5
  <2> QED BY <2>2, <2>3
<1>2. CASE Tick
  <2>1. QueueOK'
    BY <1>0, <1>2, GotoQueue DEF Tick, QueueOK
  <2>2. obj[key] # None /\ obj[key].finalizer
    BY <1>2 DEF Control, Creating, Tick
  <2>3. /\ obj' \in [Keys -> Objects \cup {None}]
        /\ obj'[key] # None /\ obj'[key].version = obj[key].version /\ obj'[key].finalizer
        /\ \A k \in Keys \ {key} : obj'[k] = obj[k]
    <3>1. CASE key \in issuers
      BY <1>0, <1>2, <2>2, <3>1, ObjectPatched DEF Tick
    <3>2. CASE key \notin issuers
      BY <1>2, <2>2, <3>2 DEF Tick, TypeOK
    <3> QED BY <3>1, <3>2
  <2>4. TypeOK'
    BY <1>2, <2>1, <2>3, ProvisioningAssumption DEF TypeOK, Tick, Goto
  <2>5. Control'
    BY <1>0, <1>2, <2>3 DEF Control, Tick, Goto, Looping, Creating, Deleting
  <2> QED BY <2>4, <2>5
<1>3. CASE Timeout
  <2>1. QueueOK'
    BY <1>0, <1>3, DoneQueue DEF Timeout
  <2>2. TypeOK'
    BY <1>3, <2>1, ResetTyped DEF TypeOK, Timeout, Done
  <2>3. Control'
    BY <1>3 DEF Control, Timeout, Done, Looping, Creating, Deleting
  <2> QED BY <2>2, <2>3
<1>4. CASE CreateOperatorRoles
  <2>1. QueueOK'
    BY <1>0, <1>4, GotoQueue DEF CreateOperatorRoles, NextRole
  <2>2. TypeOK'
    BY <1>4, <2>1, ProvisioningAssumption DEF TypeOK, CreateOperatorRoles, Goto
  <2>3. Control'
    BY <1>4, ProvisioningAssumption
    DEF Control, CreateOperatorRoles, NextRole, Goto, Looping, Creating, Deleting
  <2> QED BY <2>2, <2>3
<1>5. CASE EnsurePolicy
  <2>1. QueueOK'
    BY <1>0, <1>5, GotoQueue DEF EnsurePolicy
  <2>2. Head(todo) \in Range(Requests)
    BY <1>5, RangeHeadTail DEF TypeOK, Control, EnsurePolicy, Looping
  <2>3. TypeOK'
    <3>1. roles' \in [Keys -> [Range(Requests) -> Roles]]
      <4>1. CASE Stage(Head(todo)) = "none"
        BY <1>0, <1>5, <2>2, <4>1, StagePatched DEF EnsurePolicy, Stages
      <4>2. CASE Stage(Head(todo)) # "none"
        BY <1>5, <4>2 DEF EnsurePolicy, TypeOK
      <4> QED BY <4>1, <4>2
    <3> QED BY <1>5, <2>1, <3>1 DEF TypeOK, EnsurePolicy, Goto
  <2>4. Control'
    BY <1>5 DEF Control, EnsurePolicy, Goto, Looping, Creating, Deleting
  <2> QED BY <2>3, <2>4
<1>6. CASE EnsureRole
  <2>1. QueueOK'
    BY <1>0, <1>6, GotoQueue DEF EnsureRole
  <2>2. Head(todo) \in Range(Requests)
    BY <1>6, RangeHeadTail DEF TypeOK, Control, EnsureRole, Looping
  <2>3. MajorMinor(version) \in Nat
    BY <1>0, ProvisioningAssumption DEF MajorMinor
  <2>4. TypeOK'
    BY <1>0, <1>6, <2>1, <2>2, <2>3 DEF TypeOK, EnsureRole, Goto, Roles, Stages
  <2>5. Control'
    BY <1>6 DEF Control, EnsureRole, Goto, Looping, Creating, Deleting
  <2> QED BY <2>4, <2>5
<1>7. CASE AttachRolePolicy
  <2>1. QueueOK'
    BY <1>0, <1>7, GotoQueue DEF AttachRolePolicy, NextRole
  <2>2. Head(todo) \in Range(Requests) /\ Tail(todo) \in Seq(Range(Requests))
    BY <1>7, RangeHeadTail DEF TypeOK, Control, AttachRolePolicy, Looping
  <2>3. TypeOK'
    <3>1. roles' \in [Keys -> [Range(Requests) -> Roles]]
      BY <1>0, <1>7, <2>2, StagePatched DEF AttachRolePolicy, Stages
    <3> QED BY <1>7, <2>1, <2>2, <3>1 DEF TypeOK, AttachRolePolicy, Goto
  <2>4. Control'
    BY <1>7 DEF Control, AttachRolePolicy, NextRole, Goto, Looping, Creating, Deleting
  <2> QED BY <2>3, <2>4
<1>8. CASE SaveRolesCreated
  <2>1. QueueOK'
    BY <1>0, <1>8, GotoQueue DEF SaveRolesCreated
  <2>2. obj[key] # None /\ obj[key].finalizer
    BY <1>8 DEF Control, Creating, SaveRolesCreated
  <2>3. /\ obj' \in [Keys -> Objects \cup {None}]
        /\ obj'[key] # None /\ obj'[key].version = obj[key].version /\ obj'[key].finalizer
        /\ \A k \in Keys \ {key} : obj'[k] = obj[k]
    BY <1>0, <1>8, <2>2, ObjectPatched DEF SaveRolesCreated
  <2>4. TypeOK'
    BY <1>8, <2>1, <2>3 DEF TypeOK, SaveRolesCreated, Goto
  <2>5. Control'
    BY <1>0, <1>8, <2>3 DEF Control, SaveRolesCreated, Goto, Looping, Creating, Deleting
  <2> QED BY <2>4, <2>5
<1>9. CASE CreateCluster
  <2>1. QueueOK'
    BY <1>0, <1>9, DoneQueue DEF CreateCluster
  <2>2. obj[key] # None
    BY <1>9 DEF Control, Creating, CreateCluster
  <2>3. /\ obj' \in [Keys -> Objects \cup {None}]
        /\ obj'[key] # None /\ obj'[key].version = obj[key].version
        /\ \A k \in Keys \ {key} : obj'[k] = obj[k]
    <3>1. CASE key \in WithSubnets /\ client # Region[key]
      BY <1>9, <2>2, <3>1 DEF CreateCluster, TypeOK
    <3>2. CASE ~(key \in WithSubnets /\ client # Region[key])
      BY <1>0, <1>9, <2>2, <3>2, ObjectPatched DEF CreateCluster
    <3> QED BY <3>1, <3>2
  <2>4. cluster' \in [Keys -> Clusters \cup {None}]
    <3>1. [version |-> obj[key].version, state |-> "live"] \in Clusters
      BY <1>0, <2>2 DEF Control, Clusters
    <3> QED BY <1>9, <3>1 DEF CreateCluster, TypeOK
  <2>5. TypeOK'
    BY <1>9, <2>1, <2>3, <2>4, ResetTyped DEF TypeOK, CreateCluster, Done
  <2>6. Control'
    BY <1>0, <1>9, <2>3 DEF Control, CreateCluster, Done, Looping, Creating, Deleting
  <2> QED BY <2>5, <2>6
<1> QED BY <1>1, <1>2, <1>3, <1>4, <1>5, <1>6, <1>7, <1>8, <1>9

\* So does the start of a reconcile: the version is the one stored, or is stored now.
LEMMA TypedNewRequest == ASSUME Typed, NewRequest PROVE Typed'
<1> USE DEF Typed
<1> DEFINE k == Head(queue)
           v == VersionOf(k)
<1>1. /\ key = None /\ k \in Keys /\ queue' = Tail(queue)
      /\ queue' \in Seq(Keys) /\ IsInjective(queue') /\ k \notin Range(queue')
      /\ Range(queue') \subseteq Keys
  <2>1. queue \in Seq(Keys) /\ IsInjective(queue) /\ queue # <<>> /\ queue' = Tail(queue) /\ key = None
    BY DEF TypeOK, QueueOK, NewRequest
  <2> QED BY <2>1, RangeHeadTail, RangeOfSeq
<1>2. offered \subseteq Versions
  <2>1. Catalogs[catalog] \in [offered: SUBSET Versions, defaults: SUBSET Versions]
    BY ProvisioningAssumption, ElementOfSeq DEF TypeOK
  <2> QED BY <2>1 DEF offered
<1>3. CASE obj[k] # None /\ v \in offered
  <2>1. /\ key' = k /\ version' = v /\ pc' = IF obj[k].deleting THEN "DestroyCluster" ELSE "ApplyCluster"
        /\ obj' = IF obj[k].version = NoVersion THEN [obj EXCEPT ![k].version = v] ELSE obj
        /\ client' = IF client = None THEN Region[k] ELSE client
        /\ UNCHANGED <<delayed, again, waited, todo, catalog, issuers, roles, cluster>>
    BY <1>3 DEF NewRequest, Setup, cloud
  <2>2. v \in Versions /\ k # None
    BY <1>1, <1>2, <1>3, ProvisioningAssumption
  <2>3. obj[k] \in Objects /\ obj \in [Keys -> Objects \cup {None}]
    BY <1>1, <1>3 DEF TypeOK
  <2>4. obj[k].version # NoVersion => v = obj[k].version
    BY <1>1, <1>3 DEF Control, VersionOf
  <2>5. SpecVersion[k] # NoVersion => v = SpecVersion[k]
    BY DEF VersionOf
  <2> HIDE DEF v, k
  <2>6. /\ obj' \in [Keys -> Objects \cup {None}] /\ obj'[k] # None
        /\ obj'[k].version = v /\ obj'[k].deleting = obj[k].deleting
        /\ \A j \in Keys \ {k} : obj'[j] = obj[j]
    <3>1. CASE obj[k].version = NoVersion
      <4>1. [obj[k] EXCEPT !.version = v] \in Objects
        BY <2>2, <2>3 DEF Objects
      <4>2. obj' = [obj EXCEPT ![k] = [obj[k] EXCEPT !.version = v]]
        BY <2>1, <3>1
      <4>3. [obj[k] EXCEPT !.version = v] # None
        BY <4>1, ProvisioningAssumption
      <4>4. /\ [obj[k] EXCEPT !.version = v].version = v
            /\ [obj[k] EXCEPT !.version = v].deleting = obj[k].deleting
        BY <2>3 DEF Objects
      <4> QED BY <1>1, <2>3, <4>1, <4>2, <4>3, <4>4
    <3>2. CASE obj[k].version # NoVersion
      BY <1>1, <1>3, <2>1, <2>3, <2>4, <3>2
    <3> QED BY <3>1, <3>2
  <2>7. QueueOK'
    BY <1>1, <2>1, <2>2 DEF TypeOK, QueueOK
  <2>8. client' \in Range(Region) \cup {None}
    BY <1>1, <2>1, ProvisioningAssumption DEF TypeOK, Range
  <2>9. TypeOK'
    BY <2>1, <2>2, <2>6, <2>7, <2>8 DEF TypeOK
  <2>10. Control'
    BY <1>1, <2>1, <2>2, <2>5, <2>6 DEF Control, Looping, Creating, Deleting
  <2> QED BY <2>9, <2>10
<1>4. CASE ~(obj[k] # None /\ v \in offered)
  <2>1. /\ delayed' = IF obj[k] = None THEN delayed ELSE delayed \cup {k}
        /\ UNCHANGED <<key, version, pc, obj, client, again, waited, todo, catalog, issuers, roles, cluster>>
    BY <1>4 DEF NewRequest, cloud
  <2>2. QueueOK'
    BY <1>1, <2>1, ProvisioningAssumption DEF TypeOK, QueueOK
  <2>3. TypeOK'
    BY <2>1, <2>2 DEF TypeOK
  <2>4. Control'
    BY <2>1 DEF Control
  <2> QED BY <2>3, <2>4
<1> QED BY <1>3, <1>4

\* And the steps of the deletion.
LEMMA TypedDeletion ==
    ASSUME Typed, DestroyCluster \/ DeleteOperatorRoles \/ CompleteDestroy
    PROVE  Typed'
<1> USE DEF Typed, cloud
<1>0. key \in Keys /\ key # None /\ QueueOK
  BY DEF TypeOK, QueueOK, DestroyCluster, DeleteOperatorRoles, CompleteDestroy
<1>1. CASE DestroyCluster
  <2>1. QueueOK'
    BY <1>0, <1>1, DoneQueue, GotoQueue DEF DestroyCluster
  <2>2. cluster' \in [Keys -> Clusters \cup {None}]
    <3>1. CASE cluster[key] # None /\ obj[key].created
      <4>1. cluster[key] \in Clusters
        BY <1>0, <3>1 DEF TypeOK
      <4>2. [cluster[key] EXCEPT !.state = "uninstalling"] \in Clusters
        BY <4>1 DEF Clusters
      <4> QED BY <1>1, <3>1, <4>2 DEF DestroyCluster, TypeOK
    <3>2. CASE ~(cluster[key] # None /\ obj[key].created)
      BY <1>1, <3>2 DEF DestroyCluster, TypeOK
    <3> QED BY <3>1, <3>2
  <2>3. /\ todo' \in Seq(Range(Requests)) /\ waited' \in 0 .. Patience
        /\ version' \in Versions \cup {NoVersion}
    <3>1. CASE cluster[key] # None
      BY <1>1, <3>1, ResetTyped DEF DestroyCluster, Done
    <3>2. CASE cluster[key] = None
      BY <1>1, <3>2, RolesListed, SeqMonotonic DEF DestroyCluster, TypeOK
    <3> QED BY <3>1, <3>2
  <2>4. TypeOK'
    BY <1>1, <2>1, <2>2, <2>3 DEF TypeOK, DestroyCluster
  <2>5. Control'
    BY <1>1 DEF Control, DestroyCluster, Goto, Done, Looping, Creating, Deleting
  <2> QED BY <2>4, <2>5
<1>2. CASE DeleteOperatorRoles
  <2>1. QueueOK'
    BY <1>0, <1>2, GotoQueue DEF DeleteOperatorRoles
  <2>2. Head(todo) \in Range(Requests) /\ Tail(todo) \in Seq(Range(Requests))
    BY <1>2, RangeHeadTail DEF TypeOK, DeleteOperatorRoles
  <2>3. [stage |-> "policy", tag |-> 0] \in Roles /\ NoRole \in Roles
    BY DEF Roles, NoRole, Stages
  <2>4. roles' \in [Keys -> [Range(Requests) -> Roles]]
    BY <1>0, <1>2, <2>2, <2>3, RolePatched DEF DeleteOperatorRoles
  <2>5. TypeOK'
    BY <1>2, <2>1, <2>2, <2>4 DEF TypeOK, DeleteOperatorRoles
  <2>6. Control'
    BY <1>2 DEF Control, DeleteOperatorRoles, Goto, Looping, Creating, Deleting
  <2> QED BY <2>5, <2>6
<1>3. CASE CompleteDestroy
  <2>1. QueueOK'
    BY <1>0, <1>3, DoneQueue DEF CompleteDestroy
  <2>2. obj' = obj \/ obj' = [obj EXCEPT ![key] = None]
    BY <1>3 DEF CompleteDestroy
  <2>3. /\ version' = NoVersion /\ waited' = 0 /\ todo' = <<>> /\ pc' = "Idle" /\ key' = None
        /\ UNCHANGED <<client, catalog, issuers, roles, cluster>>
    BY <1>3 DEF CompleteDestroy, Done
  <2>4. TypeOK'
    <3>1. obj' \in [Keys -> Objects \cup {None}]
      BY <2>2 DEF TypeOK
    <3> QED BY <2>1, <2>3, <3>1, ResetTyped DEF TypeOK
  <2>5. Control'
    BY <2>2, <2>3 DEF TypeOK, Control, Looping, Creating, Deleting
  <2> QED BY <2>4, <2>5
<1> QED BY <1>1, <1>2, <1>3

\* And what goes on around the worker.
LEMMA TypedWorld ==
    ASSUME Typed, CallFails \/ Crash \/ World
    PROVE  Typed'
<1> USE DEF Typed, cloud, worker
<1>1. CASE CallFails
  <2>1. key \in Keys /\ key # None /\ QueueOK
    BY <1>1 DEF TypeOK, QueueOK, CallFails
  <2>2. QueueOK'
    BY <1>1, <2>1, DoneQueue DEF CallFails
  <2>3. TypeOK'
    BY <1>1, <2>2, ResetTyped DEF TypeOK, CallFails, Done
  <2>4. Control'
    BY <1>1 DEF Control, CallFails, Done, Looping, Creating, Deleting
  <2> QED BY <2>3, <2>4
<1>2. CASE Crash
  <2> DEFINE Left == {k \in Keys : obj[k] # None}
  <2>1. IsFiniteSet(Left) /\ queue' \in Listings(Left)
    BY <1>2, ProvisioningAssumption, FS_Subset DEF Crash
  <2>2. queue' \in Seq(Left) /\ Range(queue') = Left /\ IsInjective(queue')
    BY <2>1, ListingIsSeq
  <2>3. queue' \in Seq(Keys) /\ None \notin Range(queue')
    BY <2>2, SeqMonotonic, ProvisioningAssumption
  <2>4. QueueOK'
    BY <1>2, <2>2, <2>3 DEF QueueOK, Crash
  <2>5. TypeOK'
    BY <1>2, <2>4, ResetTyped DEF TypeOK, Crash
  <2>6. Control'
    BY <1>2 DEF Control, Crash, Looping, Creating, Deleting
  <2> QED BY <2>5, <2>6
<1>3. CASE CatalogChanges
  <2>1. catalog' \in 1 .. Len(Catalogs)
    <3>1. Len(Catalogs) \in Nat
      BY ProvisioningAssumption, LenProperties
    <3> QED BY <1>3, <3>1 DEF TypeOK, CatalogChanges
  <2>2. TypeOK'
    BY <1>3, <2>1 DEF TypeOK, QueueOK, CatalogChanges
  <2>3. Control'
    BY <1>3 DEF Control, CatalogChanges
  <2> QED BY <2>2, <2>3
<1>4. ASSUME NEW k \in Keys, TimerFires(k) PROVE Typed'
  <2>1. QueueOK'
    BY <1>4, AddQueue DEF TypeOK, QueueOK, TimerFires
  <2>2. TypeOK'
    BY <1>4, <2>1 DEF TypeOK, TimerFires
  <2>3. Control'
    BY <1>4 DEF Control, TimerFires
  <2> QED BY <2>2, <2>3
<1>5. ASSUME NEW k \in Keys, UserDeletes(k) PROVE Typed'
  <2>1. QueueOK'
    BY <1>5, AddQueue DEF TypeOK, QueueOK, UserDeletes
  <2>2. /\ obj[k] # None /\ ~obj[k].deleting
        /\ UNCHANGED <<delayed, key, pc, version, waited, todo, client, catalog, issuers, roles, cluster>>
    BY <1>5 DEF UserDeletes
  <2>3. CASE obj[k].finalizer
    <3>1. /\ obj' \in [Keys -> Objects \cup {None}]
          /\ obj'[k] # None /\ obj'[k].version = obj[k].version /\ obj'[k].finalizer
          /\ \A j \in Keys \ {k} : obj'[j] = obj[j]
      BY <1>5, <2>2, <2>3, ObjectPatched DEF UserDeletes
    <3>2. TypeOK'
      BY <2>1, <2>2, <3>1 DEF TypeOK
    <3>3. Control'
      BY <2>2, <3>1 DEF Control, TypeOK, QueueOK, Looping, Creating, Deleting
    <3> QED BY <3>2, <3>3
  <2>4. CASE ~obj[k].finalizer
    <3>1. obj' = [obj EXCEPT ![k] = None]
      BY <1>5, <2>4 DEF UserDeletes
    <3>2. TypeOK'
      BY <2>1, <2>2, <3>1 DEF TypeOK
    <3>3. Control'
      BY <2>2, <2>4, <3>1 DEF Control, TypeOK, QueueOK, Looping, Creating, Deleting
    <3> QED BY <3>2, <3>3
  <2> QED BY <2>3, <2>4
<1>6. ASSUME NEW k \in Keys, IssuerAnswers(k) PROVE Typed'
  <2>1. TypeOK'
    BY <1>6 DEF TypeOK, QueueOK, IssuerAnswers
  <2>2. Control'
    BY <1>6 DEF Control, IssuerAnswers
  <2> QED BY <2>1, <2>2
<1>7. ASSUME NEW k \in Keys, OCMUninstalls(k) PROVE Typed'
  <2>1. TypeOK'
    BY <1>7 DEF TypeOK, QueueOK, OCMUninstalls
  <2>2. Control'
    BY <1>7 DEF Control, OCMUninstalls
  <2> QED BY <2>1, <2>2
<1> QED BY <1>1, <1>2, <1>3, <1>4, <1>5, <1>6, <1>7 DEF World

LEMMA TypedStep == Typed /\ [Next]_vars => Typed'
<1> SUFFICES ASSUME Typed, [Next]_vars PROVE Typed'
  OBVIOUS
<1>1. CASE Next
  BY <1>1, TypedNewRequest, TypedCreation, TypedDeletion, TypedWorld DEF Next, Reconcile
<1>2. CASE UNCHANGED vars
  BY <1>2 DEF Typed, TypeOK, QueueOK, Control, vars, worker, cloud
<1> QED BY <1>1, <1>2

\* TypeOK is an invariant: in particular the queue holds no key twice, nor the one in
\* progress, whatever fails and whenever the manager restarts.
THEOREM TypeCorrect == Spec => []TypeOK
<1>1. Typed => TypeOK
  BY DEF Typed
<1> QED BY TypedInit, TypedStep, <1>1, PTL DEF Spec

-----------------------------------------------------------------------------
(* The operator roles *)

Exists(k, r) == roles[k][r].stage \in {"role", "attached"}

AllAttached(k) == \A r \in Range(Requests) : roles[k][r].stage = "attached"

\* A role belongs to an object that holds the finalizer and has stored the version the
\* role is tagged with.
RolesOwned ==
    \A k \in Keys, r \in Range(Requests) :
        Exists(k, r) => /\ obj[k] # None /\ obj[k].finalizer /\ obj[k].version # NoVersion
                        /\ roles[k][r].tag = MajorMinor(obj[k].version)

\* A cluster has its roles, and the version of its object.
ClusterServed ==
    \A k \in Keys : cluster[k] # None =>
        AllAttached(k) /\ obj[k] # None /\ cluster[k].version = obj[k].version

\* status.operatorRolesCreated can be trusted until the deletion begins; a reconcile that
\* started before the user deleted the object may still rely on it.
RolesCreatedTrue ==
    \A k \in Keys :
        /\ obj[k] # None /\ obj[k].rolesCreated
        /\ ~obj[k].deleting \/ (k = key /\ pc \notin Deleting)
        => AllAttached(k)

\* How far the loops are.
LoopProgress ==
    /\ pc \in Looping =>
        \A r \in Range(Requests) : roles[key][r].stage = "attached" \/ r \in Range(todo)
    /\ pc = "AttachRolePolicy" => Exists(key, Head(todo))
    /\ pc \in {"SaveRolesCreated", "CreateCluster"} => AllAttached(key)
    /\ pc = "DeleteOperatorRoles" =>
        /\ cluster[key] = None
        /\ \A r \in Range(Requests) : Exists(key, r) => r \in Range(todo)

RolesInv == RolesOwned /\ ClusterServed /\ RolesCreatedTrue /\ LoopProgress

LEMMA RolesInit == Init => RolesInv
BY DEF Init, RolesInv, RolesOwned, ClusterServed, RolesCreatedTrue, LoopProgress, Exists,
       NoRole, NewObject, Looping, Deleting

\* A cluster's object holds the finalizer: there is a request, and its role is owned.
LEMMA ServedOwned ==
    ASSUME RolesOwned, ClusterServed, NEW k \in Keys, cluster[k] # None
    PROVE  obj[k] # None /\ obj[k].finalizer /\ obj[k].version # NoVersion
<1>1. PICK r : r \in Range(Requests)
  <2>1. Requests \in Seq(Range(Requests)) /\ Requests # <<>>
    BY ProvisioningAssumption
  <2> QED BY <2>1, RangeHeadTail
<1>2. Exists(k, r)
  BY <1>1 DEF ClusterServed, AllAttached, Exists
<1> QED BY <1>1, <1>2 DEF RolesOwned

\* What a step must respect when it leaves the roles alone.
LEMMA OwnedKept ==
    ASSUME RolesInv, roles' = roles,
           \A k \in Keys :
               obj[k] # None /\ obj[k].finalizer /\ obj[k].version # NoVersion
               => obj'[k] # None /\ obj'[k].finalizer /\ obj'[k].version = obj[k].version,
           \A k \in Keys :
               cluster'[k] # None => cluster[k] # None /\ cluster'[k].version = cluster[k].version
    PROVE  RolesOwned' /\ ClusterServed'
<1>1. RolesOwned'
  BY DEF RolesInv, RolesOwned, Exists
<1>2. ClusterServed'
  BY ServedOwned DEF RolesInv, ClusterServed, AllAttached
<1> QED BY <1>1, <1>2

\* The steps that leave objects, roles and clusters alone.
LEMMA RolesQuiet ==
    ASSUME Typed, RolesInv, UNCHANGED <<obj, roles, cluster>>,
           \/ pc' = "Idle" /\ key' = None
           \/ UNCHANGED <<pc, key, todo>>
    PROVE  RolesInv'
<1>1. RolesOwned' /\ ClusterServed'
  BY OwnedKept
<1>2. RolesCreatedTrue'
  BY ProvisioningAssumption DEF RolesInv, RolesCreatedTrue, AllAttached
<1>3. LoopProgress'
  BY DEF RolesInv, LoopProgress, Looping, Exists, AllAttached
<1> QED BY <1>1, <1>2, <1>3 DEF RolesInv

\* The steps up to the creation of the roles.
LEMMA RolesBefore ==
    ASSUME Typed, RolesInv,
           \/ NewRequest \/ ApplyCluster \/ Tick \/ Timeout \/ CreateOperatorRoles
    PROVE  RolesInv'
<1> USE DEF cloud
<1>1. CASE NewRequest
  <2> DEFINE k == Head(queue)
             v == VersionOf(k)
  <2>1. key = None /\ k \in Keys /\ k # None
    <3>1. queue \in Seq(Keys) /\ queue # <<>> /\ key = None
      BY <1>1 DEF Typed, TypeOK, QueueOK, NewRequest
    <3> QED BY <3>1, RangeHeadTail, ProvisioningAssumption
  <2>2. CASE obj[k] # None /\ v \in offered
    <3>1. /\ key' = k /\ pc' = IF obj[k].deleting THEN "DestroyCluster" ELSE "ApplyCluster"
          /\ obj' = IF obj[k].version = NoVersion THEN [obj EXCEPT ![k].version = v] ELSE obj
          /\ UNCHANGED <<roles, cluster>>
      BY <1>1, <2>2 DEF NewRequest
    <3>2. obj[k] \in Objects /\ obj \in [Keys -> Objects \cup {None}]
      BY <2>1, <2>2 DEF Typed, TypeOK
    <3> HIDE DEF k, v
    <3>3. /\ obj'[k].deleting = obj[k].deleting /\ obj'[k].rolesCreated = obj[k].rolesCreated
          /\ obj[k].version # NoVersion => obj'[k] = obj[k]
          /\ \A j \in Keys \ {k} : obj'[j] = obj[j]
      <4>1. CASE obj[k].version = NoVersion
        <5>1. /\ obj'[k] = [obj[k] EXCEPT !.version = v]
              /\ \A j \in Keys \ {k} : obj'[j] = obj[j]
          BY <2>1, <3>1, <3>2, <4>1
        <5> QED BY <3>2, <4>1, <5>1 DEF Objects
      <4>2. CASE obj[k].version # NoVersion
        BY <3>1, <4>2
      <4> QED BY <4>1, <4>2
    <3>4. RolesOwned' /\ ClusterServed'
      BY <2>1, <2>2, <3>1, <3>3, OwnedKept
    <3>5. RolesCreatedTrue'
      BY <2>1, <2>2, <3>1, <3>3 DEF RolesInv, RolesCreatedTrue, AllAttached, Deleting
    <3>6. LoopProgress'
      BY <3>1 DEF LoopProgress, Looping
    <3> QED BY <3>4, <3>5, <3>6 DEF RolesInv
  <2>3. CASE ~(obj[k] # None /\ v \in offered)
    <3>1. UNCHANGED <<obj, roles, cluster, pc, key, todo>>
      BY <1>1, <2>3 DEF NewRequest
    <3> QED BY <3>1, RolesQuiet
  <2> QED BY <2>2, <2>3
<1>2. ASSUME key \in Keys, key # None, obj[key] # None, pc \notin Deleting,
             UNCHANGED <<roles, cluster>>,
             \/ obj' = [obj EXCEPT ![key].finalizer = TRUE]
             \/ obj' = [obj EXCEPT ![key].provider = TRUE]
             \/ obj' = obj,
             \/ pc' = "Idle" /\ key' = None
             \/ pc' \in {"WaitForThumbprint", "CreateOperatorRoles"} /\ key' = key
      PROVE  RolesInv'
  <2>1. obj[key] \in Objects /\ obj \in [Keys -> Objects \cup {None}]
    BY <1>2 DEF Typed, TypeOK
  <2>2. /\ obj'[key] # None
        /\ obj[key].finalizer => obj'[key].finalizer
        /\ obj'[key].version = obj[key].version
        /\ obj'[key].deleting = obj[key].deleting
        /\ obj'[key].rolesCreated = obj[key].rolesCreated
        /\ \A j \in Keys \ {key} : obj'[j] = obj[j]
    <3>1. CASE obj' = obj
      BY <1>2, <3>1
    <3>2. CASE obj' = [obj EXCEPT ![key].finalizer = TRUE]
      <4>1. obj'[key] = [obj[key] EXCEPT !.finalizer = TRUE]
        BY <1>2, <2>1, <3>2
      <4> QED BY <1>2, <2>1, <3>2, <4>1, ObjectPatched DEF Objects, Typed
    <3>3. CASE obj' = [obj EXCEPT ![key].provider = TRUE]
      <4>1. obj'[key] = [obj[key] EXCEPT !.provider = TRUE]
        BY <1>2, <2>1, <3>3
      <4> QED BY <1>2, <2>1, <3>3, <4>1, ObjectPatched DEF Objects, Typed
    <3> QED BY <1>2, <3>1, <3>2, <3>3
  <2>3. RolesOwned' /\ ClusterServed'
    BY <1>2, <2>2, OwnedKept
  <2>4. RolesCreatedTrue'
    <3>1. \A k \in Keys : obj'[k] # None /\ obj'[k].rolesCreated
                           => obj[k] # None /\ obj[k].rolesCreated /\ obj'[k].deleting = obj[k].deleting
      BY <1>2, <2>2
    <3>2. \A k \in Keys : k = key' => k = key
      BY <1>2, ProvisioningAssumption
    <3> QED BY <1>2, <3>1, <3>2 DEF RolesInv, RolesCreatedTrue, AllAttached
  <2>5. LoopProgress'
    BY <1>2 DEF LoopProgress, Looping
  <2> QED BY <2>3, <2>4, <2>5 DEF RolesInv
<1>3. pc # "Idle" => key \in Keys /\ key # None
  BY DEF Typed, TypeOK, QueueOK
<1>4. CASE ApplyCluster
  <2>1. CASE obj[key] = None
    BY <1>4, <2>1, RolesQuiet DEF ApplyCluster, Done
  <2>2. CASE obj[key] # None
    BY <1>2, <1>3, <1>4, <2>2 DEF ApplyCluster, Done, Goto, Deleting
  <2> QED BY <2>1, <2>2
<1>5. CASE Tick
  <2>1. obj[key] # None
    BY <1>5 DEF Typed, Control, Creating, Tick
  <2> QED BY <1>2, <1>3, <1>5, <2>1 DEF Tick, Goto, Deleting
<1>6. CASE Timeout
  BY <1>6, RolesQuiet DEF Timeout, Done
<1>7. CASE CreateOperatorRoles
  <2>1. obj[key] # None /\ key \in Keys
    BY <1>3, <1>7 DEF Typed, Control, Creating, CreateOperatorRoles
  <2>2. UNCHANGED <<obj, roles, cluster, key>>
    BY <1>7 DEF CreateOperatorRoles, Goto
  <2>3. RolesOwned' /\ ClusterServed'
    BY <2>2, OwnedKept
  <2>4. RolesCreatedTrue'
    BY <1>7, <2>2 DEF RolesInv, RolesCreatedTrue, AllAttached, CreateOperatorRoles, Deleting
  <2>5. LoopProgress'
    <3>1. CASE obj[key].rolesCreated
      BY <1>7, <2>1, <2>2, <3>1
      DEF RolesInv, RolesCreatedTrue, AllAttached, CreateOperatorRoles, Goto, LoopProgress, Looping, Deleting
    <3>2. CASE ~obj[key].rolesCreated
      BY <1>7, <2>2, <3>2, ProvisioningAssumption
      DEF CreateOperatorRoles, Goto, NextRole, LoopProgress, Looping
    <3> QED BY <3>1, <3>2
  <2> QED BY <2>3, <2>4, <2>5 DEF RolesInv
<1> QED BY <1>1, <1>4, <1>5, <1>6, <1>7

\* The loop that creates the roles.
LEMMA RolesCreation ==
    ASSUME Typed, RolesInv, EnsurePolicy \/ EnsureRole \/ AttachRolePolicy
    PROVE  RolesInv'
<1> DEFINE head == Head(todo)
<1>1. /\ key \in Keys /\ key # None /\ pc \in Looping
      /\ obj[key] # None /\ obj[key].finalizer /\ version \in Versions /\ obj[key].version = version
  BY DEF Typed, TypeOK, QueueOK, Control, Looping, Creating, EnsurePolicy, EnsureRole, AttachRolePolicy
<1>2. /\ todo \in Seq(Range(Requests)) /\ head \in Range(Requests)
      /\ Tail(todo) \in Seq(Range(Requests)) /\ Range(todo) = {head} \cup Range(Tail(todo))
  BY <1>1, RangeHeadTail DEF Typed, TypeOK, Control
<1>3. UNCHANGED <<obj, cluster, key>>
  BY DEF EnsurePolicy, EnsureRole, AttachRolePolicy, Goto
<1>4. NoVersion \notin Versions
  BY ProvisioningAssumption
<1>9. TypeOK /\ key \in Keys /\ head \in Range(Requests)
  BY <1>1, <1>2 DEF Typed
<1> HIDE DEF head
\* A role that changes is owned by the object in progress; one that was attached stays so.
<1>5. ASSUME /\ roles'[key][head].stage \in {"none", "policy"}
             \/ roles'[key][head].tag = MajorMinor(obj[key].version),
             roles[key][head].stage = "attached" => roles'[key][head].stage = "attached",
             \A q \in Range(Requests) \ {head} : roles'[key][q] = roles[key][q],
             \A j \in Keys \ {key} : roles'[j] = roles[j],
             pc' \notin Deleting
      PROVE  RolesOwned' /\ ClusterServed' /\ RolesCreatedTrue'
  <2>1. RolesOwned'
    BY <1>1, <1>3, <1>4, <1>5 DEF RolesInv, RolesOwned, Exists
  <2>2. \A k \in Keys : AllAttached(k) => AllAttached(k)'
    BY <1>5 DEF AllAttached
  <2>3. ClusterServed'
    BY <1>3, <2>2 DEF RolesInv, ClusterServed
  <2>4. RolesCreatedTrue'
    BY <1>1, <1>3, <2>2 DEF RolesInv, RolesCreatedTrue, Looping, Deleting
  <2> QED BY <2>1, <2>3, <2>4
<1>6. CASE EnsurePolicy
  <2>1. pc' = "EnsureRole" /\ todo' = todo
    BY <1>6 DEF EnsurePolicy, Goto
  <2>2. CASE roles[key][head].stage = "none"
    <3>1. roles' = [roles EXCEPT ![key][head].stage = "policy"] /\ "policy" \in Stages
      BY <1>6, <2>2 DEF EnsurePolicy, Stage, Stages, head
    <3>2. /\ roles'[key][head] = [stage |-> "policy", tag |-> roles[key][head].tag]
          /\ \A q \in Range(Requests) \ {head} : roles'[key][q] = roles[key][q]
          /\ \A j \in Keys \ {key} : roles'[j] = roles[j]
      BY ONLY <1>9, <3>1, StagePatched, ZenonT(90)
    <3>3. LoopProgress'
      BY <1>1, <1>2, <1>3, <2>1, <2>2, <3>2 DEF RolesInv, LoopProgress, Looping
    <3>4. RolesOwned' /\ ClusterServed' /\ RolesCreatedTrue'
      <4>1. /\ pc' \notin Deleting
            /\ roles'[key][head].stage \in {"none", "policy"}
            /\ roles[key][head].stage = "attached" => roles'[key][head].stage = "attached"
        BY <2>1, <2>2, <3>2 DEF Deleting
      <4> QED BY <1>5, <3>2, <4>1, Zenon
    <3> QED BY <3>3, <3>4 DEF RolesInv
  <2>3. CASE roles[key][head].stage # "none"
    <3>1. roles' = roles
      BY <1>6, <2>3 DEF EnsurePolicy, Stage, head
    <3>2. RolesOwned' /\ ClusterServed'
      BY <1>3, <3>1, OwnedKept
    <3>3. RolesCreatedTrue'
      BY <1>1, <1>3, <3>1 DEF RolesInv, RolesCreatedTrue, AllAttached, Looping, Deleting
    <3>4. LoopProgress'
      BY <1>1, <1>3, <2>1, <3>1 DEF RolesInv, LoopProgress, Looping
    <3> QED BY <3>2, <3>3, <3>4 DEF RolesInv
  <2> QED BY <2>2, <2>3
<1>7. CASE EnsureRole
  <2>1. pc' = "AttachRolePolicy" /\ todo' = todo
    BY <1>7 DEF EnsureRole, Goto
  <2>2. CASE Exists(key, head)
    <3>1. roles' = roles
      BY <1>7, <2>2 DEF EnsureRole, Stage, Exists, head
    <3>2. RolesOwned' /\ ClusterServed'
      BY <1>3, <3>1, OwnedKept
    <3>3. RolesCreatedTrue'
      BY <1>1, <1>3, <3>1 DEF RolesInv, RolesCreatedTrue, AllAttached, Looping, Deleting
    <3>4. LoopProgress'
      BY <1>1, <1>3, <2>1, <2>2, <3>1 DEF RolesInv, LoopProgress, Looping, Exists, head
    <3> QED BY <3>2, <3>3, <3>4 DEF RolesInv
  <2>3. CASE ~Exists(key, head)
    <3>1. roles' = [roles EXCEPT ![key][head] = [stage |-> "role", tag |-> MajorMinor(version)]]
      BY <1>7, <2>3 DEF EnsureRole, Stage, Exists, head
    <3>2. [stage |-> "role", tag |-> MajorMinor(version)] \in Roles
      BY <1>1, ProvisioningAssumption DEF Roles, Stages, MajorMinor
    <3>3. /\ roles'[key][head] = [stage |-> "role", tag |-> MajorMinor(version)]
          /\ \A q \in Range(Requests) \ {head} : roles'[key][q] = roles[key][q]
          /\ \A j \in Keys \ {key} : roles'[j] = roles[j]
      BY ONLY <1>9, <3>1, <3>2, RolePatched, Zenon
    <3>4. LoopProgress'
      BY <1>1, <1>2, <1>3, <2>1, <3>3 DEF RolesInv, LoopProgress, Looping, Exists, head
    <3>5. RolesOwned' /\ ClusterServed' /\ RolesCreatedTrue'
      <4>1. /\ pc' \notin Deleting
            /\ roles'[key][head].tag = MajorMinor(obj[key].version)
            /\ roles[key][head].stage = "attached" => roles'[key][head].stage = "attached"
        BY <1>1, <2>1, <2>3, <3>3 DEF Deleting, Exists
      <4> QED BY <1>5, <3>3, <4>1, Zenon
    <3> QED BY <3>4, <3>5 DEF RolesInv
  <2> QED BY <2>2, <2>3
<1>8. CASE AttachRolePolicy
  <2>1. pc' = NextRole(Tail(todo)) /\ todo' = Tail(todo)
    BY <1>8 DEF AttachRolePolicy, Goto
  <2>2. roles' = [roles EXCEPT ![key][head].stage = "attached"] /\ "attached" \in Stages
    BY <1>8 DEF AttachRolePolicy, Stages, head
  <2>3. /\ roles'[key][head] = [stage |-> "attached", tag |-> roles[key][head].tag]
        /\ \A q \in Range(Requests) \ {head} : roles'[key][q] = roles[key][q]
        /\ \A j \in Keys \ {key} : roles'[j] = roles[j]
    BY ONLY <1>9, <2>2, StagePatched, ZenonT(90)
  <2>4. roles[key][head].tag = MajorMinor(obj[key].version)
    BY <1>1, <1>2, <1>8 DEF RolesInv, LoopProgress, RolesOwned, AttachRolePolicy, head
  <2>5. RolesOwned' /\ ClusterServed' /\ RolesCreatedTrue'
    <3>1. /\ pc' \notin Deleting
          /\ roles'[key][head].tag = MajorMinor(obj[key].version)
          /\ roles[key][head].stage = "attached" => roles'[key][head].stage = "attached"
      BY <2>1, <2>3, <2>4 DEF NextRole, Deleting
    <3> QED BY <1>5, <2>3, <3>1, Zenon
  <2>6. \A r \in Range(Requests) : roles'[key][r].stage = "attached" \/ r \in Range(Tail(todo))
    BY <1>1, <1>2, <2>3 DEF RolesInv, LoopProgress
  <2>7. LoopProgress'
    <3>1. Tail(todo) = <<>> => Range(Tail(todo)) = {}
      BY DEF Range
    <3> QED BY <1>3, <2>1, <2>6, <3>1 DEF NextRole, LoopProgress, Looping, AllAttached
  <2> QED BY <2>5, <2>7 DEF RolesInv
<1> QED BY <1>6, <1>7, <1>8

\* The steps after it.
LEMMA RolesAfter ==
    ASSUME Typed, RolesInv, SaveRolesCreated \/ CreateCluster
    PROVE  RolesInv'
<1>1. /\ key \in Keys /\ key # None /\ obj[key] # None /\ obj[key].finalizer
      /\ obj[key].version = version /\ version \in Versions /\ AllAttached(key)
      /\ UNCHANGED roles
  BY DEF Typed, TypeOK, QueueOK, Control, Creating, RolesInv, LoopProgress,
         SaveRolesCreated, CreateCluster, cloud
<1>2. obj[key] \in Objects /\ obj \in [Keys -> Objects \cup {None}]
  BY <1>1 DEF Typed, TypeOK
<1>3. CASE SaveRolesCreated
  <2>1. /\ obj' = [obj EXCEPT ![key].rolesCreated = TRUE] /\ pc' = "CreateCluster"
        /\ UNCHANGED <<key, cluster>>
    BY <1>3 DEF SaveRolesCreated, Goto, cloud
  <2>2. obj'[key] = [obj[key] EXCEPT !.rolesCreated = TRUE]
    BY <1>1, <1>2, <2>1
  <2>3. /\ obj'[key] # None /\ obj'[key].finalizer /\ obj'[key].version = obj[key].version
        /\ \A j \in Keys \ {key} : obj'[j] = obj[j]
    BY <1>1, <2>1, ObjectPatched DEF Typed
  <2>4. RolesOwned' /\ ClusterServed'
    BY <1>1, <2>1, <2>3, OwnedKept
  <2>5. RolesCreatedTrue'
    BY <1>1, <2>1, <2>3 DEF RolesInv, RolesCreatedTrue, AllAttached
  <2>6. LoopProgress'
    BY <1>1, <2>1 DEF LoopProgress, Looping, AllAttached
  <2> QED BY <2>4, <2>5, <2>6 DEF RolesInv
<1>4. CASE CreateCluster
  <2>1. pc' = "Idle" /\ key' = None
    BY <1>4 DEF CreateCluster, Done
  <2>2. CASE key \in WithSubnets /\ client # Region[key]
    BY <1>1, <1>4, <2>1, <2>2, RolesQuiet DEF CreateCluster
  <2>3. CASE ~(key \in WithSubnets /\ client # Region[key])
    <3>1. /\ obj' = [obj EXCEPT ![key].created = TRUE]
          /\ cluster' = [cluster EXCEPT ![key] = [version |-> obj[key].version, state |-> "live"]]
      BY <1>4, <2>3 DEF CreateCluster
    <3>2. obj'[key] = [obj[key] EXCEPT !.created = TRUE]
      BY <1>1, <1>2, <3>1
    <3>3. /\ obj'[key] # None /\ obj'[key].finalizer /\ obj'[key].version = obj[key].version
          /\ \A j \in Keys \ {key} : obj'[j] = obj[j]
      BY <1>1, <3>1, ObjectPatched DEF Typed
    <3>4. /\ cluster'[key].version = obj[key].version
          /\ \A j \in Keys \ {key} : cluster'[j] = cluster[j]
      BY <1>1, <3>1 DEF Typed, TypeOK
    <3>5. RolesOwned'
      BY <1>1, <3>3 DEF RolesInv, RolesOwned, Exists
    <3>6. ClusterServed'
      BY <1>1, <3>3, <3>4 DEF RolesInv, ClusterServed, AllAttached
    <3>7. RolesCreatedTrue'
      BY <1>1, <2>1, <3>3, ProvisioningAssumption DEF RolesInv, RolesCreatedTrue, AllAttached
    <3>8. LoopProgress'
      BY <2>1 DEF LoopProgress, Looping
    <3> QED BY <3>5, <3>6, <3>7, <3>8 DEF RolesInv
  <2> QED BY <2>2, <2>3
<1> QED BY <1>3, <1>4

\* The steps of the deletion.
LEMMA RolesDeletion ==
    ASSUME Typed, RolesInv, DestroyCluster \/ DeleteOperatorRoles \/ CompleteDestroy
    PROVE  RolesInv'
<1> USE DEF cloud
<1>1. /\ key \in Keys /\ key # None /\ TypeOK /\ pc \in Deleting
      /\ obj[key] # None /\ obj[key].deleting
  BY DEF Typed, TypeOK, QueueOK, Control, Deleting, DestroyCluster, DeleteOperatorRoles, CompleteDestroy
<1>2. CASE DestroyCluster
  <2>1. UNCHANGED <<obj, roles>>
    BY <1>2 DEF DestroyCluster
  <2>2. CASE cluster[key] # None
    <3>1. pc' = "Idle" /\ key' = None
      BY <1>2, <2>2 DEF DestroyCluster, Done
    <3>2. \A k \in Keys :
              cluster'[k] # None => cluster[k] # None /\ cluster'[k].version = cluster[k].version
      <4>1. cluster[key] \in Clusters /\ cluster \in [Keys -> Clusters \cup {None}]
        BY <1>1, <2>2 DEF TypeOK
      <4>2. [cluster[key] EXCEPT !.state = "uninstalling"].version = cluster[key].version
        BY <4>1 DEF Clusters
      <4> QED BY <1>2, <2>2, <4>1, <4>2 DEF DestroyCluster
    <3>3. RolesOwned' /\ ClusterServed'
      BY <2>1, <3>2, OwnedKept
    <3>4. RolesCreatedTrue'
      BY <2>1, <3>1, ProvisioningAssumption DEF RolesInv, RolesCreatedTrue, AllAttached
    <3>5. LoopProgress'
      BY <3>1 DEF LoopProgress, Looping
    <3> QED BY <3>3, <3>4, <3>5 DEF RolesInv
  <2>3. CASE cluster[key] = None
    <3> DEFINE S == {r \in Range(Requests) : Exists(key, r)}
    <3>1. /\ todo' = CHOOSE list \in Listings(S) : TRUE
          /\ pc' = "DeleteOperatorRoles" /\ UNCHANGED <<cluster, key>>
      BY <1>2, <2>3 DEF DestroyCluster, Goto, Exists, Stage
    <3>2. Range(todo') = S
      BY <3>1, RolesListed
    <3>3. RolesOwned' /\ ClusterServed'
      BY <2>1, <3>1, OwnedKept
    <3>4. RolesCreatedTrue'
      BY <1>1, <2>1, <3>1 DEF RolesInv, RolesCreatedTrue, AllAttached, Deleting
    <3>5. LoopProgress'
      BY <2>1, <2>3, <3>1, <3>2 DEF LoopProgress, Looping, Exists
    <3> QED BY <3>3, <3>4, <3>5 DEF RolesInv
  <2> QED BY <2>2, <2>3
<1>3. CASE DeleteOperatorRoles
  <2> DEFINE head == Head(todo)
             role == IF Stage(head) = "role" THEN [stage |-> "policy", tag |-> 0] ELSE NoRole
  <2>1. /\ head \in Range(Requests) /\ Range(todo) = {head} \cup Range(Tail(todo))
    BY <1>1, <1>3, RangeHeadTail DEF TypeOK, DeleteOperatorRoles
  <2>2. role \in Roles /\ role.stage \in {"none", "policy"}
    BY DEF Roles, NoRole, Stages
  <2>3. /\ roles' = [roles EXCEPT ![key][head] = role]
        /\ todo' = Tail(todo) /\ UNCHANGED <<obj, cluster, key, pc>> /\ pc = "DeleteOperatorRoles"
    BY <1>3 DEF DeleteOperatorRoles, Goto
  <2> HIDE DEF head, role
  <2>4. /\ roles'[key][head] = role
        /\ \A q \in Range(Requests) \ {head} : roles'[key][q] = roles[key][q]
        /\ \A j \in Keys \ {key} : roles'[j] = roles[j]
    BY ONLY <1>1, <2>1, <2>2, <2>3, RolePatched, Zenon
  <2>5. cluster[key] = None /\ \A r \in Range(Requests) : Exists(key, r) => r \in Range(todo)
    BY <2>3 DEF RolesInv, LoopProgress
  <2>6. RolesOwned'
    BY <2>2, <2>3, <2>4 DEF RolesInv, RolesOwned, Exists
  <2>7. ClusterServed'
    BY <2>3, <2>4, <2>5 DEF RolesInv, ClusterServed, AllAttached
  <2>8. RolesCreatedTrue'
    BY <1>1, <2>3, <2>4 DEF RolesInv, RolesCreatedTrue, AllAttached
  <2>9. LoopProgress'
    BY <2>1, <2>2, <2>3, <2>4, <2>5 DEF LoopProgress, Looping, Exists
  <2> QED BY <2>6, <2>7, <2>8, <2>9 DEF RolesInv
<1>4. CASE CompleteDestroy
  <2>1. pc' = "Idle" /\ key' = None /\ UNCHANGED <<roles, cluster>>
    BY <1>4 DEF CompleteDestroy, Done
  <2>2. CASE obj' = obj
    BY <2>1, <2>2, RolesQuiet
  <2>3. CASE obj' # obj
    <3>1. obj'[key] = None /\ \A j \in Keys \ {key} : obj'[j] = obj[j]
      BY <1>1, <1>4, <2>3 DEF CompleteDestroy, TypeOK
    <3>2. cluster[key] = None /\ \A r \in Range(Requests) : ~Exists(key, r)
      <4>1. Range(todo) = {}
        BY <1>4 DEF CompleteDestroy, Range
      <4> QED BY <1>4, <4>1 DEF CompleteDestroy, RolesInv, LoopProgress
    <3>3. RolesOwned'
      BY <2>1, <3>1, <3>2 DEF RolesInv, RolesOwned, Exists
    <3>4. ClusterServed'
      BY <2>1, <3>1, <3>2 DEF RolesInv, ClusterServed, AllAttached
    <3>5. RolesCreatedTrue'
      BY <2>1, <3>1, ProvisioningAssumption DEF RolesInv, RolesCreatedTrue, AllAttached
    <3>6. LoopProgress'
      BY <2>1 DEF LoopProgress, Looping
    <3> QED BY <3>3, <3>4, <3>5, <3>6 DEF RolesInv
  <2> QED BY <2>2, <2>3
<1> QED BY <1>2, <1>3, <1>4

\* And what goes on around the worker.
LEMMA RolesWorld ==
    ASSUME Typed, RolesInv, CallFails \/ Crash \/ World
    PROVE  RolesInv'
<1> USE DEF cloud, worker
<1>1. CASE CallFails \/ Crash \/ CatalogChanges
  BY <1>1, RolesQuiet DEF CallFails, Done, Crash, CatalogChanges
<1>2. ASSUME NEW k \in Keys, TimerFires(k) \/ IssuerAnswers(k) PROVE RolesInv'
  BY <1>2, RolesQuiet DEF TimerFires, IssuerAnswers
<1>3. ASSUME NEW k \in Keys, UserDeletes(k) PROVE RolesInv'
  <2>1. obj[k] # None /\ ~obj[k].deleting /\ UNCHANGED <<key, pc, todo, roles, cluster>>
    BY <1>3 DEF UserDeletes
  <2>2. LoopProgress'
    BY <2>1 DEF RolesInv, LoopProgress, Looping, Exists, AllAttached
  <2>3. CASE obj[k].finalizer
    <3>1. obj' = [obj EXCEPT ![k].deleting = TRUE]
      BY <1>3, <2>3 DEF UserDeletes
    <3>2. /\ obj'[k] # None /\ obj'[k].finalizer /\ obj'[k].version = obj[k].version
          /\ \A j \in Keys \ {k} : obj'[j] = obj[j]
      BY <2>1, <2>3, <3>1, ObjectPatched DEF Typed
    <3>3. obj'[k].rolesCreated = obj[k].rolesCreated
      <4>1. obj[k] \in Objects /\ obj \in [Keys -> Objects \cup {None}]
        BY <2>1 DEF Typed, TypeOK
      <4>2. obj'[k] = [obj[k] EXCEPT !.deleting = TRUE]
        BY <3>1, <4>1
      <4> QED BY <4>1, <4>2 DEF Objects
    <3>4. RolesOwned' /\ ClusterServed'
      BY <2>1, <3>2, OwnedKept
    <3>5. RolesCreatedTrue'
      BY <2>1, <3>2, <3>3 DEF RolesInv, RolesCreatedTrue, AllAttached
    <3> QED BY <2>2, <3>4, <3>5 DEF RolesInv
  <2>4. CASE ~obj[k].finalizer
    <3>1. obj'[k] = None /\ \A j \in Keys \ {k} : obj'[j] = obj[j]
      BY <1>3, <2>4 DEF UserDeletes, Typed, TypeOK
    <3>2. RolesOwned' /\ ClusterServed'
      BY <2>1, <2>4, <3>1, OwnedKept
    <3>3. RolesCreatedTrue'
      BY <2>1, <3>1 DEF RolesInv, RolesCreatedTrue, AllAttached
    <3> QED BY <2>2, <3>2, <3>3 DEF RolesInv
  <2> QED BY <2>3, <2>4
<1>4. ASSUME NEW k \in Keys, OCMUninstalls(k) PROVE RolesInv'
  <2>1. /\ cluster' = [cluster EXCEPT ![k] = None] /\ UNCHANGED <<obj, roles, key, pc, todo>>
    BY <1>4 DEF OCMUninstalls
  <2>2. \A j \in Keys : cluster'[j] = None \/ cluster'[j] = cluster[j]
    BY <2>1 DEF Typed, TypeOK
  <2>3. RolesOwned' /\ ClusterServed'
    BY <2>1, <2>2, OwnedKept
  <2>4. RolesCreatedTrue'
    BY <2>1 DEF RolesInv, RolesCreatedTrue, AllAttached
  <2>5. LoopProgress'
    <3>1. pc # "Idle" => key \in Keys
      BY DEF Typed, TypeOK, QueueOK
    <3> QED BY <2>1, <2>2, <3>1 DEF RolesInv, LoopProgress, Looping, Exists, AllAttached
  <2> QED BY <2>3, <2>4, <2>5 DEF RolesInv
<1> QED BY <1>1, <1>2, <1>3, <1>4 DEF World

LEMMA RolesStep == Typed /\ RolesInv /\ [Next]_vars => RolesInv'
<1> SUFFICES ASSUME Typed, RolesInv, [Next]_vars PROVE RolesInv'
  OBVIOUS
<1>1. CASE Next
  BY <1>1, RolesBefore, RolesCreation, RolesAfter, RolesDeletion, RolesWorld DEF Next, Reconcile
<1>2. CASE UNCHANGED vars
  BY <1>2, RolesQuiet DEF vars, worker, cloud
<1> QED BY <1>1, <1>2

\* RolesFitCluster is an invariant: a cluster has all of its operator roles, attached
\* and tagged with its version, however often CreateOperatorRoles was cut short.
THEOREM RolesFit == Spec => []RolesFitCluster
<1>1. Typed /\ RolesInv => RolesFitCluster
  <2> SUFFICES ASSUME Typed, RolesInv, NEW k \in Keys, cluster[k] # None, NEW r \in Range(Requests)
               PROVE  roles[k][r] = [stage |-> "attached", tag |-> MajorMinor(cluster[k].version)]
    BY DEF RolesFitCluster
  <2>1. roles[k][r] \in Roles
    BY DEF Typed, TypeOK
  <2>2. roles[k][r].stage = "attached" /\ roles[k][r].tag = MajorMinor(cluster[k].version)
    BY DEF RolesInv, ClusterServed, AllAttached, RolesOwned, Exists
  <2> QED BY <2>1, <2>2 DEF Roles
<1> QED BY TypedInit, TypedStep, RolesInit, RolesStep, <1>1, PTL DEF Spec

\* NoRoleLeft is an invariant: whatever the loops of the creation left when the object
\* was deleted, DestroyOperatorRoles finds before the object is released.
THEOREM NoneLeft == Spec => []NoRoleLeft
<1>1. Typed /\ RolesInv => NoRoleLeft
  <2> SUFFICES ASSUME Typed, RolesInv, NEW k \in Keys, obj[k] = None, NEW r \in Range(Requests)
               PROVE  roles[k][r].stage \in {"none", "policy"}
    BY DEF NoRoleLeft
  <2>1. roles[k][r].stage \in Stages
    BY DEF Typed, TypeOK, Roles
  <2>2. ~Exists(k, r)
    BY DEF RolesInv, RolesOwned
  <2> QED BY <2>1, <2>2 DEF Stages, Exists
<1> QED BY TypedInit, TypedStep, RolesInit, RolesStep, <1>1, PTL DEF Spec

-----------------------------------------------------------------------------
(* The queue forgets no object *)

\* A step of the worker keeps its key, or ends with a delayed add, or with the object gone.
LEMMA WorkerRemembers ==
    ASSUME Typed, NeverForgotten, key # None,
           \A k \in Keys \ {key} : obj'[k] = obj[k],
           \/ UNCHANGED <<queue, delayed, key>>
           \/ Done(TRUE)
           \/ Done(FALSE) /\ obj'[key] = None
    PROVE  NeverForgotten'
<1>1. CASE UNCHANGED <<queue, delayed, key>>
  BY <1>1 DEF NeverForgotten
<1>2. CASE Done(TRUE) \/ (Done(FALSE) /\ obj'[key] = None)
  <2>1. queue \in Seq(Keys) /\ key \in Keys
    BY DEF Typed, TypeOK, QueueOK
  <2>2. Range(queue) \subseteq Range(queue')
    <3>1. CASE again
      <4>1. queue' = Append(queue, key)
        BY <1>2, <3>1 DEF Done
      <4>2. Range(Append(queue, key)) = Range(queue) \cup {key}
        BY <2>1, RangeAppend
      <4> QED BY <4>1, <4>2
    <3>2. CASE ~again
      BY <1>2, <3>2 DEF Done
    <3> QED BY <3>1, <3>2
  <2>3. delayed \subseteq delayed' /\ (obj'[key] = None \/ key \in delayed')
    BY <1>2 DEF Done
  <2> QED BY <2>2, <2>3 DEF NeverForgotten
<1> QED BY <1>1, <1>2

\* A key that is added waits or is in progress, and the others stay.
LEMMA AddRemembers ==
    ASSUME Typed, NeverForgotten, NEW k \in Keys, Add(k), UNCHANGED key,
           \A j \in Keys \ {k} : obj'[j] = obj[j],
           delayed \subseteq delayed' \cup {k}
    PROVE  NeverForgotten'
<1>1. k \in Range(queue') \cup {key} /\ Range(queue) \subseteq Range(queue')
  <2>1. queue \in Seq(Keys)
    BY DEF Typed, TypeOK, QueueOK
  <2>2. Range(Append(queue, k)) = Range(queue) \cup {k}
    BY <2>1, RangeAppend
  <2>3. CASE k = key \/ k \in Range(queue)
    BY <2>3 DEF Add
  <2>4. CASE k # key /\ k \notin Range(queue)
    <3>1. queue' = Append(queue, k)
      BY <2>4 DEF Add
    <3> QED BY <2>2, <3>1
  <2> QED BY <2>3, <2>4
<1> QED BY <1>1 DEF NeverForgotten

LEMMA NewRequestRemembers ==
    ASSUME Typed, NeverForgotten, NewRequest
    PROVE  NeverForgotten'
<1> DEFINE k == Head(queue)
<1>1. queue \in Seq(Keys) /\ queue # <<>> /\ key = None /\ None \notin Keys
  BY ProvisioningAssumption DEF Typed, TypeOK, QueueOK, NewRequest
<1>2. k \in Keys /\ Range(queue) = {k} \cup Range(Tail(queue)) /\ queue' = Tail(queue)
  BY <1>1, RangeHeadTail DEF NewRequest
<1>3. delayed \subseteq delayed'
  BY DEF NewRequest
<1>4. obj'[k] = None \/ k \in delayed' \cup {key'}
  <2>1. CASE obj[k] # None /\ VersionOf(k) \in offered
    BY <2>1 DEF NewRequest
  <2>2. CASE ~(obj[k] # None /\ VersionOf(k) \in offered)
    BY <2>2 DEF NewRequest
  <2> QED BY <2>1, <2>2
<1>5. \A j \in Keys \ {k} : obj'[j] = obj[j]
  BY DEF NewRequest, Typed, TypeOK
<1> HIDE DEF k
<1> QED BY <1>1, <1>2, <1>3, <1>4, <1>5 DEF NeverForgotten

LEMMA RememberedStep == Typed /\ NeverForgotten /\ [Next]_vars => NeverForgotten'
<1> SUFFICES ASSUME Typed, NeverForgotten, [Next]_vars PROVE NeverForgotten'
  OBVIOUS
<1> USE DEF cloud, worker
<1>1. pc # "Idle" => key # None /\ key \in Keys
  BY DEF Typed, TypeOK, QueueOK
<1>2. obj \in [Keys -> Objects \cup {None}]
  BY DEF Typed, TypeOK
<1>3. CASE ApplyCluster \/ Tick \/ Timeout
  <2>1. \A k \in Keys \ {key} : obj'[k] = obj[k]
    BY <1>2, <1>3 DEF ApplyCluster, Tick, Timeout
  <2> QED BY <1>1, <1>3, <2>1, WorkerRemembers DEF ApplyCluster, Tick, Timeout, Goto
<1>4. CASE CreateOperatorRoles \/ EnsurePolicy \/ EnsureRole \/ AttachRolePolicy
  <2>1. UNCHANGED <<obj, queue, delayed, key>>
    BY <1>4 DEF CreateOperatorRoles, EnsurePolicy, EnsureRole, AttachRolePolicy, Goto
  <2> QED BY <2>1 DEF NeverForgotten
<1>5. CASE SaveRolesCreated \/ CreateCluster
  <2>1. \A k \in Keys \ {key} : obj'[k] = obj[k]
    BY <1>2, <1>5 DEF SaveRolesCreated, CreateCluster
  <2> QED BY <1>1, <1>5, <2>1, WorkerRemembers DEF SaveRolesCreated, CreateCluster, Goto
<1>6. CASE DestroyCluster \/ DeleteOperatorRoles \/ CompleteDestroy
  <2>1. \A k \in Keys \ {key} : obj'[k] = obj[k]
    BY <1>2, <1>6 DEF DestroyCluster, DeleteOperatorRoles, CompleteDestroy
  <2>2. obj' = [obj EXCEPT ![key] = None] /\ key \in Keys => obj'[key] = None
    BY <1>2
  <2> QED BY <1>1, <1>6, <2>1, <2>2, WorkerRemembers
          DEF DestroyCluster, DeleteOperatorRoles, CompleteDestroy, Goto
<1>7. CASE CallFails
  BY <1>7, WorkerRemembers DEF CallFails
<1>8. CASE Crash
  <2> DEFINE Left == {k \in Keys : obj[k] # None}
  <2>1. IsFiniteSet(Left) /\ queue' \in Listings(Left)
    BY <1>8, ProvisioningAssumption, FS_Subset DEF Crash
  <2>2. Range(queue') = Left
    BY <2>1, ListingIsSeq
  <2> QED BY <1>8, <2>2 DEF NeverForgotten, Crash
<1>9. CASE CatalogChanges \/ UNCHANGED vars
  BY <1>9 DEF NeverForgotten, CatalogChanges, vars
<1>10. ASSUME NEW k \in Keys, TimerFires(k) \/ UserDeletes(k) PROVE NeverForgotten'
  <2>1. \A j \in Keys \ {k} : obj'[j] = obj[j]
    BY <1>2, <1>10 DEF TimerFires, UserDeletes
  <2> QED BY <1>10, <2>1, AddRemembers DEF TimerFires, UserDeletes
<1>11. ASSUME NEW k \in Keys, IssuerAnswers(k) \/ OCMUninstalls(k) PROVE NeverForgotten'
  BY <1>11 DEF NeverForgotten, IssuerAnswers, OCMUninstalls
<1> QED BY NewRequestRemembers, <1>3, <1>4, <1>5, <1>6, <1>7, <1>8, <1>9, <1>10, <1>11
        DEF Next, Reconcile, World

\* NeverForgotten is an invariant: with any number of objects, the key of one that is
\* there waits, is in progress or comes back, whichever calls fail.
THEOREM Remembered == Spec => []NeverForgotten
<1>1. Init => NeverForgotten
  BY ListingIsSeq, ProvisioningAssumption DEF Init, NeverForgotten
<1> QED BY TypedInit, TypedStep, RememberedStep, <1>1, PTL DEF Spec
=============================================================================
