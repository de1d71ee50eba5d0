---------------------------- MODULE Provisioning ----------------------------
(***************************************************************************)
(* Several ROSAClusters before the one worker of their controller.         *)
(* ROSACluster follows one object through every call; this module looks    *)
(* into four of its steps and at what the objects share:                   *)
(*  - the work queue, and the worker that waits for a thumbprint;          *)
(*  - the choice of a version from OCM's changing catalog (setVersion);    *)
(*  - the loops over the operator roles (pkg/ocm/sts.go);                  *)
(*  - the AWS client, made once with the region of the first request.      *)
(* A status patch is one step with the call before it, since ROSACluster   *)
(* takes the two apart; the caches do not lag.                             *)
(***************************************************************************)
EXTENDS Integers, FiniteSets, Sequences, Functions

CONSTANTS
    None, NoVersion,
    Keys,           \* the ROSAClusters
    Versions,       \* OpenShift versions as numbers: minor * 10 + patch
    Catalogs,       \* what OCM offers over time, a sequence of
                    \* [offered: the enabled versions, defaults: those that are a default]
    SpecVersion,    \* spec.openshiftVersion by key, or NoVersion
    Requests,       \* the credential requests of OCM, a sequence
    Region,         \* spec.region by key
    WithSubnets,    \* the keys whose spec names subnets
    Patience,       \* ticks before the thumbprint times out
    Environment     \* what may happen: a subset of Disturbances

\* Calls fail, the manager restarts, OCM's catalog changes.
Disturbances == {"error", "crash", "catalog"}

\* What of the custom resource matters here, and the clusters in OCM.
Objects ==
    [deleting: BOOLEAN, finalizer: BOOLEAN, version: Versions \cup {NoVersion},
     provider: BOOLEAN, rolesCreated: BOOLEAN, created: BOOLEAN]

Clusters == [version: Versions \cup {NoVersion}, state: {"live", "uninstalling"}]

ASSUME ProvisioningAssumption ==
    /\ Versions \subseteq Nat /\ NoVersion \notin Versions
    /\ Catalogs \in Seq([offered: SUBSET Versions, defaults: SUBSET Versions]) /\ Catalogs # <<>>
    /\ \A i \in 1 .. Len(Catalogs) : Catalogs[i].defaults \subseteq Catalogs[i].offered
    /\ WithSubnets \subseteq Keys
    /\ IsFiniteSet(Keys)
    /\ DOMAIN Region = Keys
    /\ None \notin Keys \cup Objects \cup Clusters
    /\ SpecVersion \in [Keys -> Versions \cup {NoVersion}]
    /\ Requests \in Seq(Range(Requests)) \ {<<>>}
    /\ Patience \in Nat
    /\ Environment \subseteq Disturbances

VARIABLES
    obj,        \* the objects by key: what of the status matters here, or None
    queue,      \* the work queue
    delayed,    \* keys with a delayed add
    key, again, \* the key in progress, or None; whether it was added meanwhile
    pc,         \* the next call of the reconcile
    version,    \* req.Version
    waited,     \* ticks of waitForThumbprint
    todo,       \* the requests, or roles, the loop has yet to handle
    client,     \* the region of the controller's AWS client, or None
    catalog,    \* the place in Catalogs
    issuers,    \* keys whose OIDC endpoint answers
    roles,      \* by key and request: [stage, tag]
    cluster     \* by key: [version, state], or None

worker  == <<key, again, pc, version, waited, todo>>
cloud   == <<issuers, roles, cluster>>
vars    == <<obj, queue, delayed, worker, client, catalog, cloud>>

\* A role goes through these stages; "policy" is a policy without its role.
Stages == {"none", "policy", "role", "attached"}
Roles  == [stage: Stages, tag: Nat]

offered  == Catalogs[catalog].offered
defaults == Catalogs[catalog].defaults

NoRole == [stage |-> "none", tag |-> 0]

NewObject ==
    [deleting |-> FALSE, finalizer |-> FALSE, version |-> NoVersion, provider |-> FALSE,
     rolesCreated |-> FALSE, created |-> FALSE]

\* The orders in which a set may be listed.
Listings(set) == Bijection(1 .. Cardinality(set), set)

Init ==
    /\ obj = [k \in Keys |-> NewObject]
    /\ queue \in Listings(Keys) /\ delayed = {}
    /\ key = None /\ again = FALSE
    /\ pc = "Idle" /\ version = NoVersion /\ waited = 0 /\ todo = <<>>
    /\ client = None
    /\ catalog = 1
    /\ issuers = {}
    /\ roles = [k \in Keys |-> [r \in Range(Requests) |-> NoRole]]
    /\ cluster = [k \in Keys |-> None]

-----------------------------------------------------------------------------
(* The work queue *)

\* Mutant: the queue takes a key as often as it is added.
AddTwice(k) ==
    IF k = key
    THEN again' = TRUE /\ UNCHANGED queue
    ELSE queue' = Append(queue, k) /\ UNCHANGED again

\* A key that waits is not added again; one in progress is added when it is done.
Add(k) ==
    IF k = key
    THEN again' = TRUE /\ UNCHANGED queue
    ELSE /\ queue' = IF k \in Range(queue) THEN queue ELSE Append(queue, k)
         /\ UNCHANGED again

Goto(next) == pc' = next /\ UNCHANGED <<queue, delayed, key, again>>

\* The reconcile ends; its result is a delayed add or nothing.
Done(requeue) ==
    /\ pc' = "Idle" /\ key' = None /\ again' = FALSE
    /\ queue' = IF again THEN Append(queue, key) ELSE queue
    /\ delayed' = IF requeue THEN delayed \cup {key} ELSE delayed
    /\ version' = NoVersion /\ waited' = 0 /\ todo' = <<>>

-----------------------------------------------------------------------------
(* NewRequest and Setup *)

Newest(set) == CHOOSE v \in set : \A w \in set : v >= w

\* Mutant: an object whose spec names no version follows the default.
VersionOfFollows(k) ==
    IF SpecVersion[k] # NoVersion THEN SpecVersion[k]
    ELSE IF defaults # {} THEN Newest(defaults)
    ELSE NoVersion

\* The version of the spec, else the one stored in the status, else the newest
\* default of OCM.
VersionOf(k) ==
    IF SpecVersion[k] # NoVersion THEN SpecVersion[k]
    ELSE IF obj[k].version # NoVersion THEN obj[k].version
    ELSE IF defaults # {} THEN Newest(defaults)
    ELSE NoVersion

\* Setup: the AWS client is made for the first request and kept.
Setup(k) == client' = IF client = None THEN Region[k] ELSE client

\* The first key of the queue: a key without an object is dropped.  The version
\* must be on offer, also when the object is deleted; it is stored once.
NewRequest ==
    LET k == Head(queue)
        v == VersionOf(k)
    IN  /\ key = None /\ queue # <<>>
        /\ queue' = Tail(queue)
        /\ IF obj[k] # None /\ v \in offered
           THEN /\ key' = k /\ version' = v
                /\ pc' = IF obj[k].deleting THEN "DestroyCluster" ELSE "ApplyCluster"
                /\ obj' = IF obj[k].version = NoVersion
                          THEN [obj EXCEPT ![k].version = v] ELSE obj
                /\ Setup(k)
                /\ UNCHANGED delayed
           ELSE /\ delayed' = IF obj[k] = None THEN delayed ELSE delayed \cup {k}
                /\ UNCHANGED <<key, version, pc, obj, client>>
        /\ UNCHANGED <<again, waited, todo, catalog, cloud>>

-----------------------------------------------------------------------------
(* Creation *)

\* AddFinalizer, GetCurrentState and the choice of ApplyCluster.  A cluster that
\* exists or was created before is updated or waited for, which changes nothing here.
ApplyCluster ==
    /\ pc = "ApplyCluster"
    /\ IF obj[key] = None
       THEN Done(TRUE) /\ UNCHANGED obj
       ELSE /\ obj' = [obj EXCEPT ![key].finalizer = TRUE]
            /\ IF cluster[key] # None \/ obj[key].created
               THEN Done(TRUE)
               ELSE /\ Goto(IF obj[key].provider THEN "CreateOperatorRoles"
                            ELSE "WaitForThumbprint")
                    /\ UNCHANGED <<version, waited, todo>>
    /\ UNCHANGED <<client, catalog, cloud>>

\* A tick of waitForThumbprint: the endpoint answers, and the provider is made and
\* stored, or the loop goes on.
Tick ==
    /\ pc = "WaitForThumbprint"
    /\ IF key \in issuers
       THEN /\ obj' = [obj EXCEPT ![key].provider = TRUE]
            /\ Goto("CreateOperatorRoles")
            /\ waited' = 0
       ELSE /\ waited' = IF waited < Patience THEN waited + 1 ELSE waited
            /\ UNCHANGED <<obj, pc, queue, delayed, key, again>>
    /\ UNCHANGED <<version, todo, client, catalog, cloud>>

\* Mutant: the timeout is started anew by every tick.
TimeoutNever ==
    /\ pc = "WaitForThumbprint" /\ waited > Patience
    /\ Done(TRUE)
    /\ UNCHANGED <<obj, client, catalog, cloud>>

\* The other case of its select; when both are ready Go picks either.
Timeout ==
    /\ pc = "WaitForThumbprint" /\ waited = Patience
    /\ Done(TRUE)
    /\ UNCHANGED <<obj, client, catalog, cloud>>

\* The next call of the loop in CreateOperatorRoles.  The resource does not admit
\* managed policies, so each role has a policy of its own.
NextRole(rest) == IF rest = <<>> THEN "SaveRolesCreated" ELSE "EnsurePolicy"

\* The roles are created unless the status says they are.
CreateOperatorRoles ==
    /\ pc = "CreateOperatorRoles"
    /\ IF obj[key].rolesCreated
       THEN Goto("CreateCluster") /\ UNCHANGED todo
       ELSE Goto(NextRole(Requests)) /\ todo' = Requests
    /\ UNCHANGED <<obj, version, waited, client, catalog, cloud>>

Stage(r) == roles[key][r].stage

MajorMinor(v) == v \div 10

EnsurePolicy ==
    /\ pc = "EnsurePolicy"
    /\ roles' = IF Stage(Head(todo)) = "none"
                THEN [roles EXCEPT ![key][Head(todo)].stage = "policy"] ELSE roles
    /\ Goto("EnsureRole")
    /\ UNCHANGED <<obj, version, waited, todo, client, catalog, issuers, cluster>>

\* A role that exists keeps its tags.
EnsureRole ==
    /\ pc = "EnsureRole"
    /\ roles' = IF Stage(Head(todo)) \in {"role", "attached"} THEN roles
                ELSE [roles EXCEPT ![key][Head(todo)] =
                         [stage |-> "role", tag |-> MajorMinor(version)]]
    /\ Goto("AttachRolePolicy")
    /\ UNCHANGED <<obj, version, waited, todo, client, catalog, issuers, cluster>>

AttachRolePolicy ==
    /\ pc = "AttachRolePolicy"
    /\ roles' = [roles EXCEPT ![key][Head(todo)].stage = "attached"]
    /\ todo' = Tail(todo)
    /\ Goto(NextRole(Tail(todo)))
    /\ UNCHANGED <<obj, version, waited, client, catalog, issuers, cluster>>

SaveRolesCreated ==
    /\ pc = "SaveRolesCreated"
    /\ obj' = [obj EXCEPT ![key].rolesCreated = TRUE]
    /\ Goto("CreateCluster")
    /\ UNCHANGED <<version, waited, todo, client, catalog, cloud>>

\* Subnets are found in the region of the client only.  The cluster gets the version
\* of the status.
CreateCluster ==
    /\ pc = "CreateCluster"
    /\ IF key \in WithSubnets /\ client # Region[key]
       THEN UNCHANGED <<obj, cluster>>
       ELSE /\ cluster' = [cluster EXCEPT ![key] =
                              [version |-> obj[key].version, state |-> "live"]]
            /\ obj' = [obj EXCEPT ![key].created = TRUE]
    /\ Done(TRUE)
    /\ UNCHANGED <<client, catalog, issuers, roles>>

-----------------------------------------------------------------------------
(* Deletion *)

\* Mutant: roles are looked for only if the status says they were created.
DestroyClusterRecorded ==
    /\ pc = "DestroyCluster"
    /\ IF cluster[key] # None
       THEN /\ cluster' = [cluster EXCEPT ![key].state = "uninstalling"]
            /\ Done(TRUE)
       ELSE /\ todo' = IF obj[key].rolesCreated THEN Requests ELSE <<>>
            /\ Goto("DeleteOperatorRoles")
            /\ UNCHANGED <<cluster, version, waited>>
    /\ UNCHANGED <<obj, client, catalog, issuers, roles>>

\* DestroyCluster and WaitUntilMissing; then AWS lists the roles with the prefix.
DestroyCluster ==
    /\ pc = "DestroyCluster"
    /\ IF cluster[key] # None
       THEN /\ cluster' = IF obj[key].created
                          THEN [cluster EXCEPT ![key].state = "uninstalling"] ELSE cluster
            /\ Done(TRUE)
       ELSE /\ todo' = CHOOSE list \in
                           Listings({r \in Range(Requests) : Stage(r) \in {"role", "attached"}}) : TRUE
            /\ Goto("DeleteOperatorRoles")
            /\ UNCHANGED <<cluster, version, waited>>
    /\ UNCHANGED <<obj, client, catalog, issuers, roles>>

\* DeleteOperatorRole takes the policies attached to the role along.
DeleteOperatorRoles ==
    /\ pc = "DeleteOperatorRoles" /\ todo # <<>>
    /\ roles' = [roles EXCEPT ![key][Head(todo)] =
                    IF Stage(Head(todo)) = "role"
                    THEN [stage |-> "policy", tag |-> 0] ELSE NoRole]
    /\ todo' = Tail(todo)
    /\ Goto("DeleteOperatorRoles")
    /\ UNCHANGED <<obj, version, waited, client, catalog, issuers, cluster>>

\* Mutant: only an object whose cluster was created is released.
CompleteDestroyCreated ==
    /\ pc = "DeleteOperatorRoles" /\ todo = <<>>
    /\ obj' = IF obj[key].created THEN [obj EXCEPT ![key] = None] ELSE obj
    /\ Done(~obj[key].created)
    /\ UNCHANGED <<client, catalog, cloud>>

\* The condition OperatorRolesDeleted, DestroyOIDC and CompleteDestroy.  AWS may refuse
\* to delete a provider that was never made.
CompleteDestroy ==
    /\ pc = "DeleteOperatorRoles" /\ todo = <<>>
    /\ \/ obj' = [obj EXCEPT ![key] = None] /\ Done(FALSE)
       \/ ~obj[key].provider /\ UNCHANGED obj /\ Done(TRUE)
    /\ UNCHANGED <<client, catalog, cloud>>

-----------------------------------------------------------------------------
(* Failures and the rest of the world *)

\* Mutant: an error is returned with nothing to bring the key back.
CallFailsDropped ==
    /\ "error" \in Environment
    /\ key # None
    /\ Done(FALSE)
    /\ UNCHANGED <<obj, client, catalog, cloud>>

\* A call that changes nothing and fails: requeue.OnError.
CallFails ==
    /\ "error" \in Environment
    /\ key # None
    /\ Done(TRUE)
    /\ UNCHANGED <<obj, client, catalog, cloud>>

\* The new manager lists the objects, in any order.
Crash ==
    /\ "crash" \in Environment
    /\ key' = None /\ again' = FALSE
    /\ pc' = "Idle" /\ version' = NoVersion /\ waited' = 0 /\ todo' = <<>>
    /\ queue' \in Listings({k \in Keys : obj[k] # None}) /\ delayed' = {}
    /\ client' = None
    /\ UNCHANGED <<obj, catalog, cloud>>

TimerFires(k) ==
    /\ k \in delayed
    /\ delayed' = delayed \ {k}
    /\ Add(k)
    /\ UNCHANGED <<obj, key, pc, version, waited, todo, client, catalog, cloud>>

UserDeletes(k) ==
    /\ obj[k] # None /\ ~obj[k].deleting
    /\ obj' = IF obj[k].finalizer THEN [obj EXCEPT ![k].deleting = TRUE]
              ELSE [obj EXCEPT ![k] = None]
    /\ Add(k)
    /\ UNCHANGED <<delayed, key, pc, version, waited, todo, client, catalog, cloud>>

CatalogChanges ==
    /\ "catalog" \in Environment
    /\ catalog < Len(Catalogs)
    /\ catalog' = catalog + 1
    /\ UNCHANGED <<obj, queue, delayed, worker, client, cloud>>

IssuerAnswers(k) ==
    /\ k \notin issuers
    /\ issuers' = issuers \cup {k}
    /\ UNCHANGED <<obj, queue, delayed, worker, client, catalog, roles, cluster>>

OCMUninstalls(k) ==
    /\ cluster[k] # None /\ cluster[k].state = "uninstalling"
    /\ cluster' = [cluster EXCEPT ![k] = None]
    /\ UNCHANGED <<obj, queue, delayed, worker, client, catalog, issuers, roles>>

-----------------------------------------------------------------------------

Reconcile ==
    \/ NewRequest \/ ApplyCluster \/ Tick \/ Timeout
    \/ CreateOperatorRoles \/ EnsurePolicy \/ EnsureRole \/ AttachRolePolicy
    \/ SaveRolesCreated \/ CreateCluster
    \/ DestroyCluster \/ DeleteOperatorRoles \/ CompleteDestroy

World ==
    \/ CatalogChanges
    \/ \E k \in Keys : \/ TimerFires(k) \/ UserDeletes(k)
                       \/ IssuerAnswers(k) \/ OCMUninstalls(k)

Next == Reconcile \/ CallFails \/ Crash \/ World

Spec == Init /\ [][Next]_vars

\* The worker goes on: a tick that changes nothing does not count, so the wait for a
\* thumbprint ends.  The delayed adds and OCM's uninstallations end, and failures stop.
FairSpec ==
    /\ Spec
    /\ WF_vars(Reconcile)
    /\ <>[][Reconcile \/ World]_vars
    /\ \A k \in Keys : WF_vars(TimerFires(k)) /\ WF_vars(OCMUninstalls(k))

-----------------------------------------------------------------------------
(* Safety *)

QueueOK ==
    /\ queue \in Seq(Keys) /\ IsInjective(queue) /\ key \notin Range(queue)
    /\ delayed \subseteq Keys
    /\ key \in Keys \cup {None} /\ again \in BOOLEAN
    /\ (key = None) <=> (pc = "Idle")

\* The variables keep their types; the queue holds no key twice, nor the one in
\* progress (NewRequest, the queue of controller-runtime).
TypeOK ==
    /\ QueueOK
    /\ obj \in [Keys -> Objects \cup {None}]
    /\ version \in Versions \cup {NoVersion}
    /\ waited \in 0 .. Patience
    /\ todo \in Seq(Range(Requests))
    /\ client \in Range(Region) \cup {None}
    /\ catalog \in 1 .. Len(Catalogs)
    /\ issuers \subseteq Keys
    /\ roles \in [Keys -> [Range(Requests) -> Roles]]
    /\ cluster \in [Keys -> Clusters \cup {None}]

\* A cluster has, from its creation to its end, every operator role OCM asks for,
\* with its policy attached and tagged with the minor version of the cluster: across
\* loops that were cut short and tried again while OCM's default moved on
\* (setVersion, createCluster, CreateOperatorRoles).
RolesFitCluster ==
    \A k \in Keys :
        cluster[k] # None =>
            \A r \in Range(Requests) :
                roles[k][r] = [stage |-> "attached", tag |-> MajorMinor(cluster[k].version)]

\* An object that was released left no operator role behind
\* (DestroyOperatorRoles, CompleteDestroy).
NoRoleLeft ==
    \A k \in Keys : obj[k] = None =>
        \A r \in Range(Requests) : roles[k][r].stage \in {"none", "policy"}

\* An object is never forgotten: its key waits, is in progress or comes back by a
\* delayed add, whatever failed and whenever it was added (Reconcile, requeue).
NeverForgotten ==
    \A k \in Keys : obj[k] # None => k \in Range(queue) \cup delayed \cup {key}

-----------------------------------------------------------------------------
(* Liveness *)

\* What the worker needs to bring a cluster up: its endpoint answers, its version is
\* on offer, and its subnets are in the region of the client.
Provisionable(k) ==
    /\ obj[k] # None /\ ~obj[k].deleting
    /\ k \in issuers
    /\ VersionOf(k) \in offered
    /\ k \in WithSubnets => client \in {None, Region[k]}

\* A cluster that can be created is, however many other clusters wait in vain for
\* their endpoint and hold the only worker meanwhile (waitForThumbprint).
GetsCreated == \A k \in Keys : <>[]Provisionable(k) => []<>(obj[k] # None /\ obj[k].created)

\* A deleted object with an OIDC provider is released, unless its version is no
\* longer on offer (NewRequest validates it first, also for a deletion).
GetsReleased ==
    \A k \in Keys :
        []<>(\/ obj[k] = None \/ ~obj[k].deleting \/ ~obj[k].provider
             \/ VersionOf(k) \notin offered)
=============================================================================
