-------------------------- MODULE IdentityProvider --------------------------
(***************************************************************************)
(* The GitLabIdentityProvider and LDAPIdentityProvider reconcilers: the    *)
(* phases of Child plus the identity provider in OCM and the Secret and    *)
(* ConfigMap that NewRequest reads.  The two differ in NewRequest and in   *)
(* desired().  A spec is [settings, ca]: what OCM returns as it was set,   *)
(* and whether the spec names a ConfigMap with a CA.                       *)
(***************************************************************************)
EXTENDS Child

CONSTANTS
    Kind,           \* "GitLab" or "LDAP"
    ProviderIDs     \* ids OCM gives to identity providers

ASSUME IdentityProviderAssumption ==
    /\ Kind \in {"GitLab", "LDAP"}
    /\ NoID \notin ProviderIDs
    /\ \A spec \in Specs : spec.ca \in BOOLEAN

VARIABLES
    idp,        \* the identity provider of that name in OCM, or None
    handedOut,  \* ids OCM has given to identity providers
    secret,     \* the Secret with the password: "ok", "missing", or "empty" without the key
    configMap,  \* the ConfigMap has the CA
    ca,         \* req.CA: NewRequest found the CA
    created     \* the id in OCM's answer to the last create request

vars == <<childVars, idp, handedOut, secret, configMap, ca, created>>

openshift == <<secret, configMap>>
ocm       == <<idp, handedOut>>

\* mine: created by the operator; ca: its CA is set.
Providers ==
    [id: ProviderIDs, cluster: ClusterIDs, spec: Specs, ca: BOOLEAN, mine: BOOLEAN]

IdentityProviderDeleted == Condition("IdentityProviderDeleted", TRUE, "Delete")

NewObjects ==
    {[generation |-> 1, deleting |-> FALSE, finalizer |-> FALSE, spec |-> spec,
      status |-> [clusterID |-> NoID, provider |-> NoID, conditions |-> {}]] : spec \in Specs}

Init ==
    /\ ChildInit(NewObjects)
    /\ idp = None /\ handedOut = {}
    /\ secret = "ok" /\ configMap = TRUE
    /\ ca = FALSE /\ created = NoID

-----------------------------------------------------------------------------

\* The error for a missing Secret wraps NotFound, which Reconcile takes for a
\* missing object and drops.  The CA is not required.
NewRequestGitLab ==
    IF secret = "ok"
    THEN Accept /\ ca' = (cache.spec.ca /\ configMap)
    ELSE Reject(secret = "empty") /\ UNCHANGED ca

\* Mutant: a missing Secret is dropped here, too.
NewRequestLDAPDropped ==
    IF secret = "ok" /\ (cache.spec.ca => configMap)
    THEN Accept /\ ca' = cache.spec.ca
    ELSE Reject(secret # "missing") /\ UNCHANGED ca

NewRequestLDAP ==
    IF secret = "ok" /\ (cache.spec.ca => configMap)
    THEN Accept /\ ca' = cache.spec.ca
    ELSE Reject(TRUE) /\ UNCHANGED ca

NewRequest ==
    /\ Dequeue
    /\ \/ cache = None /\ Reject(FALSE) /\ UNCHANGED ca
       \/ cache # None /\ Kind = "GitLab" /\ NewRequestGitLab
       \/ cache # None /\ Kind = "LDAP" /\ NewRequestLDAP
    /\ UNCHANGED <<ocm, openshift, created>>

\* Mutant: the id of the cluster is stored as the id of the provider as well.
SetClusterStatusBoth(status, upstream) ==
    IF upstream # None /\ status.clusterID = NoID
    THEN [status EXCEPT !.clusterID = upstream.id, !.provider = upstream.id]
    ELSE status

SetClusterStatus(status, upstream) ==
    IF upstream # None /\ status.clusterID = NoID
    THEN [status EXCEPT !.clusterID = upstream.id]
    ELSE status

SaveUpstreamCluster ==
    /\ SaveClusterStatus(SetClusterStatus(original.status, found))
    /\ UNCHANGED <<ocm, openshift, ca, created>>

UpstreamExists == cluster # None /\ cluster.id = original.status.clusterID

\* Lists the identity providers of the cluster and picks the one of the name.
GetCurrentState ==
    /\ pc = "GetCurrentState"
    /\ IF UpstreamExists
       THEN /\ current' = IF idp = None THEN None ELSE [spec |-> idp.spec, ca |-> idp.ca]
            /\ Goto("Apply")
            /\ UNCHANGED <<original, desired, found>>
       ELSE Return(TRUE)
    /\ UNCHANGED <<kubernetes, cluster, used, ocm, openshift, ca, created>>

\* The name of the ConfigMap is compared with the CA in OCM: they are equal only
\* when both are empty.
DesiredGitLab == current.spec.settings = desired.settings /\ ~desired.ca /\ ~current.ca

\* The password and the CA are left out.
DesiredLDAP == current.spec.settings = desired.settings

InDesiredState == current # None /\ IF Kind = "GitLab" THEN DesiredGitLab ELSE DesiredLDAP

\* Mutant: the id is not stored in the status.
CreateNotRecorded ==
    /\ pc = "Apply" /\ current = None
    /\ IF UpstreamExists /\ cluster.state = "ready" /\ idp = None /\ handedOut # ProviderIDs
       THEN \E id \in ProviderIDs \ handedOut :
                /\ idp' = [id |-> id, cluster |-> cluster.id, spec |-> desired, ca |-> ca,
                           mine |-> TRUE]
                /\ handedOut' = handedOut \cup {id}
                /\ created' = id
                /\ Goto("Complete")
                /\ UNCHANGED request
       ELSE Return(TRUE) /\ UNCHANGED <<ocm, created>>
    /\ UNCHANGED <<kubernetes, cluster, used, openshift, ca>>

\* Refused when the cluster is gone or not ready, or when the name is taken; the
\* model also refuses to hand out more ids than it has.
Create ==
    /\ pc = "Apply" /\ current = None
    /\ IF UpstreamExists /\ cluster.state = "ready" /\ idp = None /\ handedOut # ProviderIDs
       THEN \E id \in ProviderIDs \ handedOut :
                /\ idp' = [id |-> id, cluster |-> cluster.id, spec |-> desired, ca |-> ca,
                           mine |-> TRUE]
                /\ handedOut' = handedOut \cup {id}
                /\ created' = id
                /\ Goto("SaveProviderID")
                /\ UNCHANGED request
       ELSE Return(TRUE) /\ UNCHANGED <<ocm, created>>
    /\ UNCHANGED <<kubernetes, cluster, used, openshift, ca>>

SaveProviderID ==
    /\ pc = "SaveProviderID"
    /\ IF obj # None /\ Refuses(obj.status.provider, original.status.provider, created)
       THEN Return(TRUE) /\ UNCHANGED obj
       ELSE PatchStatus([original.status EXCEPT !.provider = created], "Complete")
    /\ UNCHANGED <<cache, cluster, used, ocm, openshift, ca, created>>

\* The builder never sets the id, so the request goes to the collection and is
\* refused.
Update ==
    /\ pc = "Apply" /\ current # None /\ ~InDesiredState
    /\ Return(TRUE)
    /\ UNCHANGED <<kubernetes, cluster, used, ocm, openshift, ca, created>>

AlreadyApplied ==
    /\ pc = "Apply" /\ InDesiredState
    /\ Goto("Complete")
    /\ UNCHANGED <<kubernetes, request, cluster, used, ocm, openshift, ca, created>>

ApplyIdentityProvider == Create \/ Update \/ AlreadyApplied

-----------------------------------------------------------------------------

\* First half of Destroy: the condition and ClusterExists, by name.
Destroy ==
    /\ pc = "Destroy"
    /\ Goto(IF IsSet(IdentityProviderDeleted, original.status.conditions) \/ cluster = None
            THEN "RemoveFinalizer" ELSE "DeleteIDP")
    /\ UNCHANGED <<kubernetes, request, cluster, used, ocm, openshift, ca, created>>

\* Mutant: the identity provider is deleted by its name.
DeleteIDPByName ==
    /\ pc = "DeleteIDP"
    /\ idp' = IF UpstreamExists THEN None ELSE idp
    /\ Goto("NotifyDeleted")
    /\ UNCHANGED <<kubernetes, request, cluster, used, handedOut, openshift, ca, created>>

\* Second half: the delete by the recorded id, for which 404 is a success.
DeleteIDP ==
    /\ pc = "DeleteIDP"
    /\ idp' = IF UpstreamExists /\ idp # None /\ idp.id = original.status.provider
              THEN None ELSE idp
    /\ Goto("NotifyDeleted")
    /\ UNCHANGED <<kubernetes, request, cluster, used, handedOut, openshift, ca, created>>

\* Without an id the request goes to the collection, which may refuse it.
DeleteIDPRefused ==
    /\ pc = "DeleteIDP" /\ original.status.provider = NoID
    /\ Return(TRUE)
    /\ UNCHANGED <<kubernetes, cluster, used, ocm, openshift, ca, created>>

\* Mutant: the reconcile ends with the notification.
NotifyDeletedAndReturn ==
    /\ pc = "NotifyDeleted"
    /\ obj' = IF obj = None THEN None
              ELSE [obj EXCEPT !.status.conditions =
                       AddCondition(original.status.conditions, IdentityProviderDeleted)]
    /\ Return(FALSE)
    /\ UNCHANGED <<cache, cluster, used, ocm, openshift, ca, created>>

NotifyDeleted ==
    /\ pc = "NotifyDeleted"
    /\ UpdateCondition(IdentityProviderDeleted, "RemoveFinalizer")
    /\ UNCHANGED <<cache, cluster, used, ocm, openshift, ca, created>>

-----------------------------------------------------------------------------
(* The rest of the world *)

\* Another tool creates, and removes, an identity provider of the name.
OthersCreateIDP ==
    /\ "others" \in Environment
    /\ idp = None /\ cluster # None /\ cluster.state = "ready"
    /\ \E id \in ProviderIDs \ handedOut, spec \in Specs :
        /\ idp' = [id |-> id, cluster |-> cluster.id, spec |-> spec, ca |-> spec.ca,
                   mine |-> FALSE]
        /\ handedOut' = handedOut \cup {id}
    /\ UNCHANGED <<childVars, openshift, ca, created>>

OthersRemoveIDP ==
    /\ "others" \in Environment
    /\ idp # None /\ idp' = None
    /\ UNCHANGED <<childVars, handedOut, openshift, ca, created>>

SecretChanges ==
    /\ "secrets" \in Environment
    /\ secret = "ok" /\ secret' \in {"missing", "empty"}
    /\ UNCHANGED <<childVars, ocm, configMap, ca, created>>

ConfigMapRemoved ==
    /\ "secrets" \in Environment
    /\ configMap /\ configMap' = FALSE
    /\ UNCHANGED <<childVars, ocm, secret, ca, created>>

\* The user sets right what is wrong.  No reconcile is queued: the controllers
\* watch neither Secrets nor ConfigMaps.
UserRestores ==
    /\ secret # "ok" \/ ~configMap
    /\ secret' = "ok" /\ configMap' = TRUE
    /\ UNCHANGED <<childVars, ocm, ca, created>>

ParentGone ==
    /\ ClusterGone
    /\ idp' = None
    /\ UNCHANGED <<handedOut, openshift, ca, created>>

-----------------------------------------------------------------------------

UnchangedHere == UNCHANGED <<ocm, openshift, ca, created>>

ReconcileStep ==
    \/ ChildStep /\ UnchangedHere
    \/ NewRequest \/ SaveUpstreamCluster \/ GetCurrentState
    \/ ApplyIdentityProvider \/ SaveProviderID
    \/ Destroy \/ DeleteIDP \/ DeleteIDPRefused \/ NotifyDeleted

Outage == ChildOutage /\ UnchangedHere

World ==
    \/ ChildWorld /\ UnchangedHere
    \/ UserRecreates(NewObjects) /\ UnchangedHere
    \/ OthersCreateIDP \/ OthersRemoveIDP
    \/ SecretChanges \/ ConfigMapRemoved \/ UserRestores \/ ParentGone

Next == ReconcileStep \/ Outage \/ World

Spec == Init /\ [][Next]_vars

\* As in ROSACluster.  In the end the user has restored the Secret and the
\* ConfigMap.
FairSpec ==
    /\ Spec
    /\ WF_vars(ReconcileStep)
    /\ WF_vars(SyncCache /\ UnchangedHere) /\ WF_vars(TimerFires /\ UnchangedHere)
    /\ WF_vars(ClusterInstalled /\ UnchangedHere) /\ WF_vars(ParentGone)
    /\ <>[][ReconcileStep \/ World]_vars
    /\ <>[](secret = "ok" /\ configMap)

-----------------------------------------------------------------------------
(* Properties *)

Status ==
    [clusterID: ClusterIDs \cup {NoID}, provider: ProviderIDs \cup {NoID},
     conditions: SUBSET (CommonConditions \cup {IdentityProviderDeleted})]

Objects ==
    [generation: 1..MaxGeneration, deleting: BOOLEAN, finalizer: BOOLEAN, spec: Specs,
     status: Status]

ASSUME NoneAssumption ==
    None \notin Objects /\ None \notin Clusters /\ None \notin Providers

\* Every variable holds a value the code can give it; an identity provider
\* exists only in a cluster, and an id in the status was handed out by OCM.
TypeOK ==
    /\ {obj, cache, original} \subseteq Objects \cup {None}
    /\ {queued, timer, configMap, ca} \subseteq BOOLEAN
    /\ desired \in Specs \cup {None}
    /\ current \in [spec: Specs, ca: BOOLEAN] \cup {None}
    /\ {found, cluster} \subseteq Clusters \cup {None}
    /\ idp \in Providers \cup {None} /\ used \subseteq ClusterIDs
    /\ secret \in {"ok", "missing", "empty"}
    /\ idp # None => cluster # None /\ cluster.id = idp.cluster
    /\ obj # None => obj.status.provider \in handedOut \cup {NoID}

\* The reconciler deletes no identity provider that another tool created under
\* the same name, whatever it took the place of: Destroy goes by the recorded
\* id.
OnlyOwnDeleted == [][DeleteIDP /\ idp' # idp => idp.mine]_vars

ExternalState ==
    IF idp = None \/ ~idp.mine THEN "absent"
    ELSE IF cluster.state = "uninstalling" THEN "going" ELSE "live"

C == INSTANCE Custody WITH
         held <- FinalizerHeld, external <- ExternalState, Releasable <- {"absent", "going"}

\* As long as no call fails between the create request and the patch that
\* records its answer, and that patch is not refused because another tool removed
\* an earlier provider, the reconciler implements Custody.
ImplementsCustody == C!Spec

\* A resource that knows its identity provider is deleted in the end, through
\* outages, a Secret that is missing for a while and the end of the cluster.
DeletionCompletes ==
    (obj # None /\ obj.deleting /\ NoID \notin {obj.status.clusterID, obj.status.provider})
        ~> (obj = None)

Wanted ==
    /\ obj # None /\ ~obj.deleting
    /\ cluster # None /\ cluster.state = "ready" /\ obj.status.clusterID \in {NoID, cluster.id}

\* A resource that is not deleted, and whose cluster stays ready, gets an
\* identity provider, through outages and a Secret that is missing for a while,
\* as long as OCM has ids left in the model.
ProviderAppears == Wanted ~> (~Wanted \/ idp # None \/ handedOut = ProviderIDs)

-----------------------------------------------------------------------------
(* What comments in the source say and the code does not keep *)

\* ApplyIdentityProvider does "store the required provider data in the status"
\* (phases.go): between two reconciles the status has the id of the identity
\* provider the operator created.
ProviderIDStored ==
    pc = "Idle" /\ FinalizerHeld /\ idp # None /\ idp.mine => obj.status.provider = idp.id

\* IdentityProviderDeleted tells that "the identity provider has been deleted
\* from OpenShift Cluster Manager" (conditions/identity_provider.go).
DeletedMeansDeleted ==
    obj # None /\ IdentityProviderDeleted \in obj.status.conditions
        => idp = None \/ ~idp.mine

\* "If specified and the config map or expected key is not found, the identity
\* provider is not honored" (both types): no identity provider is created
\* without the CA that its spec names.
CAHonored == idp # None /\ idp.mine /\ idp.spec.ca => idp.ca

\* ApplyIdentityProvider "includes creating and/or updating the identity
\* provider based on the provided attributes" (phases.go): a spec that the user
\* leaves alone reaches OCM.
EditsReachOCM ==
    \A spec \in Specs :
        Wanted /\ obj.spec = spec
            ~> ~Wanted \/ obj.spec # spec \/ (idp # None /\ idp.spec.settings = spec.settings)
=============================================================================
