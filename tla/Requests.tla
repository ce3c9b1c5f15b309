------------------------------ MODULE Requests ------------------------------
(***************************************************************************)
(* The requests and approvals tables and every transaction that writes     *)
(* them: submission, the owner's decision, the revocations, the worker's   *)
(* maintenance, claim and finish, and the two recoveries at startup. Each  *)
(* operator below is one transaction; what runs between transactions is in *)
(* Dispatch and Gateway. A transaction that fails or refuses changes       *)
(* nothing, so refusals are guards.                                        *)
(***************************************************************************)
EXTENDS Authority

CONSTANTS ReqId, Key, Body,
          NoReq,          \* a request id without a row
          NoDecision,     \* a request without an approvals row
          PendingLimit,   \* 20 undecided requests per device
          QueueTTL,       \* one minute for a standing submission
          ApprovalTTL,    \* ten minutes for one that needs approval
          Retention       \* 24 hours for payloads and results

VARIABLES requests, approvals

tableVars == <<requests, approvals>>
dbVars == <<authorityVars, tableVars>>

Status == {"pending_approval", "queued", "dispatching", "completed", "failed",
           "outcome_unknown", "denied", "expired", "cancelled"}

\* A row; snapshot and result tell whether the encrypted columns hold anything.
Request ==
    [device : Device, service : Service, revision : 0..MaxRevision, perm : PermId,
     key : Key, route : Routes, body : Body, status : Status,
     created : 0..Never, expires : 0..Never, finished : 0..Never,
     snapshot : {"kept", "purged"}, result : {"none", "kept", "purged"}]

\* What the snapshot digest is computed over: everything the dispatch will use.
Snapshot ==
    [device : Device, service : Service, revision : 0..MaxRevision, perm : PermId,
     route : Routes, body : Body, expires : 0..Never]

Decision == [decision : {"approve", "deny"}, digest : Snapshot]

ASSUME RequestAssumption ==
    /\ NoReq \notin Request /\ NoReq \notin ReqId
    /\ NoDecision \notin Decision
    /\ PendingLimit \in Nat /\ Retention \in Nat
    /\ QueueTTL \in Nat \ {0} /\ ApprovalTTL \in Nat \ {0}

RequestsTypeOK ==
    /\ requests \in [ReqId -> Request \cup {NoReq}]
    /\ approvals \in [ReqId -> Decision \cup {NoDecision}]

RequestsInit ==
    /\ requests = [r \in ReqId |-> NoReq]
    /\ approvals = [r \in ReqId |-> NoDecision]
-----------------------------------------------------------------------------
Row(r) == requests[r] # NoReq

InStatus(r, S) == Row(r) /\ requests[r].status \in S

Undispatched(r) == InStatus(r, {"pending_approval", "queued"})

terminal(status) == status \notin {"pending_approval", "queued", "dispatching"}

Digest(x) ==
    [device |-> x.device, service |-> x.service, revision |-> x.revision, perm |-> x.perm,
     route |-> x.route, body |-> x.body, expires |-> x.expires]

NeedsApproval(r) == permissions[requests[r].perm].mode = "approval_required"

\* snapshot(): the row's own columns agree with the snapshot by construction, so reading
\* it fails only once the payload is gone.
SnapshotReadable(r) == requests[r].snapshot = "kept"

\* validSnapshot that looks at the deadline alone.
DeadlineAhead(r) == requests[r].expires > now

validSnapshot(r) ==
    LET x == requests[r] IN
    /\ x.perm \in Authorize(x.device, x.service, x.route)
    /\ services[x.service].revision = x.revision
    /\ x.expires > now
-----------------------------------------------------------------------------
\* Submissions of d still waiting for a decision, as the pending limit counts them.
Waiting(d) ==
    { r \in ReqId :
        InStatus(r, {"pending_approval"}) /\ requests[r].device = d /\ requests[r].expires > now }

SameKey(d, k) == { r \in ReqId : Row(r) /\ requests[r].device = d /\ requests[r].key = k }

TTL(mode) == IF mode = "standing" THEN QueueTTL ELSE ApprovalTTL

InsertRequest(r, d, k, s, q, b, p) ==
    LET mode == permissions[p].mode IN
    /\ requests[r] = NoReq
    /\ now + TTL(mode) <= MaxTime    \* bound: the deadline falls within the clock
    /\ requests' = [requests EXCEPT ![r] =
           [device |-> d, service |-> s, revision |-> services[s].revision, perm |-> p,
            key |-> k, route |-> q, body |-> b,
            status |-> IF mode = "standing" THEN "queued" ELSE "pending_approval",
            created |-> now, expires |-> now + TTL(mode), finished |-> Never,
            snapshot |-> "kept", result |-> "none"]]
    /\ UNCHANGED <<authorityVars, approvals>>

\* Submit that deduplicates only against requests still under way.
SubmitForgetful(r, d, k, s, q, b) ==
    /\ ActiveDevice(d)
    /\ \A o \in SameKey(d, k) : terminal(requests[o].status)
    /\ \E p \in Authorize(d, s, q) :
           /\ permissions[p].mode = "approval_required"
                  => Cardinality(Waiting(d)) < PendingLimit
           /\ InsertRequest(r, d, k, s, q, b, p)

\* Submit that lets one request too many wait.
SubmitOverLimit(r, d, k, s, q, b) ==
    /\ ActiveDevice(d)
    /\ SameKey(d, k) = {}
    /\ \E p \in Authorize(d, s, q) :
           /\ permissions[p].mode = "approval_required"
                  => Cardinality(Waiting(d)) <= PendingLimit
           /\ InsertRequest(r, d, k, s, q, b, p)

\* Submit of a key the device has not used: a used key returns the old request, or a
\* conflict when the submission differs, and writes nothing.
Submit(r, d, k, s, q, b) ==
    /\ ActiveDevice(d)
    /\ SameKey(d, k) = {}
    /\ \E p \in Authorize(d, s, q) :
           /\ permissions[p].mode = "approval_required"
                  => Cardinality(Waiting(d)) < PendingLimit
           /\ InsertRequest(r, d, k, s, q, b, p)
-----------------------------------------------------------------------------
Record(r, digest, decision) ==
    /\ approvals' = [approvals EXCEPT ![r] = [decision |-> decision, digest |-> digest]]
    /\ requests' = [requests EXCEPT
           ![r].status = IF decision = "approve" THEN "queued" ELSE "denied",
           ![r].finished = IF decision = "approve" THEN Never ELSE now]
    /\ UNCHANGED authorityVars

\* Decide that takes the posted digest as it comes.
DecideUnread(r, digest, decision) ==
    /\ InStatus(r, {"pending_approval"})
    /\ SnapshotReadable(r) /\ validSnapshot(r)
    /\ approvals[r] = NoDecision
    /\ Record(r, digest, decision)

\* Decide: the owner posts the digest of the page it reviewed. The approvals key is the
\* request id, so a second decision fails on the INSERT.
Decide(r, digest, decision) ==
    /\ Row(r) /\ digest = Digest(requests[r])
    /\ InStatus(r, {"pending_approval"})
    /\ SnapshotReadable(r) /\ validSnapshot(r)
    /\ approvals[r] = NoDecision
    /\ Record(r, digest, decision)
-----------------------------------------------------------------------------
\* The requests table after cancelRequests over R.
cancelRequests(R) ==
    [r \in ReqId |->
        IF r \in R /\ Undispatched(r)
        THEN [requests[r] EXCEPT !.status = "cancelled", !.finished = now]
        ELSE requests[r]]

OfDevice(d) == { r \in ReqId : Row(r) /\ requests[r].device = d }
OfService(s) == { r \in ReqId : Row(r) /\ requests[r].service = s }
OfPermission(p) == { r \in ReqId : Row(r) /\ requests[r].perm = p }

\* revoke
RevokeDevice(d) ==
    /\ devices[d] # "absent"
    /\ devices' = [devices EXCEPT ![d] = "revoked"]
    /\ requests' = cancelRequests(OfDevice(d))
    /\ UNCHANGED <<now, services, permissions, approvals>>

\* revokePermission that leaves the queue to the worker.
RevokePermissionOnly(p) ==
    /\ permissions[p] # NoPerm
    /\ permissions' = [permissions EXCEPT ![p].state = "revoked"]
    /\ UNCHANGED <<now, devices, services, tableVars>>

RevokePermission(p) ==
    /\ permissions[p] # NoPerm
    /\ permissions' = [permissions EXCEPT ![p].state = "revoked"]
    /\ requests' = cancelRequests(OfPermission(p))
    /\ UNCHANGED <<now, devices, services, approvals>>

\* addService on /service-revise that puts a disabled service back with the credential it had.
ReviseServiceReenable(s) ==
    /\ services[s].state # "absent"
    /\ services[s].revision < MaxRevision
    /\ services' = [services EXCEPT ![s] =
           [state |-> "enabled", revision |-> @.revision + 1,
            sealed |-> IF @.state = "disabled" THEN @.sealed ELSE @.revision + 1]]
    /\ requests' = cancelRequests(OfService(s))
    /\ UNCHANGED <<now, devices, permissions, approvals>>

\* addService on /service-revise: a new revision, sealed under its own number, and live.
ReviseService(s) ==
    /\ services[s].state # "absent"
    /\ services[s].revision < MaxRevision    \* bound
    /\ services' = [services EXCEPT ![s] =
           [state |-> "enabled", revision |-> @.revision + 1, sealed |-> @.revision + 1]]
    /\ requests' = cancelRequests(OfService(s))
    /\ UNCHANGED <<now, devices, permissions, approvals>>

\* disableService: the credential keeps the seal of the revision it leaves.
DisableService(s) ==
    /\ services[s].state # "absent"
    /\ services[s].revision < MaxRevision    \* bound
    /\ services' = [services EXCEPT ![s].state = "disabled", ![s].revision = @ + 1]
    /\ requests' = cancelRequests(OfService(s))
    /\ UNCHANGED <<now, devices, permissions, approvals>>
-----------------------------------------------------------------------------
\* maintenance that keeps approved requests waiting for a slot for good.
ExpirePendingOnly(x) ==
    IF x.status = "pending_approval" /\ x.expires <= now
    THEN [x EXCEPT !.status = "expired", !.finished = now] ELSE x

Expire(x) ==
    IF x.status \in {"pending_approval", "queued"} /\ x.expires <= now
    THEN [x EXCEPT !.status = "expired", !.finished = now] ELSE x

\* A purge that counts the retention from the submission.
PurgeByAge(x) ==
    IF x.created + Retention < now
    THEN [x EXCEPT !.snapshot = "purged",
                   !.result = IF @ = "none" THEN "none" ELSE "purged"]
    ELSE x

Purge(x) ==
    IF terminal(x.status) /\ x.finished + Retention < now
    THEN [x EXCEPT !.snapshot = "purged",
                   !.result = IF @ = "none" THEN "none" ELSE "purged"]
    ELSE x

\* The requests table after maintenance. Sessions are not part of this model.
maintenance == [r \in ReqId |-> IF Row(r) THEN Purge(Expire(requests[r])) ELSE NoReq]

\* finishTx: the UPDATE names the row and no status it should be in.
finishTx(r, status, result) ==
    [requests EXCEPT ![r].status = status, ![r].finished = now, ![r].result = result]

\* recoverDispatches that puts an interrupted dispatch back in the queue.
recoverDispatchesRequeue ==
    [r \in ReqId |->
        IF InStatus(r, {"dispatching"})
        THEN [requests[r] EXCEPT !.status = "queued"] ELSE requests[r]]

\* recoverDispatches that takes an interrupted dispatch for one that was never sent.
recoverDispatchesFailed ==
    [r \in ReqId |->
        IF InStatus(r, {"dispatching"})
        THEN [requests[r] EXCEPT !.status = "failed", !.finished = now]
        ELSE requests[r]]

recoverDispatches ==
    [r \in ReqId |->
        IF InStatus(r, {"dispatching"})
        THEN [requests[r] EXCEPT !.status = "outcome_unknown", !.finished = now]
        ELSE requests[r]]

\* RecoverRestored that empties the queue and leaves the devices their access.
RecoverRequestsOnly ==
    /\ requests' = cancelRequests(ReqId)
    /\ UNCHANGED <<authorityVars, approvals>>

\* RecoverRestored that leaves the queue to expire.
RecoverDevicesOnly ==
    /\ devices' = [d \in Device |-> IF devices[d] = "absent" THEN "absent" ELSE "revoked"]
    /\ UNCHANGED <<now, services, permissions, tableVars>>

\* RecoverRestored: every device row, revoked again or for the first time.
RecoverRestored ==
    /\ devices' = [d \in Device |-> IF devices[d] = "absent" THEN "absent" ELSE "revoked"]
    /\ requests' = cancelRequests(ReqId)
    /\ UNCHANGED <<now, services, permissions, approvals>>
=============================================================================
