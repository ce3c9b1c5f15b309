------------------------------- MODULE Gateway -------------------------------
(***************************************************************************)
(* The whole server process: the owner's and devices' transactions, the    *)
(* worker with its dispatches, the HTTP handlers, and the life of the      *)
(* process itself (start, recovery, graceful stop, crash). Everything but  *)
(* the database and the two history variables is lost with the process.    *)
(***************************************************************************)
EXTENDS Dispatch, HttpProxy

VARIABLE phase
    \* closed: not running, after a clean shutdown (or never started)
    \* crashed: not running, after a crash
    \* restoring: started with --recover-restored, before RecoverRestored has run
    \* up: serving; stopping: interrupted, before the database is closed

vars == <<dbVars, slotVars, dispatchVars, http, phase>>

memoryVars == <<slotVars, dispatchVars, http>>

Phase == {"closed", "crashed", "restoring", "up", "stopping"}

Init ==
    /\ AuthorityInit
    /\ RequestsInit
    /\ SlotsInit(Device)
    /\ DispatchInit
    /\ HttpInit
    /\ phase = "closed"

\* Handlers may run in both phases: a graceful stop does not wait for them.
Serving == phase \in {"up", "stopping"}
-----------------------------------------------------------------------------
\* Transactions of the owner's pages and of device submissions.

Transaction == Serving /\ UNCHANGED <<memoryVars, phase>>

OwnerInvite(d) == Transaction /\ Invite(d) /\ UNCHANGED tableVars

OwnerCreateService(s) == Transaction /\ CreateService(s) /\ UNCHANGED tableVars

OwnerAddPermission(p) ==
    /\ Transaction
    /\ \E d \in Device, s \in Service, rule \in Rules, mode \in Mode, expires \in Expiries :
           AddPermission(p, d, s, rule, mode, expires)
    /\ UNCHANGED tableVars

OwnerRevokeDevice(d) == Transaction /\ RevokeDevice(d)

OwnerRevokePermission(p) == Transaction /\ RevokePermission(p)

OwnerReviseService(s) == Transaction /\ ReviseService(s)

OwnerDisableService(s) == Transaction /\ DisableService(s)

\* The owner decides r with the digest of some page it has open, r's or another's.
OwnerDecide(r) ==
    /\ Transaction
    /\ \E q \in ReqId, decision \in {"approve", "deny"} :
           Row(q) /\ Decide(r, Digest(requests[q]), decision)

DeviceSubmit(r) ==
    /\ Transaction
    /\ \E d \in Device, k \in Key, s \in Service, q \in Routes, b \in Body :
           Submit(r, d, k, s, q, b)
-----------------------------------------------------------------------------
\* The process.

\* New runs recoverDispatches before anything is served.
StartWith(next) ==
    /\ phase \in {"closed", "crashed"}
    /\ requests' = recoverDispatches
    /\ phase' = next
    /\ UNCHANGED <<authorityVars, approvals, slotVars, batch, jobs, sends, faults, http>>

Start == StartWith("up") /\ worker' = "wait"

StartRestored == StartWith("restoring") /\ UNCHANGED worker

FinishRestored ==
    /\ phase = "restoring"
    /\ RecoverRestored
    /\ phase' = "up"
    /\ worker' = "wait"
    /\ UNCHANGED <<slotVars, batch, jobs, sends, faults, http>>

\* The context is cancelled; dispatches and the worker notice on their own.
Stop ==
    /\ phase = "up"
    /\ phase' = "stopping"
    /\ UNCHANGED <<dbVars, memoryVars>>

\* RunWorker sees ctx.Done; its select may still prefer the ticker.
WorkerReturn ==
    /\ phase = "stopping"
    /\ worker = "wait"
    /\ worker' = "returned"
    /\ UNCHANGED <<dbVars, slotVars, batch, jobs, sends, faults, http, phase>>

LoseMemory ==
    /\ SlotsReset
    /\ worker' = "returned"
    /\ batch' = {}
    /\ jobs' = [j \in Job |-> Idle]
    /\ http' = [h \in Handler |-> NoCall]

\* A shutdown that closes the database as soon as the worker's loop has returned.
CloseWithoutWait ==
    /\ phase = "stopping"
    /\ worker = "returned"
    /\ phase' = "closed"
    /\ LoseMemory
    /\ UNCHANGED <<dbVars, sends, faults>>

\* wg.Wait, <-done and db.Close: every dispatch has returned.
Close ==
    /\ phase = "stopping"
    /\ worker = "returned"
    /\ \A j \in Job : JobAt(j, "idle")
    /\ phase' = "closed"
    /\ LoseMemory
    /\ UNCHANGED <<dbVars, sends, faults>>

Crash ==
    /\ phase \in {"restoring", "up", "stopping"}
    /\ phase' = "crashed"
    /\ LoseMemory
    /\ UNCHANGED <<dbVars, sends, faults>>

Clock == Tick /\ UNCHANGED <<tableVars, memoryVars, phase>>

Worker == Serving /\ WorkerStep /\ UNCHANGED <<http, phase>>

Dispatching(j) == Serving /\ JobStep(j) /\ UNCHANGED <<http, phase>>

Proxying(h) == Serving /\ HttpStep(h) /\ UNCHANGED <<tableVars, dispatchVars, phase>>

Next ==
    \/ Clock
    \/ \E d \in Device : OwnerInvite(d) \/ OwnerRevokeDevice(d)
    \/ \E s \in Service :
           OwnerCreateService(s) \/ OwnerReviseService(s) \/ OwnerDisableService(s)
    \/ \E p \in PermId : OwnerAddPermission(p) \/ OwnerRevokePermission(p)
    \/ \E r \in ReqId : DeviceSubmit(r) \/ OwnerDecide(r)
    \/ Worker
    \/ \E j \in Job : Dispatching(j)
    \/ \E h \in Handler : Proxying(h)
    \/ Start \/ StartRestored \/ FinishRestored
    \/ Stop \/ WorkerReturn \/ Close \/ Crash

Spec == Init /\ [][Next]_vars

\* The clock runs, the ticker and the goroutines are scheduled, every Send ends by its two
\* minute timeout, and select takes a cancelled context's branch if offered again and again.
\* Nothing is assumed of owners, devices, HTTP calls, or of a stopped server's restart.
Fairness ==
    /\ WF_vars(Clock)
    /\ WF_vars(Worker)
    /\ \A j \in Job : WF_vars(Dispatching(j))
    /\ SF_vars(WorkerReturn)
    /\ WF_vars(Close)

FairSpec == Spec /\ Fairness
-----------------------------------------------------------------------------
\* Every variable stays within its columns' and counters' types.
TypeOK ==
    /\ AuthorityTypeOK
    /\ RequestsTypeOK
    /\ SlotsTypeOK(Device)
    /\ DispatchTypeOK
    /\ HttpTypeOK
    /\ phase \in Phase

Holding(j) == jobs[j].pc \in {"claimed", "sent", "finish"}

\* A goroutine past its claim is the only one for its request, and the request is still
\* where the claim put it: no revocation, expiry, decision or other wakeup has moved it,
\* which is what lets finishTx's UPDATE go without a status of its own to check.
ClaimsExclusive ==
    \A j \in Job : Holding(j) =>
        /\ InStatus(jobs[j].req, {"dispatching"})
        /\ \A k \in Job : k # j /\ Holding(k) => jobs[k].req # jobs[j].req

\* However often a device repeats a submission, the worker picks it up twice, the owner
\* decides or the server crashes, one idempotency key reaches the upstream at most once
\* (Submit's lookup, dispatch's claim and recoverDispatches together).
OneEffectPerKey ==
    /\ \A r \in ReqId : sends[r] <= 1
    /\ \A r, o \in ReqId :
           /\ r # o /\ sends[r] > 0 /\ sends[o] > 0
           => <<requests[r].device, requests[r].key>> # <<requests[o].device, requests[o].key>>

\* A status says the truth about the upstream: anything but dispatching, completed and
\* outcome_unknown means that the request was never transmitted, and completed that it was
\* (the finish and cancel paths of dispatch, cancelRequests, maintenance and the recoveries).
HonestOutcome ==
    \A r \in ReqId :
        /\ sends[r] > 0 => InStatus(r, {"dispatching", "completed", "outcome_unknown"})
        /\ InStatus(r, {"completed"}) => sends[r] > 0

\* Revoking a device or permission and revising or disabling a service take every affected
\* waiting request with them, in the same transaction (cancelRequests): what still waits
\* rests on authority that was not withdrawn.
LiveAuthority ==
    \A r \in ReqId : Undispatched(r) =>
        LET x == requests[r] IN
        /\ ActiveDevice(x.device)
        /\ Enabled(x.service) /\ services[x.service].revision = x.revision
        /\ permissions[x.perm] # NoPerm /\ permissions[x.perm].state = "granted"
        /\ permissions[x.perm].revision = x.revision

\* Nothing under an approval_required permission is queued, claimed or transmitted unless the
\* owner approved that very snapshot, whatever other pages it had open (Decide's digest
\* check, the approvals key, the claim's approvals query).
ApprovedAsReviewed ==
    \A r \in ReqId :
        (InStatus(r, {"queued", "dispatching"}) \/ sends[r] > 0) /\ NeedsApproval(r)
            => Approved(r)

\* No device has more undecided, unexpired requests than Submit's limit allows.
PendingWithinLimit ==
    \A d \in Device : Cardinality(Waiting(d)) <= PendingLimit

Busy == { j \in Job : ~JobAt(j, "idle") }
Calls == { h \in Handler : http[h] # NoCall }

\* The counters are exactly the goroutines that hold slots, on every path including skipped
\* claims, failures and aborted streams, and so bound concurrent upstream requests.
SlotsAccounted ==
    /\ global = Cardinality(Busy) + Cardinality(Calls)
    /\ global <= GlobalLimit
    /\ \A d \in Device :
           /\ active[d] = Cardinality({ j \in Busy : DeviceOf(jobs[j].req) = d })
                        + Cardinality({ h \in Calls : http[h].device = d })
           /\ active[d] <= DeviceLimit

\* RunWorker's comment: shutdown waits for every dispatch's durable outcome. Unless storage
\* failed, a cleanly closed database holds no request in dispatching.
CleanShutdown ==
    phase = "closed" /\ faults = 0 => \A r \in ReqId : ~InStatus(r, {"dispatching"})

\* What makes OneEffectPerKey and HonestOutcome inductive: the worker's candidates and the
\* goroutines are on rows; no goroutine outlives its process; the history agrees with where
\* a holder is; and a device has one row per key.
BatchOnRows == \A c \in batch : Row(c)
JobsOnRows == \A j \in Job : ~JobAt(j, "idle") => jobs[j].req \in ReqId /\ Row(jobs[j].req)
QuietWhenDown == ~Serving => \A j \in Job : JobAt(j, "idle")
HolderKnows ==
    \A j \in Job :
        /\ JobAt(j, "claimed") => sends[jobs[j].req] = 0
        /\ JobAt(j, "sent") => sends[jobs[j].req] = 1
        /\ JobAt(j, "finish") =>
               sends[jobs[j].req] = IF jobs[j].outcome = "failed" THEN 0 ELSE 1
KeysUnique ==
    \A r, o \in ReqId :
        /\ Row(r) /\ Row(o)
        /\ requests[r].device = requests[o].device /\ requests[r].key = requests[o].key
        => r = o
AtMostOnce == \A r \in ReqId : sends[r] \in {0, 1}

\* The part of it that is about one life of the file, without the history of transmissions.
OutcomeKnown == \A j \in Job : JobAt(j, "finish") => jobs[j].outcome \in Outcome
HoldInv ==
    /\ TypeOK
    /\ BatchOnRows /\ JobsOnRows /\ QuietWhenDown
    /\ ClaimsExclusive /\ OutcomeKnown
    /\ KeysUnique

DispatchInv == HoldInv /\ HolderKnows /\ AtMostOnce /\ HonestOutcome

\* What makes CleanShutdown inductive: unless storage failed or the process crashed, a
\* request in dispatching has its goroutine.
DispatchingHeld ==
    faults = 0 /\ phase # "crashed" =>
        \A r \in ReqId : InStatus(r, {"dispatching"}) =>
            \E j \in Job : Holding(j) /\ jobs[j].req = r

\* What a row keeps until it is settled, and what it has been through before it is queued:
\* with these the claim finds a readable snapshot and an approval, unless authority is gone.
PermsExist == \A r \in ReqId : Row(r) => permissions[requests[r].perm] # NoPerm
Unpurged ==
    \A r \in ReqId : Row(r) /\ ~terminal(requests[r].status) =>
        SnapshotReadable(r) /\ requests[r].result = "none"
PastApproval ==
    \A r \in ReqId :
        /\ InStatus(r, {"queued", "dispatching", "completed", "failed", "outcome_unknown"})
        /\ NeedsApproval(r)
        => Approved(r)

RecordInv == DispatchInv /\ PermsExist /\ Unpurged /\ PastApproval

\* The claim is the authorization boundary: the step into dispatching happens only while
\* device, service revision and permission are in force, permission and original deadline
\* unexpired, and not a moment later (validSnapshot inside the claim transaction).
ClaimStep(r) ==
    InStatus(r, {"queued"}) /\ requests'[r].status = "dispatching" =>
        LET x == requests[r] IN
        /\ ActiveDevice(x.device) /\ Enabled(x.service)
        /\ ActiveRule(x.perm, x.device, x.service)
        /\ permissions[x.perm].revision = x.revision
        /\ now < x.expires
ClaimBoundary == [][\A r \in ReqId : ClaimStep(r)]_vars

\* Rows are never deleted or rebound, so keys stay used for good; payload and result go
\* only a full retention period after the request was settled (maintenance).
RowKept(r) ==
    Row(r) =>
        /\ requests'[r] # NoReq
        /\ Digest(requests'[r]) = Digest(requests[r])
        /\ requests'[r].key = requests[r].key
        /\ requests'[r].snapshot # requests[r].snapshot =>
               terminal(requests[r].status) /\ requests[r].finished + Retention < now
        /\ requests[r].result = "kept" /\ requests'[r].result # "kept" =>
               terminal(requests[r].status) /\ requests[r].finished + Retention < now
RecordsKept == [][\A r \in ReqId : RowKept(r)]_vars

\* A direct HTTP call is never sent for a route some permission in force reserves for
\* individual approval (addPermission's overlap check and the handler's mode check).
HttpSendStep(h) ==
    AtHttp(h, "body") /\ http'[h].pc = "send" =>
        \A p \in PermId :
            /\ ActiveRule(p, http[h].device, http[h].service)
            /\ Match(permissions[p].rule, http[h].route)
            => permissions[p].mode = "standing"
ApprovalNotBypassed ==
    [][\A h \in Handler : http[h] # NoCall /\ http'[h] # NoCall => HttpSendStep(h)]_vars

\* Each request id goes through the lifecycle the gateway promises: the diagram of the
\* approval and execution lifecycle, one transmission at most, and an honest end.
Promise ==
    INSTANCE Lifecycle WITH
        Id <- ReqId,
        status <- [r \in ReqId |-> IF Row(r) THEN requests[r].status ELSE "absent"],
        transmitted <- sends
ImplementsLifecycle == Promise!Spec

\* While the server stays up and storage works, every request is settled: executed,
\* decided against, cancelled or expired (the worker's ticks, slots that come back, Send's
\* timeout and maintenance).
Settles ==
    <>[](phase = "up" /\ faults = 0) =>
        \A r \in ReqId : Row(r) ~> (Row(r) /\ terminal(requests[r].status))

\* An interrupted server gets to the point of closing its database (RunWorker's wait ends).
StopCompletes == phase = "stopping" ~> phase \in {"closed", "crashed"}
=============================================================================
