------------------------------ MODULE Dispatch ------------------------------
(***************************************************************************)
(* RunWorker and the dispatch goroutines it spawns. The worker loops over  *)
(* maintenance, a query for the oldest queued requests, and one goroutine  *)
(* per candidate it has a slot for. It does not remember what it spawned:  *)
(* until a goroutine claims its request, later passes spawn further ones   *)
(* for the same request. A goroutine claims in one transaction, sends      *)
(* without one, and records the outcome in another.                        *)
(***************************************************************************)
EXTENDS Requests, Slots

CONSTANTS Job,          \* dispatch goroutines
          BatchLimit,   \* candidates per pass, 32
          MaxFaults     \* bound on storage errors

VARIABLES worker,       \* where the loop of RunWorker is
          batch,        \* its candidates not yet looked at
          jobs,         \* the dispatch goroutines
          sends,        \* history: how often a request may have reached its upstream
          faults        \* history: storage errors so far

workerVars == <<worker, batch>>
dispatchVars == <<workerVars, jobs, sends, faults>>

ASSUME DispatchAssumption ==
    /\ IsFiniteSet(Job) /\ Cardinality(Job) >= GlobalLimit
    /\ BatchLimit \in Nat \ {0} /\ MaxFaults \in Nat

\* What dispatch hands to finish; lost and incomplete are both outcome_unknown, the second
\* with the part of the response that arrived.
Outcome == {"failed", "completed", "lost", "incomplete"}

JobState ==
    [pc : {"idle", "start", "claimed", "sent", "finish", "exit"},
     req : ReqId \cup {NoReq}, outcome : Outcome \cup {"none"}]

Idle == [pc |-> "idle", req |-> NoReq, outcome |-> "none"]

JobAt(j, pc) == jobs[j].pc = pc

DispatchTypeOK ==
    /\ worker \in {"wait", "scan", "spawn", "returned"}
    /\ batch \in SUBSET ReqId
    /\ jobs \in [Job -> JobState]
    /\ sends \in [ReqId -> Nat]
    /\ faults \in 0..MaxFaults

DispatchInit ==
    /\ worker = "returned"
    /\ batch = {}
    /\ jobs = [j \in Job |-> Idle]
    /\ sends = [r \in ReqId |-> 0]
    /\ faults = 0

\* A transaction that the storage refuses; every caller below ignores the error.
Fault == faults < MaxFaults /\ faults' = faults + 1

DeviceOf(r) == requests[r].device
-----------------------------------------------------------------------------
Maintain ==
    /\ worker = "wait"
    /\ worker' = "scan"
    /\ requests' = maintenance
    /\ UNCHANGED <<authorityVars, approvals, slotVars, batch, jobs, sends, faults>>

MaintainFails ==
    /\ worker = "wait"
    /\ Fault
    /\ worker' = "scan"
    /\ UNCHANGED <<dbVars, slotVars, batch, jobs, sends>>

Queued == { r \in ReqId : InStatus(r, {"queued"}) }

\* ORDER BY created,id LIMIT 32: ids are random, so any order among equal times.
OldestQueued(B) ==
    /\ B \subseteq Queued
    /\ Cardinality(B) = Min({BatchLimit, Cardinality(Queued)})
    /\ \A c \in B, o \in Queued \ B : requests[c].created <= requests[o].created

LoopFrom(B) == IF B = {} THEN "wait" ELSE "spawn"

Scan ==
    /\ worker = "scan"
    /\ \E B \in SUBSET Queued :
           /\ OldestQueued(B)
           /\ batch' = B
           /\ worker' = LoopFrom(B)
    /\ UNCHANGED <<dbVars, slotVars, jobs, sends, faults>>

\* The query fails: the loop waits for its next tick.
ScanFails ==
    /\ worker = "scan"
    /\ Fault
    /\ worker' = "wait"
    /\ UNCHANGED <<dbVars, slotVars, batch, jobs, sends>>

\* c is the candidate the loop looks at next.
Candidate(c) ==
    /\ worker = "spawn"
    /\ c \in batch
    /\ \A o \in batch : requests[c].created <= requests[o].created
    /\ batch' = batch \ {c}
    /\ worker' = LoopFrom(batch')

Spawn(c, j) ==
    /\ Candidate(c)
    /\ acquire(DeviceOf(c))
    /\ JobAt(j, "idle")
    /\ jobs' = [jobs EXCEPT ![j] = [pc |-> "start", req |-> c, outcome |-> "none"]]
    /\ UNCHANGED <<dbVars, sends, faults>>

\* An acquire that waits: no candidate is ever passed over.
SkipBlocks(c) == Candidate(c) /\ FALSE

Skip(c) ==
    /\ Candidate(c)
    /\ ~HasSlot(DeviceOf(c))
    /\ UNCHANGED <<dbVars, slotVars, jobs, sends, faults>>
-----------------------------------------------------------------------------
Goto(j, pc, outcome) == jobs' = [jobs EXCEPT ![j].pc = pc, ![j].outcome = outcome]

Approved(r) ==
    /\ approvals[r] # NoDecision
    /\ approvals[r].decision = "approve"
    /\ approvals[r].digest = Digest(requests[r])

\* Where the claim transaction moves a queued request.
ClaimVerdict(r) ==
    CASE ~SnapshotReadable(r) -> "failed"
      [] SnapshotReadable(r) /\ ~validSnapshot(r) -> "cancelled"
      [] SnapshotReadable(r) /\ validSnapshot(r) /\ NeedsApproval(r) /\ ~Approved(r) -> "failed"
      [] OTHER -> "dispatching"

\* A claim that trusts the status the worker's query saw.
ClaimableAsScanned(r) == Row(r)

Claimable(r) == InStatus(r, {"queued"})

\* The request was claimed or settled since this goroutine was spawned.
ClaimTooLate(j) ==
    /\ JobAt(j, "start")
    /\ ~Claimable(jobs[j].req)
    /\ Goto(j, "exit", "none")
    /\ UNCHANGED <<dbVars, slotVars, workerVars, sends, faults>>

ClaimRefused(j) ==
    LET r == jobs[j].req IN
    /\ JobAt(j, "start")
    /\ Claimable(r)
    /\ ClaimVerdict(r) # "dispatching"
    /\ requests' = finishTx(r, ClaimVerdict(r), "none")
    /\ Goto(j, "exit", "none")
    /\ UNCHANGED <<authorityVars, approvals, slotVars, workerVars, sends, faults>>

\* The claim, and the decryption of the credential read with it, which needs no more of
\* the database.
Claim(j) ==
    LET r == jobs[j].req IN
    /\ JobAt(j, "start")
    /\ Claimable(r)
    /\ ClaimVerdict(r) = "dispatching"
    /\ requests' = [requests EXCEPT ![r].status = "dispatching"]
    /\ IF CredentialOpensFor(requests[r].service, requests[r].revision)
       THEN Goto(j, "claimed", "none")
       ELSE Goto(j, "finish", "failed")
    /\ UNCHANGED <<authorityVars, approvals, slotVars, workerVars, sends, faults>>

ClaimFails(j) ==
    /\ JobAt(j, "start")
    /\ Fault
    /\ Goto(j, "exit", "none")
    /\ UNCHANGED <<dbVars, slotVars, workerVars, sends>>

\* Send fails before GotConn: ErrNotSent.
SendNotSent(j) ==
    /\ JobAt(j, "claimed")
    /\ Goto(j, "finish", "failed")
    /\ UNCHANGED <<dbVars, slotVars, workerVars, sends, faults>>

\* GotConn: from here on the upstream may have seen the request.
SendGotConn(j) ==
    /\ JobAt(j, "claimed")
    /\ sends' = [sends EXCEPT ![jobs[j].req] = @ + 1]
    /\ Goto(j, "sent", "none")
    /\ UNCHANGED <<dbVars, slotVars, workerVars, faults>>

\* What a Send that got its connection can end in, if an error after it counted as unsent.
ReplyOutcomeOptimistic == {"failed", "completed", "incomplete"}

\* An error after GotConn, a complete response whatever its status, or a body cut short.
ReplyOutcome == {"lost", "completed", "incomplete"}

SendReply(j) ==
    /\ JobAt(j, "sent")
    /\ \E o \in ReplyOutcome : Goto(j, "finish", o)
    /\ UNCHANGED <<dbVars, slotVars, workerVars, sends, faults>>

\* A status that the table's CHECK constraint does not know.
FinishStatusRaw(outcome) == outcome

FinishStatus(outcome) ==
    IF outcome \in {"lost", "incomplete"} THEN "outcome_unknown" ELSE outcome
FinishResult(outcome) ==
    IF outcome \in {"completed", "incomplete"} THEN "kept" ELSE "none"

Finish(j) ==
    /\ JobAt(j, "finish")
    /\ requests' = finishTx(jobs[j].req, FinishStatus(jobs[j].outcome),
                            FinishResult(jobs[j].outcome))
    /\ Goto(j, "exit", "none")
    /\ UNCHANGED <<authorityVars, approvals, slotVars, workerVars, sends, faults>>

\* The outcome is lost: the request stays in dispatching.
FinishFails(j) ==
    /\ JobAt(j, "finish")
    /\ Fault
    /\ Goto(j, "exit", "none")
    /\ UNCHANGED <<dbVars, slotVars, workerVars, sends>>

\* The deferred release of the goroutine.
Exit(j) ==
    /\ JobAt(j, "exit")
    /\ release(DeviceOf(jobs[j].req))
    /\ jobs' = [jobs EXCEPT ![j] = Idle]
    /\ UNCHANGED <<dbVars, workerVars, sends, faults>>

WorkerStep ==
    \/ Maintain
    \/ MaintainFails
    \/ Scan
    \/ ScanFails
    \/ \E c \in batch : Skip(c)
    \/ \E c \in batch, j \in Job : Spawn(c, j)

JobStep(j) ==
    \/ ClaimTooLate(j)
    \/ ClaimRefused(j)
    \/ Claim(j)
    \/ ClaimFails(j)
    \/ SendNotSent(j)
    \/ SendGotConn(j)
    \/ SendReply(j)
    \/ Finish(j)
    \/ FinishFails(j)
    \/ Exit(j)
=============================================================================
