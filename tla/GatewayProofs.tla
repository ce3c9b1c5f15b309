---------------------------- MODULE GatewayProofs ----------------------------
(***************************************************************************)
(* Proofs about Gateway, for every set of devices, services, permissions,  *)
(* requests, goroutines and handlers and every value of the limits: first  *)
(* the inductive invariant of dispatch, then what one step can do to a row *)
(* of the requests table, and from it the refinement of Lifecycle, the     *)
(* claim as authorization boundary, the approval of what is sent, and the  *)
(* retention of records.                                                   *)
(***************************************************************************)
EXTENDS Gateway, FiniteSetTheorems, TLAPS

USE DEF authorityVars, tableVars, dbVars, slotVars, workerVars, dispatchVars, memoryVars

Table == [ReqId -> Request \cup {NoReq}]
-----------------------------------------------------------------------------
\* A row that changes only its status, deadline bookkeeping and payload columns is a row.
LEMMA RowType ==
    ASSUME NEW x \in Request, NEW s \in Status, NEW f \in 0..Never
    PROVE  /\ [x EXCEPT !.status = s] \in Request
           /\ [x EXCEPT !.status = s, !.finished = f] \in Request
  BY DEF Request

\* What the clock says can be stored in a row.
LEMMA NowStorable == ASSUME TypeOK PROVE now \in 0..Never
  BY BoundAssumption DEF TypeOK, AuthorityTypeOK, Time, Never

\* cancelRequests yields a table.
LEMMA CancelType ==
    ASSUME TypeOK, NEW R PROVE cancelRequests(R) \in Table
<1> SUFFICES ASSUME NEW r \in ReqId
             PROVE  cancelRequests(R)[r] \in Request \cup {NoReq}
  BY DEF cancelRequests, Table
<1>1. now \in 0..Never
  BY NowStorable
<1>2. CASE Undispatched(r)
  <2>1. requests[r] \in Request
    BY <1>2 DEF Undispatched, InStatus, Row, TypeOK, RequestsTypeOK
  <2>2. [requests[r] EXCEPT !.status = "cancelled", !.finished = now] \in Request
    BY <2>1, <1>1, RowType DEF Status
  <2> QED
    BY <2>1, <2>2 DEF cancelRequests
<1>3. CASE ~Undispatched(r)
  BY <1>3 DEF cancelRequests, TypeOK, RequestsTypeOK
<1> QED
  BY <1>2, <1>3

\* recoverDispatches yields a table.
LEMMA RecoverType ==
    ASSUME TypeOK PROVE recoverDispatches \in Table
<1> SUFFICES ASSUME NEW r \in ReqId
             PROVE  recoverDispatches[r] \in Request \cup {NoReq}
  BY DEF recoverDispatches, Table
<1>1. now \in 0..Never
  BY NowStorable
<1>2. CASE InStatus(r, {"dispatching"})
  <2>1. requests[r] \in Request
    BY <1>2 DEF InStatus, Row, TypeOK, RequestsTypeOK
  <2>2. [requests[r] EXCEPT !.status = "outcome_unknown", !.finished = now] \in Request
    BY <2>1, <1>1, RowType DEF Status
  <2> QED
    BY <1>2, <2>2 DEF recoverDispatches
<1>3. CASE ~InStatus(r, {"dispatching"})
  BY <1>3 DEF recoverDispatches, TypeOK, RequestsTypeOK
<1> QED
  BY <1>2, <1>3

\* maintenance yields a table.
LEMMA MaintenanceType ==
    ASSUME TypeOK PROVE maintenance \in Table
<1> SUFFICES ASSUME NEW r \in ReqId
             PROVE  maintenance[r] \in Request \cup {NoReq}
  BY DEF maintenance, Table
<1>1. now \in 0..Never
  BY NowStorable
<1>2. CASE Row(r)
  <2>1. requests[r] \in Request
    BY <1>2 DEF Row, TypeOK, RequestsTypeOK
  <2>2. Expire(requests[r]) \in Request
    BY <2>1, <1>1, RowType DEF Expire, Status
  <2>3. ASSUME NEW x \in Request PROVE Purge(x) \in Request
    BY DEF Purge, Request
  <2> QED
    BY <1>2, <2>2, <2>3 DEF maintenance
<1>3. CASE ~Row(r)
  BY <1>3 DEF maintenance
<1> QED
  BY <1>2, <1>3

\* finishTx on a row yields a table.
LEMMA FinishType ==
    ASSUME TypeOK, NEW r \in ReqId, Row(r), NEW s \in Status, NEW v \in {"none", "kept"}
    PROVE  finishTx(r, s, v) \in Table
<1>1. now \in 0..Never
  BY NowStorable
<1>2. requests[r] \in Request
  BY DEF Row, TypeOK, RequestsTypeOK
<1>3. [requests[r] EXCEPT !.status = s, !.finished = now, !.result = v] \in Request
  BY <1>1, <1>2 DEF Request
<1> QED
  BY <1>3 DEF finishTx, TypeOK, RequestsTypeOK, Table
-----------------------------------------------------------------------------
\* The owner's and the devices' transactions keep every column's type.
LEMMA TransactionType ==
    ASSUME TypeOK,
           \/ \E d \in Device : OwnerInvite(d) \/ OwnerRevokeDevice(d)
           \/ \E s \in Service :
                  OwnerCreateService(s) \/ OwnerReviseService(s) \/ OwnerDisableService(s)
           \/ \E p \in PermId : OwnerAddPermission(p) \/ OwnerRevokePermission(p)
           \/ \E r \in ReqId : DeviceSubmit(r) \/ OwnerDecide(r)
    PROVE  TypeOK'
<1> USE DEF TypeOK, Transaction, SlotsTypeOK, DispatchTypeOK, HttpTypeOK
<1>1. ASSUME NEW d \in Device, OwnerInvite(d) PROVE TypeOK'
  BY <1>1 DEF OwnerInvite, Invite, AuthorityTypeOK, RequestsTypeOK
<1>2. ASSUME NEW d \in Device, OwnerRevokeDevice(d) PROVE TypeOK'
  BY <1>2, CancelType DEF OwnerRevokeDevice, RevokeDevice, AuthorityTypeOK, RequestsTypeOK, Table
<1>3. ASSUME NEW s \in Service, OwnerCreateService(s) PROVE TypeOK'
  BY <1>3, BoundAssumption
     DEF OwnerCreateService, CreateService, AuthorityTypeOK, RequestsTypeOK, ServiceRow
<1>4. ASSUME NEW s \in Service, OwnerReviseService(s) PROVE TypeOK'
  BY <1>4, BoundAssumption, CancelType
     DEF OwnerReviseService, ReviseService, AuthorityTypeOK, RequestsTypeOK, ServiceRow, Table
<1>5. ASSUME NEW s \in Service, OwnerDisableService(s) PROVE TypeOK'
  BY <1>5, BoundAssumption, CancelType
     DEF OwnerDisableService, DisableService, AuthorityTypeOK, RequestsTypeOK, ServiceRow, Table
<1>6. ASSUME NEW p \in PermId, OwnerAddPermission(p) PROVE TypeOK'
  BY <1>6, BoundAssumption
     DEF OwnerAddPermission, AddPermission, GrantTo, AuthorityTypeOK, RequestsTypeOK,
         Permission, ServiceRow
<1>7. ASSUME NEW p \in PermId, OwnerRevokePermission(p) PROVE TypeOK'
  BY <1>7, CancelType
     DEF OwnerRevokePermission, RevokePermission, AuthorityTypeOK, RequestsTypeOK,
         Permission, Table
<1>8. ASSUME NEW r \in ReqId, DeviceSubmit(r) PROVE TypeOK'
  BY <1>8, BoundAssumption, RequestAssumption
     DEF DeviceSubmit, Submit, InsertRequest, Authorize, AuthorityTypeOK, RequestsTypeOK,
         Request, Status, ServiceRow, Time, Never, TTL
<1>9. ASSUME NEW r \in ReqId, OwnerDecide(r) PROVE TypeOK'
  <2>1. PICK q \in ReqId, decision \in {"approve", "deny"} :
            Row(q) /\ Decide(r, Digest(requests[q]), decision)
    BY <1>9 DEF OwnerDecide
  <2>2. requests[q] \in Request /\ requests[r] \in Request
    BY <2>1 DEF Decide, Row, InStatus, RequestsTypeOK
  <2>3. Digest(requests[q]) \in Snapshot
    BY <2>2 DEF Digest, Snapshot, Request
  <2>4. approvals' \in [ReqId -> Decision \cup {NoDecision}]
    BY <2>1, <2>3 DEF Decide, Record, RequestsTypeOK, Decision
  <2>5. now \in 0..Never /\ Never \in 0..Never
    BY NowStorable, BoundAssumption DEF Never
  <2>6. requests' \in Table
    BY <2>1, <2>2, <2>5 DEF Decide, Record, RequestsTypeOK, Request, Status, Table
  <2> QED
    BY <1>9, <2>1, <2>4, <2>6
       DEF OwnerDecide, Decide, Record, AuthorityTypeOK, RequestsTypeOK, Table
<1> QED
  BY <1>1, <1>2, <1>3, <1>4, <1>5, <1>6, <1>7, <1>8, <1>9

\* Counting a slot in or out keeps the counters' type.
LEMMA SlotType ==
    ASSUME SlotsTypeOK(Device), NEW d, acquire(d) \/ release(d)
    PROVE  SlotsTypeOK(Device)'
<1>1. global' \in Int
  BY DEF SlotsTypeOK, acquire, release
<1>2. DOMAIN active' = Device
  BY DEF SlotsTypeOK, acquire, release
<1>3. ASSUME NEW e \in Device PROVE active'[e] \in Int
  <2>1. active[e] \in Int
    BY DEF SlotsTypeOK
  <2>2. active'[e] \in {active[e], active[e] + 1, active[e] - 1}
    BY DEF SlotsTypeOK, acquire, release
  <2> QED
    BY <2>1, <2>2
<1>4. active' = [e \in Device |-> active'[e]]
  BY <1>2 DEF SlotsTypeOK, acquire, release
<1> QED
  BY <1>1, <1>3, <1>4 DEF SlotsTypeOK

\* The worker's loop keeps every column's type.
LEMMA WorkerType ==
    ASSUME TypeOK, Worker PROVE TypeOK'
<1> USE DEF TypeOK, Worker, AuthorityTypeOK, HttpTypeOK
<1>1. CASE Maintain
  <2>1. requests' \in Table
    BY <1>1, MaintenanceType DEF Maintain
  <2> QED
    BY <1>1, <2>1 DEF Maintain, RequestsTypeOK, SlotsTypeOK, DispatchTypeOK, Table
<1>2. CASE MaintainFails
  BY <1>2, DispatchAssumption
     DEF MaintainFails, Fault, RequestsTypeOK, SlotsTypeOK, DispatchTypeOK
<1>3. CASE Scan
  <2>1. PICK B \in SUBSET Queued : batch' = B /\ worker' = LoopFrom(B)
    BY <1>3 DEF Scan
  <2>2. B \in SUBSET ReqId /\ LoopFrom(B) \in {"wait", "spawn"}
    BY <2>1 DEF Queued, LoopFrom
  <2> QED
    BY <1>3, <2>1, <2>2 DEF Scan, RequestsTypeOK, SlotsTypeOK, DispatchTypeOK
<1>4. CASE ScanFails
  BY <1>4, DispatchAssumption
     DEF ScanFails, Fault, RequestsTypeOK, SlotsTypeOK, DispatchTypeOK
<1>5. ASSUME NEW c \in batch, Skip(c) PROVE TypeOK'
  BY <1>5 DEF Skip, Candidate, LoopFrom, RequestsTypeOK, SlotsTypeOK, DispatchTypeOK
<1>6. ASSUME NEW c \in batch, NEW j \in Job, Spawn(c, j) PROVE TypeOK'
  <2>1. worker' \in {"wait", "spawn"} /\ batch' \in SUBSET ReqId
    BY <1>6 DEF Spawn, Candidate, LoopFrom, DispatchTypeOK
  <2>2. jobs' \in [Job -> JobState]
    BY <1>6 DEF Spawn, JobState, DispatchTypeOK
  <2>3. SlotsTypeOK(Device)'
    BY <1>6, SlotType DEF Spawn
  <2> QED
    BY <1>6, <2>1, <2>2, <2>3 DEF Spawn, RequestsTypeOK, DispatchTypeOK
<1> QED
  BY <1>1, <1>2, <1>3, <1>4, <1>5, <1>6 DEF WorkerStep

\* Moving a goroutine on keeps the type of its state.
LEMMA GotoType ==
    ASSUME TypeOK, NEW j \in Job,
           NEW pc \in {"idle", "start", "claimed", "sent", "finish", "exit"},
           NEW o \in Outcome \cup {"none"}, Goto(j, pc, o)
    PROVE  jobs' \in [Job -> JobState]
  BY DEF Goto, JobState, TypeOK, DispatchTypeOK

\* A dispatch goroutine keeps every column's type; that it works on a row is what its
\* UPDATEs need.
LEMMA DispatchingType ==
    ASSUME TypeOK, JobsOnRows, OutcomeKnown, NEW j \in Job, Dispatching(j) PROVE TypeOK'
<1> DEFINE r == jobs[j].req
<1> USE DEF Dispatching
<1>r. ~JobAt(j, "idle") => r \in ReqId /\ Row(r)
  BY DEF JobsOnRows
<1>a. ASSUME jobs' \in [Job -> JobState], UNCHANGED <<dbVars, slotVars, workerVars, sends>>,
             faults' = faults \/ Fault
      PROVE  TypeOK'
  BY <1>a, DispatchAssumption
     DEF TypeOK, AuthorityTypeOK, RequestsTypeOK, SlotsTypeOK, DispatchTypeOK, HttpTypeOK, Fault
<1>b. ASSUME jobs' \in [Job -> JobState], requests' \in Table,
             UNCHANGED <<authorityVars, approvals, slotVars, workerVars, sends, faults>>
      PROVE  TypeOK'
  BY <1>b
     DEF TypeOK, AuthorityTypeOK, RequestsTypeOK, SlotsTypeOK, DispatchTypeOK, HttpTypeOK, Table
<1>1. CASE ClaimTooLate(j)
  BY <1>1, <1>a, GotoType DEF ClaimTooLate
<1>2. CASE ClaimRefused(j)
  <2>1. ClaimVerdict(r) \in {"failed", "cancelled", "dispatching"}
    BY DEF ClaimVerdict
  <2>2. requests' \in Table
    BY <1>2, <1>r, <2>1, FinishType DEF ClaimRefused, JobAt, Status
  <2> QED
    BY <1>2, <2>2, <1>b, GotoType DEF ClaimRefused
<1>3. CASE Claim(j)
  <2>1. r \in ReqId /\ requests[r] \in Request
    BY <1>3, <1>r DEF Claim, JobAt, Row, TypeOK, RequestsTypeOK
  <2>2. [requests[r] EXCEPT !.status = "dispatching"] \in Request
    BY <2>1 DEF Request, Status
  <2>3. requests' \in Table
    BY <1>3, <2>1, <2>2 DEF Claim, TypeOK, RequestsTypeOK, Table
  <2>4. jobs' \in [Job -> JobState]
    BY <1>3, GotoType DEF Claim, Outcome
  <2> QED
    BY <1>3, <2>3, <2>4, <1>b DEF Claim
<1>4. CASE ClaimFails(j)
  BY <1>4, <1>a, GotoType DEF ClaimFails
<1>5. CASE SendNotSent(j)
  BY <1>5, <1>a, GotoType DEF SendNotSent, Outcome
<1>6. CASE SendGotConn(j)
  <2>1. jobs' \in [Job -> JobState]
    BY <1>6, GotoType DEF SendGotConn
  <2>2. sends' \in [ReqId -> Nat]
    BY <1>6, <1>r DEF SendGotConn, JobAt, TypeOK, DispatchTypeOK
  <2> QED
    BY <1>6, <2>1, <2>2
       DEF SendGotConn, TypeOK, AuthorityTypeOK, RequestsTypeOK, SlotsTypeOK, DispatchTypeOK,
           HttpTypeOK
<1>7. CASE SendReply(j)
  BY <1>7, <1>a, GotoType DEF SendReply, ReplyOutcome, Outcome
<1>8. CASE Finish(j)
  <2>1. jobs[j].outcome \in Outcome => FinishStatus(jobs[j].outcome) \in Status
    BY DEF FinishStatus, Outcome, Status
  <2>2. FinishResult(jobs[j].outcome) \in {"none", "kept"}
    BY DEF FinishResult
  <2>3. CASE jobs[j].outcome \in Outcome
    BY <1>8, <2>1, <2>2, <2>3, <1>r, <1>b, FinishType, GotoType DEF Finish, JobAt
  <2>4. jobs[j].outcome \in Outcome
    BY <1>8 DEF Finish, OutcomeKnown
  <2> QED
    BY <2>3, <2>4
<1>9. CASE FinishFails(j)
  BY <1>9, <1>a, GotoType DEF FinishFails
<1>10. CASE Exit(j)
  <2>1. jobs' \in [Job -> JobState]
    BY <1>10 DEF Exit, Idle, JobState, TypeOK, DispatchTypeOK
  <2>2. SlotsTypeOK(Device)'
    BY <1>10, SlotType DEF Exit, TypeOK
  <2> QED
    BY <1>10, <2>1, <2>2
       DEF Exit, TypeOK, AuthorityTypeOK, RequestsTypeOK, DispatchTypeOK, HttpTypeOK
<1> QED
  BY <1>1, <1>2, <1>3, <1>4, <1>5, <1>6, <1>7, <1>8, <1>9, <1>10 DEF JobStep

\* An HTTP handler keeps every column's type.
LEMMA ProxyingType ==
    ASSUME TypeOK, NEW h \in Handler, Proxying(h) PROVE TypeOK'
<1> USE DEF Proxying
<1>a. ASSUME http' \in [Handler -> Call \cup {NoCall}], UNCHANGED authorityVars,
             SlotsTypeOK(Device)'
      PROVE  TypeOK'
  BY <1>a DEF TypeOK, AuthorityTypeOK, RequestsTypeOK, DispatchTypeOK, HttpTypeOK
<1>b. UNCHANGED slotVars => SlotsTypeOK(Device)'
  BY DEF TypeOK, SlotsTypeOK
<1>c. ASSUME NEW pc, AtHttp(h, pc) PROVE http[h] \in Call
  BY <1>c DEF AtHttp, TypeOK, HttpTypeOK
<1>1. ASSUME NEW d \in Device, NEW s \in Service, NEW q \in Routes, HttpAccept(h, d, s, q)
      PROVE  TypeOK'
  <2>1. http' \in [Handler -> Call \cup {NoCall}]
    BY <1>1 DEF HttpAccept, Call, TypeOK, HttpTypeOK
  <2> QED
    BY <1>1, <2>1, <1>a, SlotType DEF HttpAccept, TypeOK
<1>2. CASE HttpBodyFails(h)
  BY <1>2, <1>a, <1>b, <1>c DEF HttpBodyFails, Call, TypeOK, HttpTypeOK
<1>3. CASE HttpRefuse(h)
  BY <1>3, <1>a, <1>b, <1>c DEF HttpRefuse, Call, TypeOK, HttpTypeOK
<1>4. CASE HttpAuthorize(h)
  <2>1. PICK p \in PermId, pc \in {"send", "exit"} :
            http' = [http EXCEPT ![h].pc = pc, ![h].perm = p]
    BY <1>4 DEF HttpAuthorize, HttpPermitted, Authorize
  <2>2. http[h] \in Call
    BY <1>4, <1>c DEF HttpAuthorize
  <2>3. http' \in [Handler -> Call \cup {NoCall}]
    BY <2>1, <2>2 DEF Call, TypeOK, HttpTypeOK
  <2> QED
    BY <1>4, <2>3, <1>a, <1>b DEF HttpAuthorize
<1>5. CASE HttpSent(h)
  BY <1>5, <1>a, <1>b, <1>c DEF HttpSent, Call, TypeOK, HttpTypeOK
<1>6. CASE HttpExit(h)
  <2>1. http' \in [Handler -> Call \cup {NoCall}]
    BY <1>6 DEF HttpExit, TypeOK, HttpTypeOK
  <2> QED
    BY <1>6, <2>1, <1>a, SlotType DEF HttpExit, TypeOK
<1> QED
  BY <1>1, <1>2, <1>3, <1>4, <1>5, <1>6 DEF HttpStep

\* Starting, stopping, crashing and the clock keep every column's type.
LEMMA ProcessType ==
    ASSUME TypeOK,
           \/ Clock \/ Start \/ StartRestored \/ FinishRestored
           \/ Stop \/ WorkerReturn \/ Close \/ Crash
    PROVE  TypeOK'
<1> USE DEF TypeOK, HttpTypeOK, Phase
<1>a. LoseMemory => /\ SlotsTypeOK(Device)'
                    /\ worker' = "returned" /\ batch' \in SUBSET ReqId
                    /\ jobs' \in [Job -> JobState]
                    /\ http' \in [Handler -> Call \cup {NoCall}]
  BY DEF LoseMemory, SlotsReset, SlotsTypeOK, Idle, JobState
<1>1. CASE Clock
  BY <1>1, BoundAssumption
     DEF Clock, Tick, AuthorityTypeOK, RequestsTypeOK, SlotsTypeOK, DispatchTypeOK, Time
<1>2. CASE Start \/ StartRestored
  BY <1>2, RecoverType
     DEF Start, StartRestored, StartWith, AuthorityTypeOK, RequestsTypeOK, SlotsTypeOK,
         DispatchTypeOK, Table
<1>3. CASE FinishRestored
  BY <1>3, CancelType
     DEF FinishRestored, RecoverRestored, AuthorityTypeOK, RequestsTypeOK, SlotsTypeOK,
         DispatchTypeOK, Table
<1>4. CASE Stop \/ WorkerReturn
  BY <1>4
     DEF Stop, WorkerReturn, AuthorityTypeOK, RequestsTypeOK, SlotsTypeOK, DispatchTypeOK
<1>5. CASE Close \/ Crash
  BY <1>5, <1>a DEF Close, Crash, AuthorityTypeOK, RequestsTypeOK, DispatchTypeOK
<1> QED
  BY <1>1, <1>2, <1>3, <1>4, <1>5
-----------------------------------------------------------------------------
\* A step of the tables that leaves claimed and settled requests where they are: rows may
\* be inserted, waiting rows may move, and every row keeps its owner and key.
Waits == {"pending_approval", "queued"}
TableStep ==
    \A r \in ReqId :
        IF Row(r)
        THEN /\ Row(r)'
             /\ requests'[r].device = requests[r].device
             /\ requests'[r].key = requests[r].key
             /\ \/ requests'[r].status = requests[r].status
                \/ /\ requests[r].status \in Waits
                   /\ requests'[r].status \in {"queued", "denied", "expired", "cancelled", "failed"}
        ELSE Row(r)' => requests'[r].status \in Waits
NoInsert == \A r \in ReqId : Row(r)' => Row(r)

\* A step in which goroutines start, let go or return, and none takes hold of a request.
NoNewHolder ==
    \A k \in Job :
        \/ jobs'[k] = jobs[k]
        \/ jobs'[k].pc = "idle"
        \/ jobs'[k].pc \in {"start", "exit"} /\ jobs'[k].req \in ReqId /\ Row(jobs'[k].req)

\* What every step keeps: the invariant of one life of the file and, if the history of
\* transmissions is that of this life, the dispatch invariant with it.
Kept == HoldInv' /\ (DispatchInv => DispatchInv')

\* A step that is both, with the history left alone, keeps the invariants.
LEMMA QuietStepKeeps ==
    ASSUME HoldInv, TypeOK', TableStep, NoNewHolder, UNCHANGED sends,
           KeysUnique', QuietWhenDown', \A c \in batch' : Row(c)
    PROVE  Kept
<1> USE DEF HoldInv, TableStep, NoNewHolder, Row
<1>1. BatchOnRows'
  BY DEF BatchOnRows, TypeOK, DispatchTypeOK
<1>2. JobsOnRows'
  BY DEF JobsOnRows, JobAt
<1>3. ClaimsExclusive'
  <2> SUFFICES ASSUME NEW j \in Job, Holding(j)'
               PROVE  /\ InStatus(jobs[j].req, {"dispatching"})'
                      /\ \A k \in Job : k # j /\ Holding(k)' => jobs'[k].req # jobs'[j].req
    BY DEF ClaimsExclusive
  <2>1. \A k \in Job : Holding(k)' => Holding(k) /\ jobs'[k] = jobs[k]
    BY DEF Holding
  <2>2. jobs[j].req \in ReqId /\ InStatus(jobs[j].req, {"dispatching"})
    BY <2>1 DEF ClaimsExclusive, JobsOnRows, JobAt, Holding
  <2>3. InStatus(jobs[j].req, {"dispatching"})'
    BY <2>1, <2>2 DEF InStatus, Waits
  <2> QED
    BY <2>1, <2>3 DEF ClaimsExclusive
<1>4. OutcomeKnown' /\ (HolderKnows => HolderKnows')
  BY DEF OutcomeKnown, HolderKnows, JobAt
<1>5. AtMostOnce /\ HonestOutcome => AtMostOnce' /\ HonestOutcome'
  BY DEF HonestOutcome, InStatus, AtMostOnce, Waits
<1> QED
  BY <1>1, <1>2, <1>3, <1>4, <1>5 DEF Kept, DispatchInv

\* In particular one that leaves the goroutines alone.
LEMMA TableStepKeeps ==
    ASSUME HoldInv, TypeOK', TableStep, KeysUnique', \A c \in batch' : Row(c),
           UNCHANGED <<jobs, sends, phase>>
    PROVE  Kept
<1>1. NoNewHolder
  BY DEF NoNewHolder
<1>2. QuietWhenDown'
  BY DEF HoldInv, QuietWhenDown, JobAt, Serving
<1> QED
  BY <1>1, <1>2, QuietStepKeeps

\* Without an insertion the keys stay unique.
LEMMA KeysStay ==
    ASSUME KeysUnique, TableStep, NoInsert PROVE KeysUnique'
  BY DEF KeysUnique, TableStep, NoInsert, Row

\* cancelRequests is such a step, without insertions.
LEMMA CancelStep ==
    ASSUME TypeOK, NEW R, requests' = cancelRequests(R) PROVE TableStep /\ NoInsert
<1> SUFFICES ASSUME NEW r \in ReqId
             PROVE  /\ Row(r)' <=> Row(r)
                    /\ Row(r) =>
                         /\ requests'[r].device = requests[r].device
                         /\ requests'[r].key = requests[r].key
                         /\ \/ requests'[r].status = requests[r].status
                            \/ /\ requests[r].status \in Waits
                               /\ requests'[r].status = "cancelled"
  BY DEF TableStep, NoInsert
<1>1. CASE r \in R /\ Undispatched(r)
  <2>1. requests'[r] = [requests[r] EXCEPT !.status = "cancelled", !.finished = now]
    BY <1>1 DEF cancelRequests
  <2>2. requests[r] \in Request /\ requests[r].status \in Waits
    BY <1>1 DEF Undispatched, InStatus, Row, TypeOK, RequestsTypeOK, Waits
  <2>3. requests'[r] \in Request
    BY <2>1, <2>2, NowStorable, RowType DEF Status
  <2> QED
    BY <2>1, <2>2, <2>3, RequestAssumption DEF Row, Request
<1>2. CASE ~(r \in R /\ Undispatched(r))
  BY <1>2 DEF cancelRequests, Row
<1> QED
  BY <1>1, <1>2

\* So is maintenance.
LEMMA MaintenanceStep ==
    ASSUME TypeOK, requests' = maintenance PROVE TableStep /\ NoInsert
<1> SUFFICES ASSUME NEW r \in ReqId
             PROVE  /\ Row(r)' <=> Row(r)
                    /\ Row(r) =>
                         /\ requests'[r].device = requests[r].device
                         /\ requests'[r].key = requests[r].key
                         /\ \/ requests'[r].status = requests[r].status
                            \/ /\ requests[r].status \in Waits
                               /\ requests'[r].status = "expired"
  BY DEF TableStep, NoInsert
<1>1. CASE Row(r)
  <2> DEFINE x == requests[r]
  <2>1. x \in Request /\ requests'[r] = Purge(Expire(x))
    BY <1>1 DEF maintenance, Row, TypeOK, RequestsTypeOK
  <2>2. /\ Expire(x) \in Request
        /\ Expire(x).device = x.device /\ Expire(x).key = x.key
        /\ \/ Expire(x).status = x.status
           \/ x.status \in Waits /\ Expire(x).status = "expired"
    BY <2>1, NowStorable DEF Expire, Request, Status, Waits
  <2>3. ASSUME NEW y \in Request
        PROVE  /\ Purge(y) \in Request
               /\ Purge(y).device = y.device /\ Purge(y).key = y.key
               /\ Purge(y).status = y.status
    BY DEF Purge, Request
  <2> QED
    BY <1>1, <2>1, <2>2, <2>3, RequestAssumption DEF Row
<1>2. CASE ~Row(r)
  BY <1>2 DEF maintenance, Row
<1> QED
  BY <1>1, <1>2

\* Every transaction of the owner and of the devices keeps the invariants.
LEMMA TransactionInv ==
    ASSUME HoldInv,
           \/ \E d \in Device : OwnerInvite(d) \/ OwnerRevokeDevice(d)
           \/ \E s \in Service :
                  OwnerCreateService(s) \/ OwnerReviseService(s) \/ OwnerDisableService(s)
           \/ \E p \in PermId : OwnerAddPermission(p) \/ OwnerRevokePermission(p)
           \/ \E r \in ReqId : DeviceSubmit(r) \/ OwnerDecide(r)
    PROVE  Kept
<1> USE DEF Transaction
<1>t. TypeOK /\ TypeOK'
  BY TransactionType DEF HoldInv
<1>k. KeysUnique
  BY DEF HoldInv
<1>c. UNCHANGED batch => \A c \in batch' : Row(c)
  BY DEF HoldInv, BatchOnRows
<1>a. ASSUME UNCHANGED <<requests, batch, jobs, sends, phase>> PROVE Kept
  <2>1. TableStep /\ NoInsert
    BY <1>a DEF TableStep, NoInsert, Row
  <2> QED
    BY <1>a, <1>c, <1>t, <1>k, <2>1, KeysStay, TableStepKeeps
<1>b. ASSUME NEW R, requests' = cancelRequests(R), UNCHANGED <<batch, jobs, sends, phase>>
      PROVE  Kept
  BY <1>b, <1>c, <1>t, <1>k, CancelStep, KeysStay, TableStepKeeps
<1>1. ASSUME NEW d \in Device, OwnerInvite(d) PROVE Kept
  BY <1>1, <1>a DEF OwnerInvite
<1>2. ASSUME NEW d \in Device, OwnerRevokeDevice(d) PROVE Kept
  BY <1>2, <1>b DEF OwnerRevokeDevice, RevokeDevice
<1>3. ASSUME NEW s \in Service, OwnerCreateService(s) PROVE Kept
  BY <1>3, <1>a DEF OwnerCreateService
<1>4. ASSUME NEW s \in Service, OwnerReviseService(s) PROVE Kept
  BY <1>4, <1>b DEF OwnerReviseService, ReviseService
<1>5. ASSUME NEW s \in Service, OwnerDisableService(s) PROVE Kept
  BY <1>5, <1>b DEF OwnerDisableService, DisableService
<1>6. ASSUME NEW p \in PermId, OwnerAddPermission(p) PROVE Kept
  BY <1>6, <1>a DEF OwnerAddPermission
<1>7. ASSUME NEW p \in PermId, OwnerRevokePermission(p) PROVE Kept
  BY <1>7, <1>b DEF OwnerRevokePermission, RevokePermission
<1>8. ASSUME NEW r \in ReqId, DeviceSubmit(r) PROVE Kept
  <2>1. PICK d \in Device, k \in Key, s \in Service, q \in Routes, b \in Body :
            Submit(r, d, k, s, q, b)
    BY <1>8 DEF DeviceSubmit
  <2>2. /\ ~Row(r)
        /\ requests'[r].status \in Waits
        /\ requests'[r].device = d /\ requests'[r].key = k
        /\ \A o \in ReqId : o # r => requests'[o] = requests[o]
    BY <2>1, <1>t DEF Submit, InsertRequest, Row, Waits, TypeOK, RequestsTypeOK
  <2>3. TableStep
    BY <2>2 DEF TableStep, Row
  <2>4. \A o \in ReqId : Row(o) => ~(requests[o].device = d /\ requests[o].key = k)
    BY <2>1 DEF Submit, SameKey
  <2>5. KeysUnique'
    BY <1>k, <2>2, <2>4 DEF KeysUnique, Row
  <2> QED
    BY <1>8, <1>c, <1>t, <2>3, <2>5, TableStepKeeps DEF DeviceSubmit
<1>9. ASSUME NEW r \in ReqId, OwnerDecide(r) PROVE Kept
  <2>1. PICK q \in ReqId, decision \in {"approve", "deny"} :
            Decide(r, Digest(requests[q]), decision)
    BY <1>9 DEF OwnerDecide
  <2>2. requests[r] \in Request /\ requests[r].status = "pending_approval"
    BY <2>1, <1>t DEF Decide, InStatus, Row, TypeOK, RequestsTypeOK
  <2>3. requests'[r] \in Request \cup {NoReq} /\ Row(r)
    BY <1>t, <2>1 DEF TypeOK, RequestsTypeOK, Decide
  <2>4. /\ requests'[r] = [requests[r] EXCEPT
               !.status = IF decision = "approve" THEN "queued" ELSE "denied",
               !.finished = IF decision = "approve" THEN Never ELSE now]
        /\ \A o \in ReqId : o # r => requests'[o] = requests[o]
    BY <2>1, <1>t DEF Decide, Record, TypeOK, RequestsTypeOK
  <2> DEFINE f == IF decision = "approve" THEN Never ELSE now
             s == IF decision = "approve" THEN "queued" ELSE "denied"
  <2>5. now \in 0..Never /\ Never \in 0..Never
    BY NowStorable, BoundAssumption, <1>t DEF Never
  <2>6. f \in 0..Never /\ s \in Status /\ s \in {"queued", "denied"}
    BY <2>5 DEF Status
  <2>7. requests'[r] = [requests[r] EXCEPT !.status = s, !.finished = f]
    BY <2>4
  <2> HIDE DEF f, s
  <2>8. /\ requests'[r] \in Request
        /\ requests'[r].status = s
        /\ requests'[r].device = requests[r].device /\ requests'[r].key = requests[r].key
    BY <2>2, <2>6, <2>7 DEF Request
  <2>9. TableStep /\ NoInsert
    BY <2>2, <2>3, <2>4, <2>6, <2>8, RequestAssumption DEF TableStep, NoInsert, Row, Waits
  <2> QED
    BY <1>9, <1>c, <1>t, <1>k, <2>9, KeysStay, TableStepKeeps DEF OwnerDecide
<1> QED
  BY <1>1, <1>2, <1>3, <1>4, <1>5, <1>6, <1>7, <1>8, <1>9

\* The worker's loop keeps it: a spawned goroutine holds nothing yet.
LEMMA WorkerInv ==
    ASSUME HoldInv, Worker PROVE Kept
<1>t. TypeOK /\ TypeOK' /\ KeysUnique
  BY WorkerType DEF HoldInv
<1>c. \A c \in batch : Row(c)
  BY DEF HoldInv, BatchOnRows
<1>1. CASE Maintain
  BY <1>1, <1>c, <1>t, MaintenanceStep, KeysStay, TableStepKeeps DEF Maintain, Worker
<1>2. CASE MaintainFails \/ Scan \/ ScanFails \/ \E c \in batch : Skip(c)
  <2>1. UNCHANGED <<requests, jobs, sends, phase>>
    BY <1>2 DEF MaintainFails, Scan, ScanFails, Skip, Worker
  <2>2. TableStep /\ NoInsert
    BY <2>1 DEF TableStep, NoInsert, Row
  <2>3. \A c \in batch' : Row(c)
    BY <1>2, <1>c DEF MaintainFails, Scan, ScanFails, Skip, Candidate, Queued, InStatus
  <2> QED
    BY <1>t, <2>1, <2>2, <2>3, KeysStay, TableStepKeeps
<1>3. ASSUME NEW c \in batch, NEW j \in Job, Spawn(c, j) PROVE Kept
  <2>1. /\ c \in ReqId /\ Row(c)
        /\ jobs' = [jobs EXCEPT ![j] = [pc |-> "start", req |-> c, outcome |-> "none"]]
        /\ jobs \in [Job -> JobState]
        /\ UNCHANGED <<requests, sends, phase>>
        /\ Serving
    BY <1>3, <1>c, <1>t DEF Spawn, Worker, TypeOK, DispatchTypeOK
  <2>2. TableStep /\ NoInsert /\ KeysUnique'
    BY <1>t, <2>1, KeysStay DEF TableStep, NoInsert, Row
  <2>3. NoNewHolder
    BY <2>1 DEF NoNewHolder
  <2>4. QuietWhenDown' /\ \A b \in batch' : Row(b)
    BY <1>3, <1>c, <2>1 DEF QuietWhenDown, Serving, Spawn, Candidate
  <2> QED
    BY <1>t, <2>1, <2>2, <2>3, <2>4, QuietStepKeeps
<1> QED
  BY <1>1, <1>2, <1>3 DEF Worker, WorkerStep

\* Goto moves one goroutine and keeps its request.
LEMMA GotoMoves ==
    ASSUME TypeOK, NEW j \in Job, NEW pc, NEW o, Goto(j, pc, o)
    PROVE  /\ jobs'[j].pc = pc /\ jobs'[j].req = jobs[j].req /\ jobs'[j].outcome = o
           /\ \A k \in Job : k # j => jobs'[k] = jobs[k]
  BY DEF Goto, JobState, TypeOK, DispatchTypeOK

\* finishTx changes one row and keeps its owner and key.
LEMMA FinishMoves ==
    ASSUME TypeOK, NEW r \in ReqId, Row(r), NEW s \in Status, NEW v \in {"none", "kept"},
           requests' = finishTx(r, s, v)
    PROVE  /\ requests'[r] # NoReq /\ requests'[r].status = s
           /\ requests'[r].device = requests[r].device /\ requests'[r].key = requests[r].key
           /\ \A o \in ReqId : o # r => requests'[o] = requests[o]
<1>1. requests[r] \in Request /\ now \in 0..Never
  BY NowStorable DEF Row, TypeOK, RequestsTypeOK
<1>2. requests'[r] = [requests[r] EXCEPT !.status = s, !.finished = now, !.result = v]
  BY DEF finishTx, TypeOK, RequestsTypeOK
<1>3. /\ requests'[r] \in Request /\ requests'[r].status = s
      /\ requests'[r].device = requests[r].device /\ requests'[r].key = requests[r].key
  BY <1>1, <1>2 DEF Request
<1>4. \A o \in ReqId : o # r => requests'[o] = requests[o]
  BY DEF finishTx, TypeOK, RequestsTypeOK
<1> QED
  BY <1>3, <1>4, RequestAssumption DEF Row

\* Every step of a dispatch goroutine keeps the invariants: a claim takes a request
\* nobody holds, and what is transmitted or recorded afterwards is the holder's.
LEMMA DispatchingInv ==
    ASSUME HoldInv, NEW j \in Job, Dispatching(j) PROVE Kept
<1> DEFINE r == jobs[j].req
<1>t. TypeOK /\ TypeOK'
  BY DispatchingType DEF HoldInv
<1>r. ~JobAt(j, "idle") => r \in ReqId /\ Row(r)
  BY DEF HoldInv, JobsOnRows
<1>p. UNCHANGED phase /\ Serving /\ QuietWhenDown'
  BY DEF Dispatching, QuietWhenDown, Serving
<1>c. UNCHANGED batch => \A c \in batch' : Row(c)
  BY DEF HoldInv, BatchOnRows
<1>k. KeysUnique
  BY DEF HoldInv
<1>q. UNCHANGED requests => TableStep /\ NoInsert
  BY DEF TableStep, NoInsert, Row
<1>1. CASE ClaimTooLate(j) \/ ClaimFails(j) \/ FinishFails(j)
  <2>1. Goto(j, "exit", "none") /\ ~JobAt(j, "idle") /\ UNCHANGED <<requests, batch, sends>>
    BY <1>1 DEF ClaimTooLate, ClaimFails, FinishFails, JobAt
  <2>2. NoNewHolder
    BY <1>t, <1>r, <2>1, GotoMoves DEF NoNewHolder
  <2> QED
    BY <1>t, <1>p, <1>c, <1>k, <1>q, <2>1, <2>2, KeysStay, QuietStepKeeps
<1>2. CASE Exit(j)
  <2>1. NoNewHolder /\ UNCHANGED <<requests, batch, sends>>
    BY <1>2, <1>t DEF Exit, Idle, NoNewHolder, TypeOK, DispatchTypeOK
  <2> QED
    BY <1>t, <1>p, <1>c, <1>k, <1>q, <2>1, KeysStay, QuietStepKeeps
<1>3. CASE ClaimRefused(j)
  <2>1. /\ Goto(j, "exit", "none") /\ ~JobAt(j, "idle") /\ UNCHANGED <<batch, sends>>
        /\ requests[r].status = "queued"
        /\ requests' = finishTx(r, ClaimVerdict(r), "none")
    BY <1>3 DEF ClaimRefused, JobAt, Claimable, InStatus
  <2>2. NoNewHolder
    BY <1>t, <1>r, <2>1, GotoMoves DEF NoNewHolder
  <2>3. ClaimVerdict(r) \in {"failed", "cancelled"}
    BY <1>3 DEF ClaimRefused, ClaimVerdict
  <2>4. TableStep /\ NoInsert
    BY <1>t, <1>r, <2>1, <2>3, FinishMoves DEF TableStep, NoInsert, Row, Waits, Status
  <2> QED
    BY <1>t, <1>p, <1>c, <1>k, <2>1, <2>2, <2>4, KeysStay, QuietStepKeeps
<1>4. CASE Claim(j)
  <2>1. /\ r \in ReqId /\ requests[r] \in Request /\ requests[r].status = "queued"
        /\ requests' = [requests EXCEPT ![r].status = "dispatching"]
        /\ UNCHANGED <<batch, sends>>
    BY <1>4, <1>r, <1>t DEF Claim, JobAt, Claimable, InStatus, Row, TypeOK, RequestsTypeOK
  <2>2. /\ requests'[r].status = "dispatching" /\ requests'[r].device = requests[r].device
        /\ requests'[r].key = requests[r].key /\ requests'[r] \in Request
        /\ \A q \in ReqId : q # r => requests'[q] = requests[q]
    BY <1>t, <2>1 DEF TypeOK, RequestsTypeOK, Request, Status
  <2>3. Row(r) /\ requests'[r] # NoReq
    BY <2>1, <2>2, RequestAssumption DEF Row
  <2>4. /\ jobs'[j].req = r
        /\ \/ jobs'[j].pc = "claimed"
           \/ jobs'[j].pc = "finish" /\ jobs'[j].outcome = "failed"
        /\ \A k \in Job : k # j => jobs'[k] = jobs[k]
    <3>1. Goto(j, "claimed", "none") \/ Goto(j, "finish", "failed")
      BY <1>4 DEF Claim
    <3>2. CASE Goto(j, "claimed", "none")
      BY <3>2, <1>t, GotoMoves
    <3>3. CASE Goto(j, "finish", "failed")
      BY <3>3, <1>t, GotoMoves
    <3> QED
      BY <3>1, <3>2, <3>3
  <2>5. DispatchInv => sends[r] = 0
    BY <2>1, <1>r DEF DispatchInv, HonestOutcome, AtMostOnce, InStatus
  <2>6. \A k \in Job : k # j /\ Holding(k) => jobs[k].req # r
    BY <2>1 DEF HoldInv, ClaimsExclusive, InStatus
  <2>7. BatchOnRows' /\ JobsOnRows'
    BY <1>t, <2>1, <2>2, <2>3, <2>4
       DEF HoldInv, BatchOnRows, JobsOnRows, JobAt, Row, TypeOK, DispatchTypeOK
  <2>8. ClaimsExclusive'
    <3> SUFFICES ASSUME NEW k \in Job, Holding(k)'
                 PROVE  /\ InStatus(jobs[k].req, {"dispatching"})'
                        /\ \A i \in Job : i # k /\ Holding(i)' => jobs'[i].req # jobs'[k].req
      BY DEF ClaimsExclusive
    <3>1. CASE k = j
      BY <2>2, <2>3, <2>4, <2>6, <3>1 DEF InStatus, Row, Holding
    <3>2. CASE k # j
      <4>1. Holding(k) /\ jobs[k].req # r /\ jobs[k].req \in ReqId
        BY <2>4, <2>6, <3>2 DEF Holding, HoldInv, JobsOnRows, JobAt
      <4> QED
        BY <2>2, <2>4, <3>2, <4>1 DEF HoldInv, ClaimsExclusive, InStatus, Row, Holding
    <3> QED
      BY <3>1, <3>2
  <2>9. OutcomeKnown' /\ (DispatchInv => HolderKnows')
    BY <2>1, <2>4, <2>5 DEF HoldInv, DispatchInv, OutcomeKnown, HolderKnows, JobAt, Outcome
  <2>10. DispatchInv => AtMostOnce' /\ HonestOutcome'
    BY <2>1, <2>2, <2>3, <2>5 DEF DispatchInv, AtMostOnce, HonestOutcome, InStatus, Row
  <2>11. KeysUnique'
    BY <1>k, <2>2, <2>3 DEF KeysUnique, Row
  <2> QED
    BY <1>t, <1>p, <2>7, <2>8, <2>9, <2>10, <2>11 DEF HoldInv, DispatchInv, Kept
<1>a. ASSUME Holding(j), UNCHANGED <<requests, batch>>, Holding(j)', jobs'[j].req = r,
             \A k \in Job : k # j => jobs'[k] = jobs[k]
      PROVE  BatchOnRows' /\ JobsOnRows' /\ ClaimsExclusive' /\ KeysUnique'
  <2>1. BatchOnRows' /\ JobsOnRows' /\ KeysUnique'
    BY <1>a, <1>k DEF HoldInv, BatchOnRows, JobsOnRows, KeysUnique, JobAt, Row, Holding
  <2>2. \A k \in Job : Holding(k)' => Holding(k) /\ jobs'[k].req = jobs[k].req
    BY <1>a DEF Holding
  <2>3. ClaimsExclusive'
    BY <1>a, <2>2 DEF HoldInv, ClaimsExclusive, InStatus, Row
  <2> QED
    BY <2>1, <2>3
<1>h. Holding(j) => /\ r \in ReqId /\ Row(r) /\ InStatus(r, {"dispatching"})
                    /\ \A k \in Job : k # j /\ Holding(k) => jobs[k].req # r
  BY <1>r DEF HoldInv, ClaimsExclusive, Holding, JobAt
<1>5. CASE SendNotSent(j) \/ SendReply(j)
  <2>1. PICK o \in Outcome :
            /\ Goto(j, "finish", o) /\ UNCHANGED <<requests, batch, sends>>
            /\ IF o = "failed" THEN JobAt(j, "claimed") ELSE JobAt(j, "sent")
    BY <1>5 DEF SendNotSent, SendReply, ReplyOutcome, Outcome
  <2>2. /\ jobs'[j].pc = "finish" /\ jobs'[j].req = r /\ jobs'[j].outcome = o /\ Holding(j)
        /\ \A k \in Job : k # j => jobs'[k] = jobs[k]
    BY <1>t, <2>1, GotoMoves DEF JobAt, Holding
  <2>3. BatchOnRows' /\ JobsOnRows' /\ ClaimsExclusive' /\ KeysUnique'
    BY <1>a, <2>1, <2>2 DEF Holding
  <2>4. DispatchInv => sends[r] = IF o = "failed" THEN 0 ELSE 1
    BY <2>1 DEF DispatchInv, HolderKnows
  <2>5. OutcomeKnown' /\ (DispatchInv => HolderKnows')
    BY <2>1, <2>2, <2>4 DEF HoldInv, DispatchInv, OutcomeKnown, HolderKnows, JobAt
  <2>6. DispatchInv => AtMostOnce' /\ HonestOutcome'
    BY <2>1 DEF DispatchInv, AtMostOnce, HonestOutcome, InStatus, Row
  <2> QED
    BY <1>t, <1>p, <2>3, <2>5, <2>6 DEF HoldInv, DispatchInv, Kept
<1>6. CASE SendGotConn(j)
  <2>1. /\ JobAt(j, "claimed") /\ Holding(j) /\ Goto(j, "sent", "none")
        /\ UNCHANGED <<requests, batch>>
        /\ sends' = [sends EXCEPT ![r] = @ + 1]
    BY <1>6 DEF SendGotConn, JobAt, Holding
  <2>2. /\ jobs'[j].pc = "sent" /\ jobs'[j].req = r
        /\ \A k \in Job : k # j => jobs'[k] = jobs[k]
    BY <1>t, <2>1, GotoMoves
  <2>3. BatchOnRows' /\ JobsOnRows' /\ ClaimsExclusive' /\ KeysUnique'
    BY <1>a, <2>1, <2>2 DEF Holding
  <2>o. OutcomeKnown'
    BY <2>2 DEF HoldInv, OutcomeKnown, JobAt
  <2>4. DispatchInv => sends[r] = 0
    BY <2>1 DEF DispatchInv, HolderKnows
  <2>5. /\ DispatchInv => sends'[r] = 1
        /\ \A q \in ReqId : q # r => sends'[q] = sends[q]
    BY <1>h, <1>t, <2>1, <2>4 DEF TypeOK, DispatchTypeOK
  <2>6. DispatchInv => HolderKnows'
    <3> SUFFICES ASSUME DispatchInv, NEW k \in Job, Holding(k)'
                 PROVE  /\ JobAt(k, "claimed")' => sends'[jobs'[k].req] = 0
                        /\ JobAt(k, "sent")' => sends'[jobs'[k].req] = 1
                        /\ JobAt(k, "finish")' =>
                               sends'[jobs'[k].req] =
                                   IF jobs'[k].outcome = "failed" THEN 0 ELSE 1
      BY DEF HolderKnows, Holding, JobAt
    <3>1. CASE k = j
      BY <2>2, <2>5, <3>1 DEF JobAt
    <3>2. CASE k # j
      <4>1. /\ Holding(k) /\ jobs'[k] = jobs[k] /\ jobs[k].req # r /\ jobs[k].req \in ReqId
        BY <1>h, <2>1, <2>2, <3>2 DEF Holding, HoldInv, JobsOnRows, JobAt
      <4> QED
        BY <2>5, <4>1 DEF DispatchInv, HolderKnows, JobAt
    <3> QED
      BY <3>1, <3>2
  <2>7. DispatchInv => AtMostOnce' /\ HonestOutcome'
    BY <1>h, <2>1, <2>5 DEF DispatchInv, AtMostOnce, HonestOutcome, InStatus, Row
  <2> QED
    BY <1>t, <1>p, <2>o, <2>3, <2>6, <2>7 DEF HoldInv, DispatchInv, Kept
<1>7. CASE Finish(j)
  <2> DEFINE o == jobs[j].outcome
  <2>1. /\ JobAt(j, "finish") /\ Holding(j) /\ Goto(j, "exit", "none")
        /\ UNCHANGED <<batch, sends>>
        /\ requests' = finishTx(r, FinishStatus(o), FinishResult(o))
    BY <1>7 DEF Finish, JobAt, Holding
  <2>2. /\ jobs'[j].pc = "exit" /\ jobs'[j].req = r
        /\ \A k \in Job : k # j => jobs'[k] = jobs[k]
    BY <1>t, <2>1, GotoMoves
  <2>3. o \in Outcome /\ (DispatchInv => sends[r] = IF o = "failed" THEN 0 ELSE 1)
    BY <2>1 DEF HoldInv, DispatchInv, OutcomeKnown, HolderKnows
  <2>4. /\ FinishStatus(o) \in Status /\ FinishResult(o) \in {"none", "kept"}
        /\ IF o = "failed" THEN FinishStatus(o) = "failed"
           ELSE FinishStatus(o) \in {"completed", "outcome_unknown"}
    BY <2>3 DEF Outcome, FinishStatus, FinishResult, Status
  <2>5. /\ requests'[r] # NoReq /\ requests'[r].status = FinishStatus(o)
        /\ requests'[r].device = requests[r].device /\ requests'[r].key = requests[r].key
        /\ \A q \in ReqId : q # r => requests'[q] = requests[q]
    BY <1>t, <1>h, <2>1, <2>4, FinishMoves
  <2> HIDE DEF o
  <2>6. BatchOnRows' /\ JobsOnRows'
    BY <1>t, <1>h, <2>1, <2>2, <2>5
       DEF HoldInv, BatchOnRows, JobsOnRows, JobAt, Row, TypeOK, DispatchTypeOK
  <2>7. KeysUnique'
    BY <1>k, <1>h, <2>1, <2>5 DEF KeysUnique, Row
  <2>8. \A k \in Job : Holding(k)' => /\ k # j /\ Holding(k) /\ jobs'[k] = jobs[k]
                                      /\ jobs[k].req \in ReqId /\ jobs[k].req # r
    BY <1>h, <2>1, <2>2 DEF Holding, HoldInv, JobsOnRows, JobAt
  <2>9. ClaimsExclusive'
    BY <2>5, <2>8 DEF HoldInv, ClaimsExclusive, InStatus, Row
  <2>10. OutcomeKnown' /\ (DispatchInv => HolderKnows')
    BY <2>1, <2>8 DEF HoldInv, DispatchInv, OutcomeKnown, HolderKnows, JobAt, Holding
  <2>11. DispatchInv => AtMostOnce' /\ HonestOutcome'
    BY <1>h, <2>1, <2>3, <2>4, <2>5 DEF DispatchInv, AtMostOnce, HonestOutcome, InStatus, Row
  <2> QED
    BY <1>t, <1>p, <2>6, <2>7, <2>9, <2>10, <2>11 DEF HoldInv, DispatchInv, Kept
<1> QED
  BY <1>1, <1>2, <1>3, <1>4, <1>5, <1>6, <1>7 DEF Dispatching, JobStep

\* The process, the clock and the HTTP handlers keep it: recovery settles what a lost
\* goroutine held, and everything else takes nothing up.
LEMMA ProcessInv ==
    ASSUME HoldInv,
           \/ Clock \/ Start \/ StartRestored \/ FinishRestored
           \/ Stop \/ WorkerReturn \/ Close \/ Crash
           \/ \E h \in Handler : Proxying(h)
    PROVE  Kept
<1>t. TypeOK /\ TypeOK'
  BY ProcessType, ProxyingType DEF HoldInv
<1>k. KeysUnique
  BY DEF HoldInv
<1>c. batch' \subseteq batch => \A c \in batch' : Row(c)
  BY DEF HoldInv, BatchOnRows
<1>q. UNCHANGED requests => TableStep /\ NoInsert
  BY DEF TableStep, NoInsert, Row
<1>1. CASE Clock \/ WorkerReturn \/ \E h \in Handler : Proxying(h)
  <2>1. UNCHANGED <<requests, batch, jobs, sends, phase>>
    BY <1>1 DEF Clock, WorkerReturn, Proxying
  <2> QED
    BY <2>1, <1>t, <1>k, <1>c, <1>q, KeysStay, TableStepKeeps
<1>2. CASE Stop \/ Close \/ Crash
  <2>1. UNCHANGED <<requests, sends>> /\ batch' \subseteq batch
    BY <1>2 DEF Stop, Close, Crash, LoseMemory
  <2>2. NoNewHolder /\ QuietWhenDown'
    BY <1>2
       DEF Stop, Close, Crash, LoseMemory, Idle, NoNewHolder, QuietWhenDown, Serving, JobAt
  <2> QED
    BY <2>1, <2>2, <1>t, <1>k, <1>c, <1>q, KeysStay, QuietStepKeeps
<1>3. CASE FinishRestored
  <2>1. TableStep /\ NoInsert
    BY <1>3, <1>t, CancelStep DEF FinishRestored, RecoverRestored
  <2>2. UNCHANGED <<batch, jobs, sends>> /\ NoNewHolder /\ QuietWhenDown'
    BY <1>3 DEF FinishRestored, NoNewHolder, QuietWhenDown, Serving
  <2> QED
    BY <2>1, <2>2, <1>t, <1>k, <1>c, KeysStay, QuietStepKeeps
<1>4. CASE Start \/ StartRestored
  <2>1. /\ \A j \in Job : jobs'[j].pc = "idle"
        /\ requests' = recoverDispatches /\ UNCHANGED <<batch, sends>>
    BY <1>4 DEF Start, StartRestored, StartWith, HoldInv, QuietWhenDown, Serving, JobAt
  <2>2. ASSUME NEW r \in ReqId
        PROVE  /\ Row(r)' <=> Row(r)
               /\ Row(r) => /\ requests'[r].device = requests[r].device
                            /\ requests'[r].key = requests[r].key
                            /\ IF requests[r].status = "dispatching"
                               THEN requests'[r].status = "outcome_unknown"
                               ELSE requests'[r].status = requests[r].status
    <3>1. CASE InStatus(r, {"dispatching"})
      <4>1. requests[r] \in Request /\ requests[r].status = "dispatching"
        BY <3>1, <1>t DEF InStatus, Row, TypeOK, RequestsTypeOK
      <4>2. requests'[r] = [requests[r] EXCEPT !.status = "outcome_unknown", !.finished = now]
        BY <2>1, <3>1 DEF recoverDispatches
      <4>3. /\ requests'[r] \in Request /\ requests'[r].status = "outcome_unknown"
            /\ requests'[r].device = requests[r].device
            /\ requests'[r].key = requests[r].key
        BY <4>1, <4>2, <1>t, NowStorable DEF Request, Status
      <4> QED
        BY <4>1, <4>3, RequestAssumption DEF Row
    <3>2. CASE ~InStatus(r, {"dispatching"})
      BY <2>1, <3>2 DEF recoverDispatches, Row, InStatus
    <3> QED
      BY <3>1, <3>2
  <2>3. JobsOnRows' /\ QuietWhenDown' /\ ClaimsExclusive' /\ OutcomeKnown' /\ HolderKnows'
    BY <2>1
       DEF JobsOnRows, QuietWhenDown, ClaimsExclusive, OutcomeKnown, HolderKnows, Holding, JobAt
  <2>4. BatchOnRows'
    BY <1>t, <1>c, <2>1, <2>2 DEF BatchOnRows, TypeOK, DispatchTypeOK
  <2>5. KeysUnique'
    BY <1>k, <2>2 DEF KeysUnique
  <2>6. DispatchInv => AtMostOnce' /\ HonestOutcome'
    BY <2>1, <2>2 DEF DispatchInv, AtMostOnce, HonestOutcome, InStatus
  <2> QED
    BY <1>t, <2>3, <2>4, <2>5, <2>6 DEF HoldInv, DispatchInv, Kept
<1> QED
  BY <1>1, <1>2, <1>3, <1>4
-----------------------------------------------------------------------------
\* The empty database of a server never started satisfies the dispatch invariant.
LEMMA InitInv == Init => DispatchInv
<1> SUFFICES ASSUME Init PROVE DispatchInv
  OBVIOUS
<1> USE DEF Init, AuthorityInit, RequestsInit, SlotsInit, DispatchInit, HttpInit
<1>1. now \in Time /\ phase \in Phase /\ faults \in 0..MaxFaults
  BY BoundAssumption, DispatchAssumption DEF Time, Phase
<1>2. AuthorityTypeOK
  BY <1>1, BoundAssumption DEF AuthorityTypeOK, ServiceRow
<1>3. DispatchTypeOK
  BY <1>1 DEF DispatchTypeOK, JobState, Idle
<1>4. TypeOK
  BY <1>1, <1>2, <1>3 DEF TypeOK, RequestsTypeOK, SlotsTypeOK, HttpTypeOK
<1>5. /\ BatchOnRows /\ JobsOnRows /\ QuietWhenDown /\ ClaimsExclusive
      /\ OutcomeKnown /\ HolderKnows
  BY DEF BatchOnRows, JobsOnRows, QuietWhenDown, ClaimsExclusive, OutcomeKnown, HolderKnows,
         Holding, JobAt, Idle
<1>6. AtMostOnce /\ HonestOutcome /\ KeysUnique
  BY DEF AtMostOnce, HonestOutcome, KeysUnique, InStatus, Row
<1> QED
  BY <1>4, <1>5, <1>6 DEF HoldInv, DispatchInv

\* A step that changes nothing keeps it.
LEMMA StutterKeeps == ASSUME HoldInv, UNCHANGED vars PROVE Kept
<1> USE DEF vars
<1>1. TypeOK'
  BY DEF HoldInv, TypeOK, AuthorityTypeOK, RequestsTypeOK, SlotsTypeOK, DispatchTypeOK,
         HttpTypeOK
<1>2. TableStep /\ NoInsert /\ KeysUnique /\ \A c \in batch' : Row(c)
  BY DEF TableStep, NoInsert, Row, HoldInv, BatchOnRows
<1> QED
  BY <1>1, <1>2, KeysStay, TableStepKeeps

\* Every step of the server keeps the invariant of one life of the file.
LEMMA HoldStep == ASSUME HoldInv, Next PROVE Kept
  BY TransactionInv, WorkerInv, DispatchingInv, ProcessInv DEF Next

\* Both invariants hold of a server never started and are kept whether or not anything
\* changes.
LEMMA InitHold == Init => HoldInv
  BY InitInv DEF DispatchInv

LEMMA StepHold == ASSUME HoldInv, [Next]_vars PROVE HoldInv'
  BY HoldStep, StutterKeeps DEF Kept

LEMMA StepInv == ASSUME DispatchInv, [Next]_vars PROVE DispatchInv'
  BY HoldStep, StutterKeeps DEF DispatchInv, Kept

\* The dispatch invariant holds throughout: goroutines work on rows and only while the
\* process lives, a claimed request has one holder and no one else moves it, the holder's
\* position tells what the upstream may have seen, and keys are not reused.
THEOREM DispatchInvariant == Spec => []DispatchInv
<1>1. DispatchInv /\ [Next]_vars => DispatchInv'
  BY StepInv
<1> QED
  BY <1>1, InitInv, PTL DEF Spec

\* Type correctness, for every size of the system.
THEOREM TypeCorrect == Spec => []TypeOK
<1>1. DispatchInv => TypeOK
  BY DEF DispatchInv, HoldInv
<1> QED
  BY <1>1, DispatchInvariant, PTL

\* The claim is exclusive: what finishTx overwrites without looking is its own.
THEOREM ClaimsStayExclusive == Spec => []ClaimsExclusive
<1>1. DispatchInv => ClaimsExclusive
  BY DEF DispatchInv, HoldInv
<1> QED
  BY <1>1, DispatchInvariant, PTL

\* At most one transmission per idempotency key, over crashes and restarts.
THEOREM AtMostOneEffect == Spec => []OneEffectPerKey
<1>1. DispatchInv => OneEffectPerKey
  BY DEF DispatchInv, HoldInv, OneEffectPerKey, AtMostOnce, HonestOutcome, KeysUnique,
         InStatus, TypeOK, DispatchTypeOK
<1> QED
  BY <1>1, DispatchInvariant, PTL

\* No status misreports a transmission, over crashes and restarts.
THEOREM OutcomesAreHonest == Spec => []HonestOutcome
<1>1. DispatchInv => HonestOutcome
  BY DEF DispatchInv
<1> QED
  BY <1>1, DispatchInvariant, PTL
-----------------------------------------------------------------------------
\* The row stays the request it was.
Same(r) ==
    /\ Row(r) /\ requests'[r] # NoReq
    /\ Digest(requests'[r]) = Digest(requests[r])
    /\ requests'[r].key = requests[r].key

Moves(r, from, to) ==
    /\ Same(r)
    /\ requests[r].status \in from /\ requests'[r].status \in to
    /\ requests'[r].snapshot = requests[r].snapshot

\* What rests on authority in force: the conjuncts of LiveAuthority.
Rests(x) ==
    /\ ActiveDevice(x.device)
    /\ Enabled(x.service) /\ services[x.service].revision = x.revision
    /\ permissions[x.perm] # NoPerm /\ permissions[x.perm].state = "granted"
    /\ permissions[x.perm].revision = x.revision

Inserted(r) ==
    /\ ~Row(r) /\ requests'[r] # NoReq
    /\ requests'[r].status = IF permissions[requests'[r].perm].mode = "standing"
                             THEN "queued" ELSE "pending_approval"
    /\ requests'[r].snapshot = "kept" /\ requests'[r].result = "none"
    /\ requests'[r].perm \in PermId
    /\ Rests(requests'[r])
Withdrawn(r) ==
    Moves(r, Waits, {"expired", "cancelled"}) /\ requests'[r].result = requests[r].result
Purged(r) ==
    /\ Same(r)
    /\ requests'[r].status = requests[r].status
    /\ terminal(requests[r].status) /\ requests[r].finished + Retention < now
Decided(r) ==
    /\ Moves(r, {"pending_approval"}, {"queued", "denied"})
    /\ requests'[r].result = requests[r].result
    /\ requests'[r].status = "queued" => Approved(r)'
Refused(r) ==
    /\ Moves(r, {"queued"}, {"failed", "cancelled"})
    /\ requests'[r].status = "failed" =>
           ~SnapshotReadable(r) \/ (NeedsApproval(r) /\ ~Approved(r))
Claimed(r) ==
    /\ Moves(r, {"queued"}, {"dispatching"})
    /\ requests'[r].result = requests[r].result
    /\ validSnapshot(r) /\ (NeedsApproval(r) => Approved(r))
    /\ \E j \in Job : Claim(j) /\ jobs[j].req = r
Finished(r) == Moves(r, {"dispatching"}, {"completed", "failed", "outcome_unknown"})

Settled(r) == approvals'[r] = approvals[r]

\* All that can happen to a row in one step.
RowStep(r) ==
    \/ requests'[r] = requests[r] /\ Settled(r)
    \/ Inserted(r) /\ Settled(r)
    \/ Withdrawn(r) /\ Settled(r)
    \/ Purged(r) /\ Settled(r)
    \/ Decided(r)
    \/ Refused(r) /\ Settled(r)
    \/ Claimed(r) /\ Settled(r)
    \/ Finished(r) /\ Settled(r)
-----------------------------------------------------------------------------
\* A row whose status and time of settlement change stays the same request.
Settle(x, s, f) == [x EXCEPT !.status = s, !.finished = f]
LEMMA StatusOnly ==
    ASSUME NEW x \in Request, NEW s \in Status, NEW f \in 0..Never
    PROVE  /\ Settle(x, s, f) \in Request /\ Settle(x, s, f) # NoReq
           /\ Digest(Settle(x, s, f)) = Digest(x) /\ Settle(x, s, f).key = x.key
           /\ Settle(x, s, f).status = s /\ Settle(x, s, f).finished = f
           /\ Settle(x, s, f).snapshot = x.snapshot /\ Settle(x, s, f).result = x.result
<1> DEFINE y == Settle(x, s, f)
<1>1. /\ y \in Request
      /\ y.device = x.device /\ y.service = x.service /\ y.revision = x.revision
      /\ y.perm = x.perm /\ y.route = x.route /\ y.body = x.body /\ y.expires = x.expires
      /\ y.key = x.key /\ y.status = s /\ y.finished = f
      /\ y.snapshot = x.snapshot /\ y.result = x.result
  BY DEF Request, Settle
<1>2. y # NoReq /\ Digest(y) = Digest(x)
  BY <1>1, RequestAssumption DEF Digest
<1> QED
  BY <1>1, <1>2

\* cancelRequests withdraws the waiting requests of its scope and touches nothing else.
LEMMA CancelRow ==
    ASSUME TypeOK, NEW R, requests' = cancelRequests(R), NEW r \in ReqId
    PROVE  IF r \in R /\ Undispatched(r)
           THEN Withdrawn(r) /\ requests'[r].status = "cancelled"
           ELSE requests'[r] = requests[r]
<1>1. CASE r \in R /\ Undispatched(r)
  <2>1. requests'[r] = Settle(requests[r], "cancelled", now)
    BY <1>1 DEF cancelRequests, Settle
  <2>2. requests[r] \in Request /\ requests[r].status \in Waits /\ Row(r)
    BY <1>1 DEF Undispatched, InStatus, Row, TypeOK, RequestsTypeOK, Waits
  <2>3. now \in 0..Never /\ "cancelled" \in Status
    BY NowStorable DEF Status
  <2>4. /\ requests'[r] # NoReq /\ Digest(requests'[r]) = Digest(requests[r])
        /\ requests'[r].key = requests[r].key /\ requests'[r].status = "cancelled"
        /\ requests'[r].snapshot = requests[r].snapshot
        /\ requests'[r].result = requests[r].result
    BY <2>1, <2>2, <2>3, StatusOnly
  <2> QED
    BY <1>1, <2>2, <2>4 DEF Withdrawn, Moves, Same
<1>2. CASE ~(r \in R /\ Undispatched(r))
  BY <1>2 DEF cancelRequests
<1> QED
  BY <1>1, <1>2

\* maintenance expires waiting requests and purges settled ones, never both in one pass.
LEMMA MaintenanceRow ==
    ASSUME TypeOK, requests' = maintenance, NEW r \in ReqId
    PROVE  \/ requests'[r] = requests[r]
           \/ Withdrawn(r)
           \/ Purged(r)
<1>1. CASE ~Row(r)
  BY <1>1 DEF maintenance, Row
<1>2. CASE Row(r)
  <2> DEFINE x == requests[r]
             y == Expire(x)
  <2>1. x \in Request /\ requests'[r] = Purge(y)
    BY <1>2 DEF maintenance, Row, TypeOK, RequestsTypeOK
  <2>2. now \in 0..Never /\ now \in Int /\ "expired" \in Status
    BY NowStorable, BoundAssumption DEF Status, Never
  <2>3. CASE x.status \in Waits /\ x.expires <= now
    <3>1. y = Settle(x, "expired", now)
      BY <2>3 DEF Expire, Waits, Settle
    <3>2. /\ y \in Request /\ y # NoReq /\ Digest(y) = Digest(x) /\ y.key = x.key
          /\ y.status = "expired" /\ y.snapshot = x.snapshot /\ y.result = x.result
          /\ y.finished = now
      BY <2>1, <2>2, <3>1, StatusOnly
    <3>4. ~(now + Retention < now)
      BY <2>2, RequestAssumption
    <3>5. requests'[r] = y
      BY <2>1, <3>2, <3>4 DEF Purge
    <3> QED
      BY <1>2, <2>3, <3>2, <3>5 DEF Withdrawn, Moves, Same
  <2>4. CASE ~(x.status \in Waits /\ x.expires <= now)
    <3>1. y = x
      BY <2>4 DEF Expire, Waits
    <3>2. CASE terminal(x.status) /\ x.finished + Retention < now
      <4>1. requests'[r] = [x EXCEPT !.snapshot = "purged",
                                     !.result = IF x.result = "none" THEN "none" ELSE "purged"]
        BY <2>1, <3>1, <3>2 DEF Purge
      <4>2. /\ requests'[r] \in Request
            /\ requests'[r].device = x.device /\ requests'[r].service = x.service
            /\ requests'[r].revision = x.revision /\ requests'[r].perm = x.perm
            /\ requests'[r].route = x.route /\ requests'[r].body = x.body
            /\ requests'[r].expires = x.expires /\ requests'[r].key = x.key
            /\ requests'[r].status = x.status
        BY <2>1, <4>1 DEF Request
      <4>3. requests'[r] # NoReq /\ Digest(requests'[r]) = Digest(x)
        BY <4>2, RequestAssumption DEF Digest
      <4> QED
        BY <1>2, <3>2, <4>2, <4>3 DEF Purged, Same
    <3>3. CASE ~(terminal(x.status) /\ x.finished + Retention < now)
      BY <2>1, <3>1, <3>3 DEF Purge
    <3> QED
      BY <3>2, <3>3
  <2> QED
    BY <2>3, <2>4
<1> QED
  BY <1>1, <1>2

\* finishTx settles one row and touches no other.
LEMMA FinishRow ==
    ASSUME TypeOK, NEW r \in ReqId, Row(r), NEW s \in Status, NEW v \in {"none", "kept"},
           requests' = finishTx(r, s, v)
    PROVE  /\ Same(r) /\ requests'[r].status = s /\ requests'[r].snapshot = requests[r].snapshot
           /\ \A o \in ReqId : o # r => requests'[o] = requests[o]
<1> DEFINE x == requests[r]
<1>1. x \in Request /\ now \in 0..Never
  BY NowStorable DEF Row, TypeOK, RequestsTypeOK
<1>2. requests'[r] = [x EXCEPT !.status = s, !.finished = now, !.result = v]
  BY DEF finishTx, TypeOK, RequestsTypeOK
<1>3. /\ requests'[r] \in Request
      /\ requests'[r].device = x.device /\ requests'[r].service = x.service
      /\ requests'[r].revision = x.revision /\ requests'[r].perm = x.perm
      /\ requests'[r].route = x.route /\ requests'[r].body = x.body
      /\ requests'[r].expires = x.expires /\ requests'[r].key = x.key
      /\ requests'[r].status = s /\ requests'[r].snapshot = x.snapshot
  BY <1>1, <1>2 DEF Request
<1>4. requests'[r] # NoReq /\ Digest(requests'[r]) = Digest(x)
  BY <1>3, RequestAssumption DEF Digest
<1>5. \A o \in ReqId : o # r => requests'[o] = requests[o]
  BY DEF finishTx, TypeOK, RequestsTypeOK
<1> QED
  BY <1>3, <1>4, <1>5 DEF Same

\* recoverDispatches gives up the track of what was in dispatching.
LEMMA RecoverRow ==
    ASSUME TypeOK, requests' = recoverDispatches, NEW r \in ReqId
    PROVE  IF InStatus(r, {"dispatching"})
           THEN Finished(r) /\ requests'[r].status = "outcome_unknown"
           ELSE requests'[r] = requests[r]
<1>1. CASE InStatus(r, {"dispatching"})
  <2>1. requests'[r] = Settle(requests[r], "outcome_unknown", now)
    BY <1>1 DEF recoverDispatches, Settle
  <2>2. requests[r] \in Request /\ requests[r].status = "dispatching" /\ Row(r)
    BY <1>1 DEF InStatus, Row, TypeOK, RequestsTypeOK
  <2>3. now \in 0..Never /\ "outcome_unknown" \in Status
    BY NowStorable DEF Status
  <2>4. /\ requests'[r] # NoReq /\ Digest(requests'[r]) = Digest(requests[r])
        /\ requests'[r].key = requests[r].key /\ requests'[r].status = "outcome_unknown"
        /\ requests'[r].snapshot = requests[r].snapshot
    BY <2>1, <2>2, <2>3, StatusOnly
  <2> QED
    BY <1>1, <2>2, <2>4 DEF Finished, Moves, Same
<1>2. CASE ~InStatus(r, {"dispatching"})
  BY <1>2 DEF recoverDispatches
<1> QED
  BY <1>1, <1>2

\* Submit inserts one row, under a permission in force.
LEMMA SubmitRow ==
    ASSUME TypeOK, NEW r \in ReqId, DeviceSubmit(r)
    PROVE  /\ Inserted(r) /\ UNCHANGED <<authorityVars, approvals>>
           /\ \A o \in ReqId : o # r => requests'[o] = requests[o]
<1>1. PICK d \in Device, k \in Key, s \in Service, q \in Routes, b \in Body :
          Submit(r, d, k, s, q, b)
  BY DEF DeviceSubmit
<1>2. PICK p \in Authorize(d, s, q) : InsertRequest(r, d, k, s, q, b, p)
  BY <1>1 DEF Submit
<1> DEFINE mode == permissions[p].mode
           x == [device |-> d, service |-> s, revision |-> services[s].revision, perm |-> p,
                 key |-> k, route |-> q, body |-> b,
                 status |-> IF mode = "standing" THEN "queued" ELSE "pending_approval",
                 created |-> now, expires |-> now + TTL(mode), finished |-> Never,
                 snapshot |-> "kept", result |-> "none"]
<1>3. requests'[r] = x /\ requests[r] = NoReq
  BY <1>2 DEF InsertRequest, TypeOK, RequestsTypeOK
<1>4. /\ requests'[r].device = d /\ requests'[r].service = s /\ requests'[r].perm = p
      /\ requests'[r].revision = services[s].revision
      /\ requests'[r].status = IF mode = "standing" THEN "queued" ELSE "pending_approval"
      /\ requests'[r].snapshot = "kept" /\ requests'[r].result = "none"
  BY <1>3
<1>5. /\ p \in PermId /\ ActiveDevice(d) /\ Enabled(s)
      /\ permissions[p] # NoPerm /\ permissions[p].state = "granted"
      /\ permissions[p].revision = services[s].revision
  BY <1>2 DEF Authorize, ActiveRule
<1>6. requests'[r] # NoReq
  <2>1. requests' \in [ReqId -> Request \cup {NoReq}]
    BY TransactionType DEF TypeOK, RequestsTypeOK
  <2>2. x \in Request
    <3>1. services[s].revision \in 0..MaxRevision
      BY DEF TypeOK, AuthorityTypeOK, ServiceRow
    <3>2. now \in 0..Never /\ now + TTL(mode) \in 0..Never /\ Never \in 0..Never
      BY <1>2, NowStorable, BoundAssumption, RequestAssumption
         DEF InsertRequest, TTL, Never, TypeOK, AuthorityTypeOK, Time
    <3>3. (IF mode = "standing" THEN "queued" ELSE "pending_approval") \in Status
      BY DEF Status
    <3> QED
      BY <1>5, <3>1, <3>2, <3>3 DEF Request
  <2> QED
    BY <1>3, <2>2, RequestAssumption
<1>7. \A o \in ReqId : o # r => requests'[o] = requests[o]
  BY <1>2 DEF InsertRequest, TypeOK, RequestsTypeOK
<1>8. UNCHANGED <<authorityVars, approvals>>
  BY <1>2 DEF InsertRequest
<1> HIDE DEF x
<1> QED
  BY <1>3, <1>4, <1>5, <1>6, <1>7, <1>8 DEF Inserted, Rests, Row

\* Decide settles or queues one pending row, and records what was reviewed.
LEMMA DecideRow ==
    ASSUME TypeOK, NEW r \in ReqId, OwnerDecide(r)
    PROVE  /\ Decided(r) /\ UNCHANGED authorityVars
           /\ \A o \in ReqId : o # r => requests'[o] = requests[o] /\ Settled(o)
<1>1. PICK q \in ReqId, decision \in {"approve", "deny"} :
          Decide(r, Digest(requests[q]), decision)
  BY DEF OwnerDecide
<1> DEFINE f == IF decision = "approve" THEN Never ELSE now
           s == IF decision = "approve" THEN "queued" ELSE "denied"
           x == requests[r]
<1>2. /\ x \in Request /\ Row(r) /\ x.status = "pending_approval"
      /\ Digest(requests[q]) = Digest(x)
  BY <1>1 DEF Decide, InStatus, Row, TypeOK, RequestsTypeOK
<1>3. now \in 0..Never /\ Never \in 0..Never
  BY NowStorable, BoundAssumption DEF Never
<1>4. f \in 0..Never /\ s \in Status /\ s \in {"queued", "denied"}
  BY <1>3 DEF Status
<1>5. requests'[r] = Settle(x, s, f)
  BY <1>1 DEF Decide, Record, TypeOK, RequestsTypeOK, Settle
<1>6. approvals'[r] = [decision |-> decision, digest |-> Digest(x)]
  BY <1>1, <1>2 DEF Decide, Record, TypeOK, RequestsTypeOK
<1>7. s = "queued" => decision = "approve"
  OBVIOUS
<1> HIDE DEF f, s
<1>8. /\ requests'[r] # NoReq /\ Digest(requests'[r]) = Digest(x)
      /\ requests'[r].key = x.key /\ requests'[r].status = s
      /\ requests'[r].snapshot = x.snapshot /\ requests'[r].result = x.result
  BY <1>2, <1>4, <1>5, StatusOnly
<1>9. s = "queued" => Approved(r)'
  <2> SUFFICES ASSUME s = "queued" PROVE Approved(r)'
    OBVIOUS
  <2>1. approvals'[r].decision = "approve" /\ approvals'[r].digest = Digest(requests'[r])
    BY <1>6, <1>7, <1>8
  <2>2. approvals'[r] # NoDecision
    <3>1. Digest(x) \in Snapshot
      BY <1>2 DEF Digest, Snapshot, Request
    <3>2. approvals'[r] \in Decision
      BY <1>6, <3>1 DEF Decision
    <3> QED
      BY <3>2, RequestAssumption
  <2> QED
    BY <2>1, <2>2 DEF Approved
<1>10. \A o \in ReqId : o # r => requests'[o] = requests[o] /\ Settled(o)
  BY <1>1 DEF Decide, Record, TypeOK, RequestsTypeOK, Settled
<1>11. UNCHANGED authorityVars
  BY <1>1 DEF Decide, Record
<1> QED
  BY <1>2, <1>4, <1>8, <1>9, <1>10, <1>11 DEF Decided, Moves, Same

\* A dispatch goroutine claims, refuses or finishes the row it is on, and no other.
LEMMA DispatchRow ==
    ASSUME HoldInv, NEW j \in Job, Dispatching(j)
    PROVE  /\ UNCHANGED <<authorityVars, approvals>>
           /\ \/ UNCHANGED requests
              \/ /\ jobs[j].req \in ReqId
                 /\ \/ Refused(jobs[j].req) /\ ClaimRefused(j)
                    \/ Claimed(jobs[j].req) /\ Claim(j)
                    \/ Finished(jobs[j].req) /\ Finish(j)
                 /\ \A o \in ReqId : o # jobs[j].req => requests'[o] = requests[o]
<1> DEFINE r == jobs[j].req
<1>t. TypeOK
  BY DEF HoldInv
<1>r. ~JobAt(j, "idle") => r \in ReqId /\ Row(r)
  BY DEF HoldInv, JobsOnRows
<1>1. CASE ClaimRefused(j)
  <2>1. /\ r \in ReqId /\ Row(r) /\ requests[r].status = "queued"
        /\ requests' = finishTx(r, ClaimVerdict(r), "none")
        /\ UNCHANGED <<authorityVars, approvals>>
    BY <1>1, <1>r DEF ClaimRefused, JobAt, Claimable, InStatus
  <2>2. /\ ClaimVerdict(r) \in {"failed", "cancelled"}
        /\ ClaimVerdict(r) = "failed" =>
               ~SnapshotReadable(r) \/ (NeedsApproval(r) /\ ~Approved(r))
    BY <1>1 DEF ClaimRefused, ClaimVerdict
  <2>3. ClaimVerdict(r) \in Status
    BY <2>2 DEF Status
  <2>4. /\ Same(r) /\ requests'[r].status = ClaimVerdict(r)
        /\ requests'[r].snapshot = requests[r].snapshot
        /\ \A o \in ReqId : o # r => requests'[o] = requests[o]
    BY <1>t, <2>1, <2>3, FinishRow
  <2> QED
    BY <1>1, <2>1, <2>2, <2>4 DEF Refused, Moves
<1>2. CASE Claim(j)
  <2> DEFINE x == requests[r]
  <2>1. /\ r \in ReqId /\ Row(r) /\ x \in Request /\ x.status = "queued"
        /\ requests' = [requests EXCEPT ![r].status = "dispatching"]
        /\ UNCHANGED <<authorityVars, approvals>>
    BY <1>2, <1>r, <1>t DEF Claim, JobAt, Claimable, InStatus, Row, TypeOK, RequestsTypeOK
  <2>2. validSnapshot(r) /\ (NeedsApproval(r) => Approved(r))
    BY <1>2 DEF Claim, ClaimVerdict
  <2>3. requests'[r] = [x EXCEPT !.status = "dispatching"]
    BY <1>t, <2>1 DEF TypeOK, RequestsTypeOK
  <2>4. /\ requests'[r] \in Request
        /\ requests'[r].device = x.device /\ requests'[r].service = x.service
        /\ requests'[r].revision = x.revision /\ requests'[r].perm = x.perm
        /\ requests'[r].route = x.route /\ requests'[r].body = x.body
        /\ requests'[r].expires = x.expires /\ requests'[r].key = x.key
        /\ requests'[r].status = "dispatching" /\ requests'[r].snapshot = x.snapshot
        /\ requests'[r].result = x.result
    BY <2>1, <2>3 DEF Request, Status
  <2>5. requests'[r] # NoReq /\ Digest(requests'[r]) = Digest(x)
    BY <2>4, RequestAssumption DEF Digest
  <2>6. \A o \in ReqId : o # r => requests'[o] = requests[o]
    BY <1>t, <2>1 DEF TypeOK, RequestsTypeOK
  <2> QED
    BY <1>2, <2>1, <2>2, <2>4, <2>5, <2>6 DEF Claimed, Moves, Same
<1>3. CASE Finish(j)
  <2> DEFINE o == jobs[j].outcome
             s == FinishStatus(o)
  <2>1. /\ r \in ReqId /\ Row(r) /\ requests[r].status = "dispatching"
        /\ requests' = finishTx(r, s, FinishResult(o))
        /\ UNCHANGED <<authorityVars, approvals>>
    BY <1>3, <1>r DEF Finish, JobAt, HoldInv, ClaimsExclusive, Holding, InStatus
  <2>2. o \in Outcome
    BY <1>3 DEF Finish, HoldInv, OutcomeKnown
  <2>3. /\ s \in Status /\ s \in {"completed", "failed", "outcome_unknown"}
        /\ FinishResult(o) \in {"none", "kept"}
    BY <2>2 DEF Outcome, FinishStatus, FinishResult, Status
  <2>4. /\ Same(r) /\ requests'[r].status = s
        /\ requests'[r].snapshot = requests[r].snapshot
        /\ \A q \in ReqId : q # r => requests'[q] = requests[q]
    BY <1>t, <2>1, <2>3, FinishRow
  <2> QED
    BY <1>3, <2>1, <2>3, <2>4 DEF Finished, Moves
<1>4. CASE ~(ClaimRefused(j) \/ Claim(j) \/ Finish(j))
  BY <1>4
     DEF Dispatching, JobStep, ClaimTooLate, ClaimFails, SendNotSent, SendGotConn, SendReply,
         FinishFails, Exit
<1> QED
  BY <1>1, <1>2, <1>3, <1>4

\* Every step does to every row one of the things above.
LEMMA StepOfRows ==
    ASSUME HoldInv, Next, NEW r \in ReqId PROVE RowStep(r)
<1>t. TypeOK
  BY DEF HoldInv
<1>a. UNCHANGED <<requests, approvals>> => RowStep(r)
  BY DEF RowStep, Settled
<1>b. ASSUME NEW R, requests' = cancelRequests(R), UNCHANGED approvals PROVE RowStep(r)
  BY <1>b, <1>t, CancelRow DEF RowStep, Settled
<1> USE DEF Transaction
<1>1. ASSUME NEW d \in Device, OwnerInvite(d) \/ OwnerRevokeDevice(d) PROVE RowStep(r)
  BY <1>1, <1>a, <1>b DEF OwnerInvite, OwnerRevokeDevice, RevokeDevice
<1>2. ASSUME NEW s \in Service,
             OwnerCreateService(s) \/ OwnerReviseService(s) \/ OwnerDisableService(s)
      PROVE  RowStep(r)
  BY <1>2, <1>a, <1>b
     DEF OwnerCreateService, OwnerReviseService, ReviseService, OwnerDisableService,
         DisableService
<1>3. ASSUME NEW p \in PermId, OwnerAddPermission(p) \/ OwnerRevokePermission(p)
      PROVE  RowStep(r)
  BY <1>3, <1>a, <1>b DEF OwnerAddPermission, OwnerRevokePermission, RevokePermission
<1>4. ASSUME NEW q \in ReqId, DeviceSubmit(q) PROVE RowStep(r)
  BY <1>4, <1>t, SubmitRow DEF RowStep, Settled
<1>5. ASSUME NEW q \in ReqId, OwnerDecide(q) PROVE RowStep(r)
  BY <1>5, <1>t, DecideRow DEF RowStep, Settled
<1>6. CASE Worker
  <2>1. CASE Maintain
    BY <2>1, <1>t, MaintenanceRow DEF Maintain, RowStep, Settled
  <2>2. CASE ~Maintain
    BY <1>6, <2>2, <1>a DEF Worker, WorkerStep, MaintainFails, Scan, ScanFails, Skip, Spawn
  <2> QED
    BY <2>1, <2>2
<1>7. ASSUME NEW j \in Job, Dispatching(j) PROVE RowStep(r)
  BY <1>7, DispatchRow DEF RowStep, Settled
<1>8. ASSUME NEW h \in Handler, Proxying(h) PROVE RowStep(r)
  BY <1>8, <1>a DEF Proxying
<1>9. CASE Clock \/ Stop \/ WorkerReturn \/ Close \/ Crash
  BY <1>9, <1>a DEF Clock, Stop, WorkerReturn, Close, Crash
<1>10. CASE Start \/ StartRestored
  BY <1>10, <1>t, RecoverRow DEF Start, StartRestored, StartWith, RowStep, Settled
<1>11. CASE FinishRestored
  BY <1>11, <1>b DEF FinishRestored, RecoverRestored
<1> QED
  BY <1>1, <1>2, <1>3, <1>4, <1>5, <1>6, <1>7, <1>8, <1>9, <1>10, <1>11 DEF Next

\* A permission row stays, with its mode.
LEMMA PermissionsStay ==
    ASSUME HoldInv, Next, NEW p \in PermId, permissions[p] # NoPerm
    PROVE  permissions'[p] # NoPerm /\ permissions'[p].mode = permissions[p].mode
<1>t. TypeOK /\ permissions[p] \in Permission
  BY DEF HoldInv, TypeOK, AuthorityTypeOK
<1>a. ASSUME NEW o \in PermId, OwnerAddPermission(o)
      PROVE  permissions'[p] = permissions[p]
  BY <1>a, <1>t DEF OwnerAddPermission, AddPermission, GrantTo, TypeOK, AuthorityTypeOK
<1>b. ASSUME NEW o \in PermId, OwnerRevokePermission(o)
      PROVE  /\ permissions'[p] \in Permission
             /\ permissions'[p].mode = permissions[p].mode
  BY <1>b, <1>t
     DEF OwnerRevokePermission, RevokePermission, TypeOK, AuthorityTypeOK, Permission
<1>c. ASSUME \A o \in PermId : ~OwnerAddPermission(o) /\ ~OwnerRevokePermission(o)
      PROVE  UNCHANGED permissions
  <2>1. ASSUME NEW j \in Job, Dispatching(j) PROVE UNCHANGED permissions
    BY <2>1, DispatchRow
  <2>2. ASSUME NEW q \in ReqId, DeviceSubmit(q) \/ OwnerDecide(q) PROVE UNCHANGED permissions
    BY <2>2, <1>t, SubmitRow, DecideRow
  <2>3. ASSUME NEW h \in Handler, Proxying(h) PROVE UNCHANGED permissions
    BY <2>3
       DEF Proxying, HttpStep, HttpAccept, HttpBodyFails, HttpRefuse, HttpAuthorize, HttpSent,
           HttpExit
  <2>4. Worker => UNCHANGED permissions
    BY DEF Worker, WorkerStep, Maintain, MaintainFails, Scan, ScanFails, Skip, Spawn
  <2> QED
    BY <1>c, <2>1, <2>2, <2>3, <2>4
       DEF Next, Clock, Tick, OwnerInvite, Invite, OwnerRevokeDevice, RevokeDevice,
           OwnerCreateService, CreateService, OwnerReviseService, ReviseService,
           OwnerDisableService, DisableService, Start, StartRestored, StartWith,
           FinishRestored, RecoverRestored, Stop, WorkerReturn, Close, Crash
<1> QED
  BY <1>t, <1>a, <1>b, <1>c, NoPermAssumption

\* A request that stays the request it was needs approval exactly if it did, and keeps an
\* approval unless a decision is recorded.
LEMMA SameRow ==
    ASSUME HoldInv, PermsExist, Next, NEW r \in ReqId, Same(r)
    PROVE  /\ requests'[r].perm = requests[r].perm
           /\ permissions'[requests'[r].perm] # NoPerm
           /\ NeedsApproval(r)' <=> NeedsApproval(r)
           /\ Settled(r) /\ Approved(r) => Approved(r)'
<1>1. requests[r] \in Request /\ requests[r].perm \in PermId
  BY DEF Same, Row, HoldInv, TypeOK, RequestsTypeOK, Request
<1>2. requests'[r].perm = requests[r].perm
  BY DEF Same, Digest
<1>3. permissions[requests[r].perm] # NoPerm
  BY DEF PermsExist, Same
<1>4. /\ permissions'[requests[r].perm] # NoPerm
      /\ permissions'[requests[r].perm].mode = permissions[requests[r].perm].mode
  BY <1>1, <1>3, PermissionsStay
<1>5. NeedsApproval(r)' <=> NeedsApproval(r)
  BY <1>2, <1>4 DEF NeedsApproval
<1>6. Settled(r) /\ Approved(r) => Approved(r)'
  BY DEF Settled, Approved, Same
<1> QED
  BY <1>2, <1>4, <1>5, <1>6

\* One step keeps what a row rests on.
LEMMA RecordStep == ASSUME RecordInv, Next PROVE RecordInv'
<1>i. /\ DispatchInv /\ PermsExist /\ Unpurged /\ PastApproval /\ DispatchInv'
      /\ HoldInv
  BY StepInv DEF RecordInv, DispatchInv
<1>r. \A r \in ReqId : RowStep(r)
  BY <1>i, StepOfRows
<1>s. \A r \in ReqId : Same(r) =>
          /\ permissions'[requests'[r].perm] # NoPerm
          /\ NeedsApproval(r)' <=> NeedsApproval(r)
          /\ Settled(r) /\ Approved(r) => Approved(r)'
  BY <1>i, SameRow
<1>u. \A r \in ReqId : requests'[r] = requests[r] /\ Row(r) => Same(r)
  BY DEF Same, Row
<1>n. ASSUME NEW r \in ReqId, Inserted(r)
      PROVE  /\ permissions'[requests'[r].perm] # NoPerm
             /\ requests'[r].status = "queued" => ~NeedsApproval(r)'
             /\ requests'[r].status \in {"queued", "pending_approval"}
  <2>1. requests'[r].perm \in PermId /\ permissions[requests'[r].perm] # NoPerm
    BY <1>n DEF Inserted, Rests
  <2>2. /\ permissions'[requests'[r].perm] # NoPerm
        /\ permissions'[requests'[r].perm].mode = permissions[requests'[r].perm].mode
    BY <1>i, <2>1, PermissionsStay
  <2>3. requests'[r].status = IF permissions[requests'[r].perm].mode = "standing"
                              THEN "queued" ELSE "pending_approval"
    BY <1>n DEF Inserted
  <2>4. requests'[r].status = "queued" => permissions[requests'[r].perm].mode = "standing"
    BY <2>3
  <2> QED
    BY <2>2, <2>3, <2>4 DEF NeedsApproval
<1>1. PermsExist'
  <2> SUFFICES ASSUME NEW r \in ReqId, requests'[r] # NoReq
               PROVE  permissions'[requests'[r].perm] # NoPerm
    BY DEF PermsExist, Row
  <2>1. Same(r) \/ Inserted(r)
    BY <1>r, <1>u
       DEF RowStep, Withdrawn, Purged, Decided, Refused, Claimed, Finished, Moves, Row
  <2> QED
    BY <2>1, <1>s, <1>n
<1>2. Unpurged'
  <2> SUFFICES ASSUME NEW r \in ReqId, requests'[r] # NoReq, ~terminal(requests'[r].status)
               PROVE  requests'[r].snapshot = "kept" /\ requests'[r].result = "none"
    BY DEF Unpurged, Row, SnapshotReadable, terminal
  <2>1. \/ requests'[r] = requests[r]
        \/ Inserted(r)
        \/ Decided(r)
        \/ Claimed(r)
    BY <1>r DEF RowStep, Withdrawn, Purged, Refused, Finished, Moves, terminal
  <2>2. ~Inserted(r) => /\ Row(r) /\ ~terminal(requests[r].status)
                        /\ requests'[r].snapshot = requests[r].snapshot
                        /\ requests'[r].result = requests[r].result
    BY <2>1 DEF Decided, Claimed, Moves, Same, Row, terminal
  <2> QED
    BY <1>i, <2>2 DEF Inserted, Unpurged, SnapshotReadable
<1>3. PastApproval'
  <2> DEFINE S == {"queued", "dispatching", "completed", "failed", "outcome_unknown"}
  <2> SUFFICES ASSUME NEW r \in ReqId, InStatus(r, S)', NeedsApproval(r)'
               PROVE  Approved(r)'
    BY DEF PastApproval
  <2>1. CASE Same(r) /\ InStatus(r, S) /\ Settled(r)
    BY <1>i, <1>s, <2>1 DEF PastApproval
  <2>2. CASE Inserted(r)
    BY <1>n, <2>2 DEF InStatus
  <2>3. CASE Decided(r)
    BY <2>3 DEF Decided, Moves, InStatus
  <2>4. Row(r)' /\ requests'[r].status \in S
    BY DEF InStatus
  <2>5. ~Inserted(r) /\ ~Decided(r) => Same(r) /\ InStatus(r, S) /\ Settled(r)
    BY <1>r, <1>u, <2>4
       DEF RowStep, Withdrawn, Purged, Refused, Claimed, Finished, Moves, Same, InStatus, Row
  <2> QED
    BY <2>1, <2>2, <2>3, <2>5
<1> QED
  BY <1>i, <1>1, <1>2, <1>3 DEF RecordInv

\* Together with DispatchInv: every row's permission stays, what is not settled is readable,
\* and what is past approval was approved as it stands.
THEOREM RecordInvariant == Spec => []RecordInv
<1>1. Init => RecordInv
  BY InitInv
     DEF Init, RequestsInit, RecordInv, PermsExist, Unpurged, PastApproval, InStatus, Row
<1>2. ASSUME RecordInv, UNCHANGED vars PROVE RecordInv'
  BY <1>2, StepInv
     DEF RecordInv, vars, PermsExist, Unpurged, PastApproval, InStatus, Row, NeedsApproval,
         Approved, SnapshotReadable
<1>3. RecordInv /\ [Next]_vars => RecordInv'
  BY <1>2, RecordStep
<1> QED
  BY <1>1, <1>3, PTL DEF Spec

\* Nothing that needs an approval is queued, claimed or transmitted without one of that very
\* snapshot (Decide's digest check, the claim's approvals query).
THEOREM SentAsApproved == Spec => []ApprovedAsReviewed
<1>1. RecordInv => ApprovedAsReviewed
  BY DEF RecordInv, DispatchInv, HoldInv, HonestOutcome, PastApproval, ApprovedAsReviewed, InStatus,
         TypeOK, DispatchTypeOK
<1> QED
  BY <1>1, RecordInvariant, PTL

\* The claim is made only under authority in force, whatever happened since the request
\* was queued.
THEOREM ClaimsAreAuthorized == Spec => ClaimBoundary
<1>1. ASSUME RecordInv, Next, NEW r \in ReqId PROVE ClaimStep(r)
  <2> SUFFICES ASSUME InStatus(r, {"queued"}), requests'[r].status = "dispatching"
               PROVE  LET x == requests[r] IN
                      /\ ActiveDevice(x.device) /\ Enabled(x.service)
                      /\ ActiveRule(x.perm, x.device, x.service)
                      /\ permissions[x.perm].revision = x.revision
                      /\ now < x.expires
    BY DEF ClaimStep
  <2>1. RowStep(r) /\ TypeOK
    BY <1>1, StepOfRows DEF RecordInv, DispatchInv, HoldInv
  <2>2. Claimed(r)
    BY <2>1
       DEF RowStep, InStatus, Inserted, Withdrawn, Purged, Decided, Refused, Finished, Moves,
           Row
  <2>3. requests[r].expires > now
    BY <2>2 DEF Claimed, validSnapshot
  <2>4. requests[r].expires \in Int /\ now \in Int
    BY <2>1, BoundAssumption
       DEF InStatus, Row, TypeOK, RequestsTypeOK, Request, AuthorityTypeOK, Time, Never
  <2>5. now < requests[r].expires
    BY <2>3, <2>4
  <2> QED
    BY <2>2, <2>5 DEF Claimed, validSnapshot, Authorize, ActiveRule
<1>2. ASSUME UNCHANGED vars, NEW r \in ReqId PROVE ClaimStep(r)
  BY <1>2 DEF vars, ClaimStep, InStatus
<1>3. RecordInv /\ [Next]_vars => [\A r \in ReqId : ClaimStep(r)]_vars
  BY <1>1, <1>2
<1> QED
  BY <1>3, RecordInvariant, PTL DEF Spec, ClaimBoundary

\* No row is ever deleted or rebound, and payloads and results outlast the retention.
THEOREM RecordsAreKept == Spec => RecordsKept
<1>1. ASSUME RecordInv, Next, NEW r \in ReqId PROVE RowKept(r)
  <2> SUFFICES ASSUME Row(r) PROVE RowKept(r)
    BY DEF RowKept
  <2>1. RowStep(r) /\ Unpurged
    BY <1>1, StepOfRows DEF RecordInv, DispatchInv
  <2>2. Same(r)
    BY <2>1
       DEF RowStep, Inserted, Withdrawn, Purged, Decided, Refused, Claimed, Finished, Moves,
           Same, Row
  <2>3. Purged(r) \/ requests'[r].snapshot = requests[r].snapshot
    BY <2>1
       DEF RowStep, Inserted, Withdrawn, Decided, Refused, Claimed, Finished, Moves
  <2>4. \/ Purged(r)
        \/ requests'[r].result = requests[r].result
        \/ ~terminal(requests[r].status)
    BY <2>1
       DEF RowStep, Inserted, Withdrawn, Decided, Refused, Claimed, Finished, Moves, terminal
  <2>5. ~terminal(requests[r].status) => requests[r].result # "kept"
    BY <2>1 DEF Unpurged
  <2> QED
    BY <2>2, <2>3, <2>4, <2>5 DEF RowKept, Same, Purged
<1>2. ASSUME UNCHANGED vars, NEW r \in ReqId PROVE RowKept(r)
  BY <1>2 DEF vars, RowKept, Row
<1>3. RecordInv /\ [Next]_vars => [\A r \in ReqId : RowKept(r)]_vars
  BY <1>1, <1>2
<1> QED
  BY <1>3, RecordInvariant, PTL DEF Spec, RecordsKept
-----------------------------------------------------------------------------
\* A transmission is a step of its own, of a claimed request, the first one.
LEMMA Transmission ==
    ASSUME DispatchInv, Next, NEW r \in ReqId
    PROVE  \/ sends'[r] = sends[r]
           \/ /\ UNCHANGED requests /\ InStatus(r, {"dispatching"})
              /\ sends[r] = 0 /\ sends'[r] = 1
<1>1. ASSUME NEW j \in Job, Dispatching(j), SendGotConn(j)
      PROVE  \/ sends'[r] = sends[r]
             \/ /\ UNCHANGED requests /\ InStatus(r, {"dispatching"})
                /\ sends[r] = 0 /\ sends'[r] = 1
  <2>1. /\ InStatus(jobs[j].req, {"dispatching"}) /\ sends[jobs[j].req] = 0
        /\ UNCHANGED requests
        /\ sends' = [sends EXCEPT ![jobs[j].req] = sends[jobs[j].req] + 1]
    BY <1>1
       DEF SendGotConn, JobAt, DispatchInv, HoldInv, ClaimsExclusive, Holding, HolderKnows
  <2>2. sends \in [ReqId -> Nat]
    BY DEF DispatchInv, HoldInv, TypeOK, DispatchTypeOK
  <2>3. CASE r = jobs[j].req
    BY <2>1, <2>2, <2>3
  <2>4. CASE r # jobs[j].req
    BY <2>1, <2>2, <2>4
  <2> QED
    BY <2>3, <2>4
<1>2. ASSUME NEW j \in Job, Dispatching(j), ~SendGotConn(j) PROVE UNCHANGED sends
  BY <1>2
     DEF Dispatching, JobStep, ClaimTooLate, ClaimRefused, Claim, ClaimFails, SendNotSent,
         SendReply, Finish, FinishFails, Exit
<1>3. ASSUME \A j \in Job : ~Dispatching(j) PROVE UNCHANGED sends
  <2>1. Worker => UNCHANGED sends
    BY DEF Worker, WorkerStep, Maintain, MaintainFails, Scan, ScanFails, Skip, Spawn
  <2> QED
    BY <1>3, <2>1
       DEF Next, Clock, OwnerInvite, OwnerRevokeDevice, OwnerCreateService, OwnerReviseService,
           OwnerDisableService, OwnerAddPermission, OwnerRevokePermission, DeviceSubmit,
           OwnerDecide, Transaction, Proxying, Start, StartRestored, StartWith, FinishRestored,
           Stop, WorkerReturn, Close, Crash
<1> QED
  BY <1>1, <1>2, <1>3

\* The gateway implements the lifecycle it promises: every step of the system is, for each
\* request, one step of the diagram or none.
THEOREM KeepsItsPromise == Spec => ImplementsLifecycle
<1> USE DEF Promise!vars, Promise!Init, Promise!Next
<1>1. Init => Promise!Init
  BY DEF Init, RequestsInit, DispatchInit, Row
<1>2. ASSUME RecordInv, RecordInv', Next, NEW r \in ReqId PROVE Promise!Step(r)
  <2> USE DEF Promise!Step, Promise!Rest, Promise!Move
  <2>1. RowStep(r)
    BY <1>2, StepOfRows DEF RecordInv, DispatchInv
  <2>2. \/ sends'[r] = sends[r]
        \/ /\ UNCHANGED requests /\ InStatus(r, {"dispatching"})
           /\ sends[r] = 0 /\ sends'[r] = 1
    BY <1>2, Transmission DEF RecordInv
  <2>3. CASE UNCHANGED requests /\ sends'[r] # sends[r]
    <3>1. Promise!Transmit(r)
      BY <2>2, <2>3 DEF Promise!Transmit, InStatus, Row
    <3> QED
      BY <3>1
  <2>4. CASE requests'[r] = requests[r] /\ sends'[r] = sends[r]
    BY <2>4 DEF Row
  <2>5. CASE requests'[r] # requests[r]
    <3>1. sends'[r] = sends[r]
      BY <2>2, <2>5
    <3>2. CASE Inserted(r)
      <4>1. Promise!Submit(r)
        BY <3>1, <3>2 DEF Inserted, Row, Promise!Submit
      <4> QED
        BY <4>1
    <3>3. CASE Withdrawn(r)
      <4>1. Promise!Withdraw(r)
        BY <3>1, <3>3 DEF Withdrawn, Moves, Same, Row, Promise!Withdraw, Waits
      <4> QED
        BY <4>1
    <3>4. CASE Purged(r)
      BY <3>1, <3>4 DEF Purged, Same, Row
    <3>5. CASE Decided(r)
      <4>1. Promise!Approve(r) \/ Promise!Deny(r)
        BY <3>1, <3>5 DEF Decided, Moves, Same, Row, Promise!Approve, Promise!Deny
      <4> QED
        BY <4>1
    <3>6. CASE Refused(r)
      <4>1. InStatus(r, {"queued"}) /\ requests'[r].status # "failed"
        <5>1. InStatus(r, {"queued"}) /\ Row(r) /\ ~terminal(requests[r].status)
          BY <3>6 DEF Refused, Moves, Same, InStatus, terminal
        <5>2. SnapshotReadable(r) /\ (NeedsApproval(r) => Approved(r))
          BY <1>2, <5>1 DEF RecordInv, Unpurged, PastApproval, InStatus
        <5> QED
          BY <3>6, <5>1, <5>2 DEF Refused
      <4>2. Promise!Withdraw(r)
        BY <3>1, <3>6, <4>1 DEF Refused, Moves, Same, Row, Promise!Withdraw
      <4> QED
        BY <4>2
    <3>7. CASE Claimed(r)
      <4>1. Promise!Claim(r)
        BY <3>1, <3>7 DEF Claimed, Moves, Same, Row, Promise!Claim
      <4> QED
        BY <4>1
    <3>8. CASE Finished(r)
      <4>1. /\ Row(r) /\ Row(r)' /\ requests[r].status = "dispatching"
            /\ requests'[r].status \in {"completed", "failed", "outcome_unknown"}
        BY <3>8 DEF Finished, Moves, Same, Row
      <4>2. /\ requests'[r].status = "completed" => sends[r] = 1
            /\ requests'[r].status = "failed" => sends[r] = 0
        <5>1. /\ sends[r] \in {0, 1}
              /\ sends'[r] > 0 =>
                     requests'[r].status \in {"dispatching", "completed", "outcome_unknown"}
              /\ requests'[r].status = "completed" => sends'[r] > 0
          BY <1>2, <4>1
             DEF RecordInv, DispatchInv, AtMostOnce, HonestOutcome, InStatus
        <5> QED
          BY <3>1, <4>1, <5>1
      <4>3. Promise!Complete(r) \/ Promise!Fail(r) \/ Promise!LoseTrack(r)
        BY <3>1, <4>1, <4>2
           DEF Row, Promise!Complete, Promise!Fail, Promise!LoseTrack
      <4> QED
        BY <4>3
    <3> QED
      BY <2>1, <2>5, <3>2, <3>3, <3>4, <3>5, <3>6, <3>7, <3>8 DEF RowStep
  <2> QED
    BY <2>2, <2>3, <2>4, <2>5
<1>3. ASSUME RecordInv, RecordInv', Next PROVE Promise!Next
  BY <1>2, <1>3
<1>4. UNCHANGED vars => UNCHANGED Promise!vars
  BY DEF vars, Row
<1>5. RecordInv /\ RecordInv' /\ [Next]_vars => [Promise!Next]_(Promise!vars)
  BY <1>3, <1>4
<1> QED
  BY <1>1, <1>5, RecordInvariant, PTL DEF Spec, ImplementsLifecycle, Promise!Spec
=============================================================================
