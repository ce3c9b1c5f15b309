--------------------------- MODULE RestoreProofs ---------------------------
(***************************************************************************)
(* Proofs about the lives of a database file: over any number of backups   *)
(* and restores, a device's idempotency key reaches the upstream at most   *)
(* once, and nothing of an earlier life acts once the server is up again.  *)
(***************************************************************************)
EXTENDS Restore, AuthorityProofs

USE DEF authorityVars, tableVars, dbVars, slotVars, workerVars, dispatchVars, memoryVars

\* Only the step behind GotConn counts a transmission.
LEMMA OnlyGotConnSends ==
    ASSUME HoldInv, Next
    PROVE  UNCHANGED sends \/ \E j \in Job : Dispatching(j) /\ SendGotConn(j)
<1>1. ASSUME NEW j \in Job, Dispatching(j), ~SendGotConn(j) PROVE UNCHANGED sends
  BY <1>1
     DEF Dispatching, JobStep, ClaimTooLate, ClaimRefused, Claim, ClaimFails, SendNotSent,
         SendReply, Finish, FinishFails, Exit
<1>2. Worker => UNCHANGED sends
  BY DEF Worker, WorkerStep, Maintain, MaintainFails, Scan, ScanFails, Skip, Spawn
<1> QED
  BY <1>1, <1>2
     DEF Next, Clock, OwnerInvite, OwnerRevokeDevice, OwnerCreateService, OwnerReviseService,
         OwnerDisableService, OwnerAddPermission, OwnerRevokePermission, DeviceSubmit,
         OwnerDecide, Transaction, Proxying, Start, StartRestored, StartWith, FinishRestored,
         Stop, WorkerReturn, Close, Crash

\* A goroutine about to send was already, or claims its request in this step.
LEMMA OnlyClaimHolds ==
    ASSUME HoldInv, Next, NEW j \in Job, JobAt(j, "claimed")'
    PROVE  /\ jobs'[j].req = jobs[j].req
           /\ JobAt(j, "claimed") \/ (Dispatching(j) /\ Claim(j))
<1>t. TypeOK /\ jobs \in [Job -> JobState]
  BY DEF HoldInv, TypeOK, DispatchTypeOK
<1>1. ASSUME NEW k \in Job, Dispatching(k)
      PROVE  /\ jobs'[j].req = jobs[j].req
             /\ JobAt(j, "claimed") \/ (Dispatching(j) /\ Claim(j))
  <2>1. CASE k # j
    <3>1. jobs'[j] = jobs[j]
      BY <1>1, <1>t, <2>1
         DEF Dispatching, JobStep, ClaimTooLate, ClaimRefused, Claim, ClaimFails, SendNotSent,
             SendGotConn, SendReply, Finish, FinishFails, Exit, Goto
    <3> QED
      BY <3>1 DEF JobAt
  <2>2. CASE k = j /\ Exit(j)
    BY <1>t, <2>2 DEF Exit, Idle, JobAt
  <2>3. CASE k = j /\ ~Exit(j)
    <3>1. PICK pc, o : Goto(j, pc, o) /\ (pc = "claimed" => Claim(j))
      BY <1>1, <2>3
         DEF Dispatching, JobStep, ClaimTooLate, ClaimRefused, Claim, ClaimFails, SendNotSent,
             SendGotConn, SendReply, Finish, FinishFails
    <3>2. jobs'[j].pc = pc /\ jobs'[j].req = jobs[j].req
      BY <1>t, <3>1, GotoMoves
    <3> QED
      BY <1>1, <2>3, <3>1, <3>2 DEF JobAt
  <2> QED
    BY <2>1, <2>2, <2>3
<1>2. ASSUME Worker PROVE jobs'[j] = jobs[j]
  <2>1. ASSUME NEW c \in batch, NEW k \in Job, Spawn(c, k) PROVE jobs'[j] = jobs[j]
    BY <1>t, <2>1 DEF Spawn, JobAt
  <2> QED
    BY <1>2, <2>1 DEF Worker, WorkerStep, Maintain, MaintainFails, Scan, ScanFails, Skip
<1>3. ~LoseMemory
  BY DEF LoseMemory, JobAt, Idle
<1>4. jobs' = jobs => jobs'[j].req = jobs[j].req /\ JobAt(j, "claimed")
  BY DEF JobAt
<1> QED
  BY <1>1, <1>2, <1>3, <1>4
     DEF Next, Clock, OwnerInvite, OwnerRevokeDevice, OwnerCreateService, OwnerReviseService,
         OwnerDisableService, OwnerAddPermission, OwnerRevokePermission, DeviceSubmit,
         OwnerDecide, Transaction, Proxying, Start, StartRestored, StartWith, FinishRestored,
         Stop, WorkerReturn, Close, Crash, JobAt

\* A device that has a row keeps it, and one that was revoked stays so.
LEMMA DeviceStep ==
    ASSUME HoldInv, Next, NEW d \in Device
    PROVE  /\ devices[d] \in {"absent", "active", "revoked"}
           /\ devices[d] # "absent" => devices'[d] # "absent"
           /\ devices'[d] = "active" => devices[d] \in {"absent", "active"}
<1>t. devices \in [Device -> {"absent", "active", "revoked"}]
  BY DEF HoldInv, TypeOK, AuthorityTypeOK
<1>1. ASSUME NEW e \in Device, OwnerInvite(e) \/ OwnerRevokeDevice(e)
      PROVE  /\ devices[d] # "absent" => devices'[d] # "absent"
             /\ devices'[d] = "active" => devices[d] \in {"absent", "active"}
  BY <1>1, <1>t DEF OwnerInvite, Invite, OwnerRevokeDevice, RevokeDevice
<1>2. ASSUME FinishRestored
      PROVE  /\ devices[d] # "absent" => devices'[d] # "absent"
             /\ devices'[d] = "active" => devices[d] \in {"absent", "active"}
  BY <1>2, <1>t DEF FinishRestored, RecoverRestored
<1>3. UNCHANGED devices \/ (\E e \in Device : OwnerInvite(e) \/ OwnerRevokeDevice(e))
      \/ FinishRestored
  BY AuthorityStays
     DEF OwnerCreateService, CreateService, OwnerReviseService, ReviseService,
         OwnerDisableService, DisableService, OwnerAddPermission, AddPermission, GrantTo,
         OwnerRevokePermission, RevokePermission
<1> QED
  BY <1>t, <1>1, <1>2, <1>3

\* A row stays, with its device and key.
LEMMA KeyStays ==
    ASSUME HoldInv, Next, NEW r \in ReqId, Row(r)
    PROVE  /\ requests'[r] # NoReq
           /\ requests'[r].device = requests[r].device /\ requests'[r].key = requests[r].key
           /\ requests[r].device \in Device /\ requests[r].key \in Key
<1>1. RowStep(r) /\ requests[r] \in Request
  BY StepOfRows DEF HoldInv, TypeOK, RequestsTypeOK, Row
<1>2. requests'[r] = requests[r] \/ Same(r)
  BY <1>1
     DEF RowStep, Inserted, Withdrawn, Purged, Decided, Refused, Claimed, Finished, Moves
<1>3. Same(r) => requests'[r].device = requests[r].device
  <2>1. Digest(requests'[r]).device = requests'[r].device
        /\ Digest(requests[r]).device = requests[r].device
    BY DEF Digest
  <2> QED
    BY <2>1 DEF Same
<1> QED
  BY <1>1, <1>2, <1>3 DEF Same, Row, Request

\* What waits after a step waited before it, or was submitted in it.
LEMMA WaitedBefore ==
    ASSUME HoldInv, Next, NEW r \in ReqId, Undispatched(r)'
    PROVE  Undispatched(r) \/ DeviceSubmit(r)
<1>1. RowStep(r) /\ requests'[r] # NoReq /\ requests'[r].status \in Waits
  BY StepOfRows DEF Undispatched, InStatus, Row, Waits
<1>2. Inserted(r) => DeviceSubmit(r)
  BY OnlySubmitInserts
<1> QED
  BY <1>1, <1>2
     DEF RowStep, Withdrawn, Purged, Decided, Refused, Claimed, Finished, Moves, Same,
         Undispatched, InStatus, Row, Waits, terminal

\* A process that is down comes up in one step or not at all, and has no candidates.
LEMMA DownStep ==
    ASSUME Next
    PROVE  /\ ~Serving => phase' # "stopping"
           /\ ~Serving' => batch' = {} \/ (~Serving /\ batch' = batch)
  BY DEF Next, Clock, OwnerInvite, OwnerRevokeDevice, OwnerCreateService, OwnerReviseService,
         OwnerDisableService, OwnerAddPermission, OwnerRevokePermission, DeviceSubmit,
         OwnerDecide, Transaction, Proxying, Worker, Dispatching, Start, StartRestored,
         StartWith, FinishRestored, Stop, WorkerReturn, Close, Crash, LoseMemory, Serving
-----------------------------------------------------------------------------
\* What a server step adds to the ledger: nothing, or the first transmission of the key that
\* one goroutine holds.
Spends(j) ==
    /\ j \in Job /\ SendGotConn(j) /\ JobAt(j, "claimed") /\ UNCHANGED <<requests, devices>>
    /\ jobs[j].req \in ReqId /\ Row(jobs[j].req)
    /\ InStatus(jobs[j].req, {"dispatching"})
    /\ KeyOf(jobs[j].req) \in Device \X Key
    /\ ledger[KeyOf(jobs[j].req)] = 0
    /\ ledger' = [ledger EXCEPT ![KeyOf(jobs[j].req)] = 1]

LEMMA LedgerStep ==
    ASSUME RestoreInv, Next, Note
    PROVE  UNCHANGED ledger \/ \E j \in Job : Spends(j)
<1>i. /\ HoldInv /\ HolderUnspent /\ ledger \in [Device \X Key -> {0, 1}]
      /\ TypeOK /\ sends \in [ReqId -> Nat]
  BY DEF RestoreInv, RestoreTypeOK, HoldInv, TypeOK, DispatchTypeOK
<1>1. ASSUME UNCHANGED sends PROVE UNCHANGED ledger
  <2>1. \A r \in ReqId : ~(sends'[r] > sends[r])
    BY <1>1, <1>i
  <2>2. ledger' = [x \in Device \X Key |-> ledger[x]]
    BY <2>1 DEF Note
  <2> QED
    BY <1>i, <2>2
<1>2. ASSUME NEW j \in Job, Dispatching(j), SendGotConn(j) PROVE Spends(j)
  <2> DEFINE r == jobs[j].req
             x0 == KeyOf(r)
  <2>1. /\ JobAt(j, "claimed") /\ UNCHANGED <<requests, devices>>
        /\ sends' = [sends EXCEPT ![r] = @ + 1]
    BY <1>2 DEF SendGotConn
  <2>2. r \in ReqId /\ Row(r) /\ InStatus(r, {"dispatching"})
    BY <1>i, <2>1 DEF HoldInv, JobsOnRows, ClaimsExclusive, Holding, JobAt
  <2>3. x0 \in Device \X Key
    BY <1>i, <2>2 DEF KeyOf, Row, TypeOK, RequestsTypeOK, Request
  <2>4. ledger[x0] = 0
    BY <1>i, <2>1 DEF HolderUnspent
  <2>5. \A q \in ReqId : sends'[q] > sends[q] <=> q = r
    BY <1>i, <2>1, <2>2
  <2>6. ledger' = [x \in Device \X Key |-> IF x = x0 THEN ledger[x] + 1 ELSE ledger[x]]
    BY <2>2, <2>5 DEF Note, KeyOf
  <2> HIDE DEF x0
  <2>7. ledger' = [ledger EXCEPT ![x0] = 1]
    <3> DEFINE S == Device \X Key
    <3>1. ledger \in [S -> {0, 1}] /\ x0 \in S
      BY <1>i, <2>3
    <3>2. ledger' = [x \in S |-> IF x = x0 THEN 1 ELSE ledger[x]]
      BY <2>4, <2>6
    <3> HIDE DEF S
    <3> QED
      BY <3>1, <3>2
  <2> QED
    BY <1>2, <2>1, <2>2, <2>3, <2>4, <2>7 DEF Spends, x0
<1> QED
  BY <1>1, <1>2, <1>i, OnlyGotConnSends

\* A key of another request is not touched.
LEMMA LedgerKeeps ==
    ASSUME RestoreInv, NEW j \in Job, Spends(j), NEW r \in ReqId, Row(r), r # jobs[j].req
    PROVE  ledger'[KeyOf(r)] = ledger[KeyOf(r)]
<1> DEFINE q == jobs[j].req
<1>1. /\ ledger \in [Device \X Key -> {0, 1}] /\ q \in ReqId /\ Row(q) /\ KeysUnique
      /\ ledger' = [ledger EXCEPT ![KeyOf(q)] = 1]
  BY DEF Spends, RestoreInv, RestoreTypeOK, HoldInv
<1>2. ~(requests[r].device = requests[q].device /\ requests[r].key = requests[q].key)
  BY <1>1 DEF KeysUnique
<1>3. KeyOf(r) # KeyOf(q)
  BY <1>2 DEF KeyOf
<1>4. KeyOf(r) \in Device \X Key
  BY DEF KeyOf, Row, RestoreInv, HoldInv, TypeOK, RequestsTypeOK, Request
<1> QED
  BY <1>1, <1>3, <1>4
-----------------------------------------------------------------------------
\* The server's steps keep the file of a life in order.
LEMMA ServerKeeps == ASSUME RestoreInv, ServerStep PROVE RestoreInv'
<1>i. /\ HoldInv /\ RestoreTypeOK /\ CopyKeysUnique /\ AtRest /\ SpentIsKnown /\ HolderUnspent
      /\ ~restored => LiveAuthority /\ ShutOut /\ WaitingUnspent /\ SpentIsTaken
      /\ TypeOK /\ KeysUnique
  BY DEF RestoreInv, HoldInv
<1>s. /\ Next /\ FreshIds /\ Note /\ UNCHANGED <<backup, retired>>
      /\ restored => phase' # "up" \/ phase = "restoring"
      /\ restored' = (restored /\ phase' # "up")
  BY DEF ServerStep
<1>h. HoldInv' /\ TypeOK'
  BY <1>i, <1>s, StepHold DEF HoldInv
<1>l. UNCHANGED ledger \/ \E j \in Job : Spends(j)
  BY <1>s, LedgerStep
<1>z. /\ ledger \in [Device \X Key -> {0, 1}] /\ ledger' \in [Device \X Key -> {0, 1}]
      /\ \A x \in Device \X Key :
             ledger'[x] = ledger[x] \/ \E j \in Job : Spends(j) /\ x = KeyOf(jobs[j].req)
  <2>1. ledger \in [Device \X Key -> {0, 1}]
    BY <1>i DEF RestoreTypeOK
  <2>2. ASSUME NEW j \in Job, Spends(j)
        PROVE  /\ ledger' \in [Device \X Key -> {0, 1}]
               /\ \A x \in Device \X Key : ledger'[x] = ledger[x] \/ x = KeyOf(jobs[j].req)
    <3>1. ledger' = [ledger EXCEPT ![KeyOf(jobs[j].req)] = 1]
      BY <2>2 DEF Spends
    <3> QED
      BY <2>1, <3>1
  <2> QED
    BY <1>l, <2>1, <2>2
<1>1. RestoreTypeOK' /\ CopyKeysUnique'
  BY <1>i, <1>s, <1>z DEF RestoreTypeOK, CopyKeysUnique
<1>2. AtRest'
  BY <1>i, <1>s, DownStep DEF AtRest, Serving
<1>3. SpentIsKnown'
  <2> SUFFICES ASSUME NEW d \in Device, NEW k \in Key, ledger'[<<d, k>>] > 0
               PROVE  d \in retired \/ devices'[d] # "absent"
    BY <1>s DEF SpentIsKnown
  <2>1. CASE ledger[<<d, k>>] > 0
    BY <1>i, <1>s, <2>1, DeviceStep DEF SpentIsKnown
  <2>2. ASSUME NEW j \in Job, Spends(j), <<d, k>> = KeyOf(jobs[j].req)
        PROVE  devices'[d] # "absent"
    BY <1>i, <2>2 DEF Spends, HolderUnspent, KeyOf
  <2> QED
    BY <1>z, <2>1, <2>2
<1>4. ASSUME NEW r \in ReqId, Row(r), KeyOf(r) \in Device \X Key, ledger[KeyOf(r)] = 0,
             \A j \in Job : Spends(j) => r # jobs[j].req
      PROVE  ledger'[KeyOf(r)] = 0
  BY <1>4, <1>l, LedgerKeeps
<1>5. HolderUnspent'
  <2> SUFFICES ASSUME NEW j \in Job, JobAt(j, "claimed")'
               PROVE  /\ ledger'[KeyOf(jobs[j].req)'] = 0
                      /\ devices'[requests'[jobs'[j].req].device] # "absent"
    BY DEF HolderUnspent
  <2> DEFINE r == jobs[j].req
  <2>1. /\ jobs'[j].req = r
        /\ JobAt(j, "claimed") \/ (Dispatching(j) /\ Claim(j))
    BY <1>i, <1>s, OnlyClaimHolds
  <2>2. r \in ReqId /\ Row(r)
    BY <1>i, <2>1 DEF HoldInv, JobsOnRows, JobAt, Claim
  <2>3. /\ requests'[r].device = requests[r].device /\ requests'[r].key = requests[r].key
        /\ requests[r].device \in Device /\ requests[r].key \in Key
    BY <1>i, <1>s, <2>2, KeyStays
  <2>4. ledger[KeyOf(r)] = 0 /\ devices[requests[r].device] # "absent"
    <3>1. CASE JobAt(j, "claimed")
      BY <1>i, <3>1 DEF HolderUnspent
    <3>2. CASE Dispatching(j) /\ Claim(j)
      <4>1. ~restored /\ Undispatched(r)
        BY <1>i, <3>2 DEF AtRest, Dispatching, Claim, Claimable, Undispatched, InStatus
      <4> QED
        BY <1>i, <2>2, <4>1 DEF WaitingUnspent, LiveAuthority, ActiveDevice
    <3> QED
      BY <2>1, <3>1, <3>2
  <2>5. ASSUME NEW i \in Job, Spends(i) PROVE r # jobs[i].req
    <3>1. JobAt(i, "claimed") /\ jobs'[i].pc = "sent" /\ \A k \in Job : k # i => jobs'[k] = jobs[k]
      BY <1>i, <2>5, GotoMoves DEF Spends, SendGotConn
    <3>2. i # j /\ JobAt(j, "claimed")
      BY <3>1 DEF JobAt
    <3> QED
      BY <1>i, <3>1, <3>2 DEF HoldInv, ClaimsExclusive, Holding, JobAt
  <2>6. KeyOf(r) \in Device \X Key /\ KeyOf(jobs[j].req)' = KeyOf(r)
    BY <2>1, <2>3 DEF KeyOf
  <2>7. ledger'[KeyOf(r)] = 0
    BY <1>4, <2>2, <2>4, <2>5, <2>6
  <2>8. devices'[requests[r].device] # "absent"
    BY <1>i, <1>s, <2>3, <2>4, DeviceStep
  <2> QED
    BY <2>1, <2>3, <2>6, <2>7, <2>8
<1>6. ASSUME ~restored PROVE LiveAuthority' /\ ShutOut' /\ WaitingUnspent' /\ SpentIsTaken'
  <2>i. LiveAuthority /\ ShutOut /\ WaitingUnspent /\ SpentIsTaken
    BY <1>6, <1>i
  <2>1. LiveAuthority'
    BY <1>i, <1>s, <2>i, LiveStep
  <2>2. ASSUME NEW d \in Device, d \in retired, devices[d] # "active" PROVE devices'[d] # "active"
    BY <1>i, <1>s, <2>2, DeviceStep DEF FreshIds
  <2>3. ShutOut'
    BY <1>s, <2>i, <2>2 DEF ShutOut, ActiveDevice
  <2>4. WaitingUnspent'
    <3> SUFFICES ASSUME NEW r \in ReqId, Undispatched(r)' PROVE ledger'[KeyOf(r)'] = 0
      BY DEF WaitingUnspent
    <3>1. CASE Undispatched(r)
      <4>1. Row(r) /\ ledger[KeyOf(r)] = 0
        BY <2>i, <3>1 DEF WaitingUnspent, Undispatched, InStatus
      <4>2. KeyOf(r)' = KeyOf(r) /\ KeyOf(r) \in Device \X Key
        BY <1>i, <1>s, <4>1, KeyStays DEF KeyOf
      <4>3. \A j \in Job : Spends(j) => r # jobs[j].req
        BY <3>1 DEF Spends, Undispatched, InStatus
      <4> QED
        BY <1>4, <4>1, <4>2, <4>3
    <3>2. CASE DeviceSubmit(r)
      <4>1. PICK d \in Device, k \in Key, s \in Service, q \in Routes, b \in Body :
                Submit(r, d, k, s, q, b)
        BY <3>2 DEF DeviceSubmit
      <4>2. KeyOf(r)' = <<d, k>>
        BY <1>i, <4>1 DEF Submit, InsertRequest, KeyOf, TypeOK, RequestsTypeOK
      <4>3. ActiveDevice(d) /\ SameKey(d, k) = {}
        BY <4>1 DEF Submit
      <4>4. ledger[<<d, k>>] = 0
        BY <1>z, <2>i, <4>3 DEF SpentIsTaken
      <4>5. ~Row(r) /\ requests'[r] # NoReq
        BY <1>i, <3>2, SubmitRow DEF Inserted
      <4>6. ASSUME NEW j \in Job, Spends(j) PROVE FALSE
        BY <4>5, <4>6 DEF Spends, Row
      <4> QED
        BY <1>z, <4>2, <4>4, <4>6
    <3> QED
      BY <1>i, <1>s, <3>1, <3>2, WaitedBefore
  <2>5. SpentIsTaken'
    <3> SUFFICES ASSUME NEW d \in Device, NEW k \in Key, ledger'[<<d, k>>] > 0,
                        devices'[d] = "active"
                 PROVE  \E r \in ReqId : /\ requests'[r] # NoReq
                                         /\ requests'[r].device = d /\ requests'[r].key = k
      BY DEF SpentIsTaken, SameKey, ActiveDevice, Row
    <3>1. CASE ledger[<<d, k>>] > 0
      <4>1. devices[d] = "active"
        BY <1>i, <1>s, <2>2, <3>1, DeviceStep DEF SpentIsKnown
      <4>2. PICK r \in ReqId : Row(r) /\ requests[r].device = d /\ requests[r].key = k
        BY <2>i, <3>1, <4>1 DEF SpentIsTaken, SameKey, ActiveDevice
      <4> QED
        BY <1>i, <1>s, <4>2, KeyStays
    <3>2. ASSUME NEW j \in Job, Spends(j), <<d, k>> = KeyOf(jobs[j].req)
          PROVE  \E r \in ReqId : /\ requests'[r] # NoReq
                                  /\ requests'[r].device = d /\ requests'[r].key = k
      BY <3>2 DEF Spends, KeyOf, Row
    <3> QED
      BY <1>z, <3>1, <3>2
  <2> QED
    BY <2>1, <2>3, <2>4, <2>5
<1>7. ASSUME restored, ~restored'
      PROVE  LiveAuthority' /\ ShutOut' /\ WaitingUnspent' /\ SpentIsTaken'
  <2>1. FinishRestored
    BY <1>7, <1>s
       DEF Next, Clock, OwnerInvite, OwnerRevokeDevice, OwnerCreateService, OwnerReviseService,
           OwnerDisableService, OwnerAddPermission, OwnerRevokePermission, DeviceSubmit,
           OwnerDecide, Transaction, Proxying, Worker, Dispatching, Start, StartRestored,
           StartWith, Stop, WorkerReturn, Close, Crash, Serving
  <2>2. \A d \in Device : devices'[d] # "active"
    BY <2>1 DEF FinishRestored, RecoverRestored
  <2>3. \A r \in ReqId : ~Undispatched(r)'
    BY <1>i, <2>1, CancelLeaves DEF FinishRestored, RecoverRestored
  <2> QED
    BY <2>2, <2>3 DEF LiveAuthority, ShutOut, WaitingUnspent, SpentIsTaken, ActiveDevice
<1> QED
  BY <1>h, <1>1, <1>2, <1>3, <1>5, <1>6, <1>7 DEF RestoreInv

\* A copy of the file in service has its types and keys.
LEMMA BackupKeeps == ASSUME RestoreInv, TakeBackup PROVE RestoreInv'
<1>1. /\ backup' = Tables /\ UNCHANGED <<restored, retired, ledger>>
      /\ UNCHANGED vars
  BY DEF TakeBackup
<1>2. HoldInv' /\ TypeOK /\ KeysUnique
  BY <1>1, StepHold DEF RestoreInv, HoldInv
<1>3. Tables \in Copy
  BY <1>2 DEF Tables, Copy, TypeOK, AuthorityTypeOK, RequestsTypeOK
<1>4. Tables.requests = requests
  BY DEF Tables
<1>5. RestoreTypeOK' /\ CopyKeysUnique'
  BY <1>1, <1>2, <1>3, <1>4 DEF RestoreInv, RestoreTypeOK, CopyKeysUnique, KeysUnique, Row
<1> QED
  BY <1>1, <1>2, <1>5
     DEF RestoreInv, vars, AtRest, Serving, SpentIsKnown, HolderUnspent, KeyOf, JobAt,
         LiveAuthority, Undispatched, InStatus, Row, ActiveDevice, Enabled, ShutOut,
         WaitingUnspent, SpentIsTaken, SameKey

\* Putting a copy back retires every device the file knew, and leaves the new file at rest.
LEMMA RestoreKeeps == ASSUME RestoreInv, RestoreBackup PROVE RestoreInv'
<1>i. /\ HoldInv /\ RestoreTypeOK /\ CopyKeysUnique /\ AtRest /\ SpentIsKnown
      /\ TypeOK /\ phase \in {"closed", "crashed"}
  BY DEF RestoreInv, HoldInv, RestoreBackup
<1>s. /\ devices' = backup.devices /\ services' = backup.services
      /\ permissions' = backup.permissions /\ requests' = backup.requests
      /\ approvals' = backup.approvals
      /\ restored' = TRUE /\ retired' = retired \cup Ids /\ backup # NoBackup
      /\ UNCHANGED <<now, memoryVars, phase, backup, ledger>>
  BY DEF RestoreBackup
<1>1. backup \in Copy
  BY <1>i, <1>s DEF RestoreTypeOK
<1>2. /\ backup.devices \in [Device -> {"absent", "active", "revoked"}]
      /\ backup.services \in [Service -> ServiceRow]
      /\ backup.permissions \in [PermId -> Permission \cup {NoPerm}]
      /\ backup.requests \in [ReqId -> Request \cup {NoReq}]
      /\ backup.approvals \in [ReqId -> Decision \cup {NoDecision}]
  BY <1>1 DEF Copy
<1>3. TypeOK'
  BY <1>i, <1>s, <1>2
     DEF TypeOK, AuthorityTypeOK, RequestsTypeOK, SlotsTypeOK, DispatchTypeOK, HttpTypeOK
<1>4. /\ batch' = {} /\ ~Serving' /\ \A j \in Job : jobs'[j].pc = "idle"
  BY <1>i, <1>s DEF HoldInv, QuietWhenDown, AtRest, Serving, JobAt
<1>5. BatchOnRows' /\ JobsOnRows' /\ QuietWhenDown' /\ ClaimsExclusive' /\ OutcomeKnown'
  BY <1>4
     DEF BatchOnRows, JobsOnRows, QuietWhenDown, ClaimsExclusive, OutcomeKnown, Holding, JobAt
<1>6. KeysUnique'
  BY <1>i, <1>s DEF CopyKeysUnique, KeysUnique, Row
<1>7. SpentIsKnown'
  BY <1>i, <1>s DEF SpentIsKnown, Ids
<1>8. RestoreTypeOK' /\ CopyKeysUnique' /\ AtRest' /\ HolderUnspent'
  BY <1>i, <1>s, <1>4 DEF RestoreTypeOK, CopyKeysUnique, AtRest, HolderUnspent, JobAt
<1> QED
  BY <1>s, <1>3, <1>5, <1>6, <1>7, <1>8 DEF RestoreInv, HoldInv

\* Over all lives of the file: the rules of one life hold in each, and what was transmitted
\* in any of them is out of every later one's reach.
THEOREM RestoreInvariant == RestoreSpec => []RestoreInv
<1>1. RestoreInit => RestoreInv
  <2> SUFFICES ASSUME RestoreInit PROVE RestoreInv
    OBVIOUS
  <2>1. /\ Init /\ HoldInv /\ backup = NoBackup /\ restored = FALSE /\ retired = {}
        /\ ledger = [x \in Device \X Key |-> 0]
    BY InitHold DEF RestoreInit
  <2>2. /\ batch = {} /\ phase = "closed" /\ \A j \in Job : jobs[j].pc = "idle"
        /\ \A r \in ReqId : requests[r] = NoReq
    BY <2>1 DEF Init, DispatchInit, RequestsInit, Idle
  <2>3. RestoreTypeOK /\ CopyKeysUnique /\ AtRest
    BY <2>1, <2>2 DEF RestoreTypeOK, CopyKeysUnique, AtRest, Serving
  <2>4. \A d \in Device, k \in Key : ~(ledger[<<d, k>>] > 0)
    BY <2>1
  <2> QED
    BY <2>1, <2>2, <2>3, <2>4
       DEF RestoreInv, SpentIsKnown, HolderUnspent, JobAt, LiveAuthority, ShutOut,
           WaitingUnspent, SpentIsTaken, Undispatched, InStatus, Row
<1>2. ASSUME RestoreInv, UNCHANGED allVars PROVE RestoreInv'
  <2>1. UNCHANGED vars /\ UNCHANGED restoreVars
    BY <1>2 DEF allVars
  <2>2. HoldInv'
    BY <1>2, <2>1, StepHold DEF RestoreInv
  <2> QED
    BY <1>2, <2>1, <2>2
       DEF RestoreInv, vars, restoreVars, RestoreTypeOK, CopyKeysUnique, AtRest, Serving,
           SpentIsKnown, HolderUnspent, KeyOf, JobAt, LiveAuthority, Undispatched, InStatus,
           Row, ActiveDevice, Enabled, ShutOut, WaitingUnspent, SpentIsTaken, SameKey
<1>3. RestoreInv /\ [RestoreNext]_allVars => RestoreInv'
  BY <1>2, ServerKeeps, BackupKeeps, RestoreKeeps DEF RestoreNext
<1> QED
  BY <1>1, <1>3, PTL DEF RestoreSpec

\* A device's idempotency key reaches the upstream at most once, over any number of backups
\* and restores.
THEOREM OneEffectInAllLives == RestoreSpec => []OneEffectAcrossRestores
<1>1. ASSUME RestoreInv PROVE OneEffectAcrossRestores
  <2>1. \A x \in Device \X Key : ledger[x] \in {0, 1}
    BY <1>1 DEF RestoreInv, RestoreTypeOK
  <2> QED
    BY <2>1 DEF OneEffectAcrossRestores
<1> QED
  BY <1>1, RestoreInvariant, PTL

\* A server that is up on a restored file has no active device of an earlier life, and no
\* request of one waits.
THEOREM EarlierLivesAreOver == RestoreSpec => []EarlierLifeIsOver
<1>1. ASSUME RestoreInv PROVE EarlierLifeIsOver
  <2> SUFFICES ASSUME phase = "up"
               PROVE  /\ \A d \in Device \cap retired : ~ActiveDevice(d)
                      /\ \A r \in ReqId : Undispatched(r) => requests[r].device \notin retired
    BY DEF EarlierLifeIsOver
  <2>1. ShutOut /\ LiveAuthority /\ TypeOK
    BY <1>1 DEF RestoreInv, AtRest, Serving, HoldInv
  <2>2. \A r \in ReqId : Undispatched(r) =>
            requests[r].device \in Device /\ ActiveDevice(requests[r].device)
    BY <2>1 DEF LiveAuthority, Undispatched, InStatus, Row, TypeOK, RequestsTypeOK, Request
  <2> QED
    BY <2>1, <2>2 DEF ShutOut
<1> QED
  BY <1>1, RestoreInvariant, PTL
=============================================================================
