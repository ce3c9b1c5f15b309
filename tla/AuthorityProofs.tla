-------------------------- MODULE AuthorityProofs --------------------------
(***************************************************************************)
(* Proofs about the authority tables: what waits rests on authority in     *)
(* force, credentials open, no route falls under two permissions, and so   *)
(* no direct call gets around an approval; and about the limits: a claimed *)
(* request has its goroutine until a clean shutdown, a device's undecided  *)
(* requests stay within the limit, and the slot counters are the slots     *)
(* taken. All of it rests on HoldInv alone.                                *)
(***************************************************************************)
EXTENDS GatewayProofs, AccessProofs

USE DEF authorityVars, tableVars, dbVars, slotVars, workerVars, dispatchVars, memoryVars

\* The steps that are not a change of authority.
LEMMA AuthorityStays ==
    ASSUME HoldInv, Next,
           \A d \in Device : ~OwnerInvite(d) /\ ~OwnerRevokeDevice(d),
           \A s \in Service : /\ ~OwnerCreateService(s) /\ ~OwnerReviseService(s)
                              /\ ~OwnerDisableService(s),
           \A p \in PermId : ~OwnerAddPermission(p) /\ ~OwnerRevokePermission(p),
           ~FinishRestored
    PROVE  UNCHANGED <<devices, services, permissions>>
<1>t. TypeOK
  BY DEF HoldInv
<1>1. ASSUME NEW j \in Job, Dispatching(j) PROVE UNCHANGED authorityVars
  BY <1>1, DispatchRow
<1>2. ASSUME NEW q \in ReqId, DeviceSubmit(q) \/ OwnerDecide(q) PROVE UNCHANGED authorityVars
  BY <1>2, <1>t, SubmitRow, DecideRow
<1>3. ASSUME NEW h \in Handler, Proxying(h) PROVE UNCHANGED authorityVars
  BY <1>3
     DEF Proxying, HttpStep, HttpAccept, HttpBodyFails, HttpRefuse, HttpAuthorize, HttpSent,
         HttpExit
<1>4. Worker => UNCHANGED authorityVars
  BY DEF Worker, WorkerStep, Maintain, MaintainFails, Scan, ScanFails, Skip, Spawn
<1> QED
  BY <1>1, <1>2, <1>3, <1>4
     DEF Next, Clock, Tick, Start, StartRestored, StartWith, Stop, WorkerReturn, Close, Crash

\* What waits after a step waited before it, unchanged but for a decision, or was inserted;
\* either way it rested on authority in force.
LEMMA WaitsRested ==
    ASSUME HoldInv, LiveAuthority, Next, NEW r \in ReqId, Undispatched(r)'
    PROVE  /\ requests'[r] \in Request
           /\ Rests(requests'[r])
           /\ requests'[r] = requests[r] => Undispatched(r)
<1>1. RowStep(r) /\ TypeOK'
  BY StepOfRows, StepHold DEF HoldInv
<1>2. Row(r)' /\ requests'[r].status \in {"pending_approval", "queued"}
  BY DEF Undispatched, InStatus
<1>3. requests'[r] \in Request
  BY <1>1, <1>2 DEF TypeOK, RequestsTypeOK, Row
<1>4. CASE Inserted(r)
  BY <1>2, <1>3, <1>4 DEF Inserted, Row
<1>5. CASE ~Inserted(r)
  <2>1. Same(r) /\ Undispatched(r)
    BY <1>1, <1>2, <1>5
       DEF RowStep, Withdrawn, Purged, Decided, Refused, Claimed, Finished, Moves, Same,
           Undispatched, InStatus, Row, terminal
  <2>2. Rests(requests[r])
    BY <2>1 DEF LiveAuthority, Rests
  <2>3. /\ requests'[r].device = requests[r].device
        /\ requests'[r].service = requests[r].service
        /\ requests'[r].revision = requests[r].revision
        /\ requests'[r].perm = requests[r].perm
    BY <2>1 DEF Same, Digest
  <2> QED
    BY <1>3, <2>1, <2>2, <2>3 DEF Rests
<1> QED
  BY <1>4, <1>5

\* cancelRequests leaves nothing waiting in its scope.
LEMMA CancelLeaves ==
    ASSUME TypeOK, NEW R, requests' = cancelRequests(R), NEW r \in ReqId, Undispatched(r)'
    PROVE  r \notin R /\ requests'[r] = requests[r]
<1>1. requests'[r].status \in {"pending_approval", "queued"} /\ Row(r)'
  BY DEF Undispatched, InStatus
<1>2. ~(r \in R /\ Undispatched(r)) /\ requests'[r] = requests[r]
  BY <1>1, CancelRow
<1> QED
  BY <1>1, <1>2 DEF Undispatched, InStatus, Row

\* The request rests on authority in force.
InForce(r) == Rests(requests[r])

\* Every change of authority keeps what waits on authority in force.
LEMMA LiveStep == ASSUME HoldInv, LiveAuthority, Next PROVE LiveAuthority'
<1> SUFFICES ASSUME NEW r \in ReqId, Undispatched(r)' PROVE InForce(r)'
  BY DEF LiveAuthority, InForce, Rests
<1> DEFINE x == requests'[r]
<1>x. x \in Request /\ Rests(x) /\ x # NoReq
  BY WaitsRested, RequestAssumption
<1>t. /\ TypeOK /\ AuthorityTypeOK
      /\ x.device \in Device /\ x.service \in Service /\ x.perm \in PermId
  BY <1>x DEF HoldInv, TypeOK, Request
<1>e. /\ ActiveDevice(x.device)
      /\ Enabled(x.service) /\ services[x.service].revision = x.revision
      /\ permissions[x.perm] # NoPerm /\ permissions[x.perm].state = "granted"
      /\ permissions[x.perm].revision = x.revision
  BY <1>x DEF Rests
<1>g. /\ devices'[x.device] = devices[x.device]
      /\ services'[x.service] = services[x.service]
      /\ permissions'[x.perm] = permissions[x.perm]
      => InForce(r)'
  BY <1>e DEF InForce, Rests, ActiveDevice, Enabled
<1>c. ASSUME NEW R, requests' = cancelRequests(R) PROVE r \notin R /\ x = requests[r] /\ Row(r)
  BY <1>c, <1>t, <1>x, CancelLeaves DEF Row
<1> USE DEF AuthorityTypeOK
<1>1. ASSUME NEW d \in Device, OwnerInvite(d) PROVE InForce(r)'
  BY <1>1, <1>t, <1>e, <1>g DEF OwnerInvite, Invite, ActiveDevice
<1>2. ASSUME NEW d \in Device, OwnerRevokeDevice(d) PROVE InForce(r)'
  <2>1. x.device # d
    BY <1>2, <1>c DEF OwnerRevokeDevice, RevokeDevice, OfDevice
  <2> QED
    BY <1>2, <1>t, <1>g, <2>1 DEF OwnerRevokeDevice, RevokeDevice
<1>3. ASSUME NEW s \in Service, OwnerCreateService(s) PROVE InForce(r)'
  BY <1>3, <1>t, <1>e, <1>g DEF OwnerCreateService, CreateService, Enabled
<1>4. ASSUME NEW s \in Service, OwnerReviseService(s) \/ OwnerDisableService(s)
      PROVE  InForce(r)'
  <2>1. x.service # s
    BY <1>4, <1>c
       DEF OwnerReviseService, ReviseService, OwnerDisableService, DisableService, OfService
  <2> QED
    BY <1>4, <1>t, <1>g, <2>1
       DEF OwnerReviseService, ReviseService, OwnerDisableService, DisableService
<1>5. ASSUME NEW p \in PermId, OwnerAddPermission(p) PROVE InForce(r)'
  BY <1>5, <1>t, <1>e, <1>g DEF OwnerAddPermission, AddPermission, GrantTo
<1>6. ASSUME NEW p \in PermId, OwnerRevokePermission(p) PROVE InForce(r)'
  <2>1. x.perm # p
    BY <1>6, <1>c DEF OwnerRevokePermission, RevokePermission, OfPermission
  <2> QED
    BY <1>6, <1>t, <1>g, <2>1 DEF OwnerRevokePermission, RevokePermission
<1>7. ASSUME FinishRestored PROVE InForce(r)'
  BY <1>7, <1>c DEF FinishRestored, RecoverRestored
<1> QED
  BY <1>1, <1>2, <1>3, <1>4, <1>5, <1>6, <1>7, <1>g, AuthorityStays

\* What waits rests on authority that was not withdrawn.
THEOREM WaitingIsAuthorized == Spec => []LiveAuthority
<1> DEFINE Inv == HoldInv /\ LiveAuthority
<1>1. Init => Inv
  BY InitHold DEF Init, RequestsInit, LiveAuthority, Undispatched, InStatus, Row
<1>2. ASSUME LiveAuthority, UNCHANGED vars PROVE LiveAuthority'
  BY <1>2
     DEF vars, LiveAuthority, Undispatched, InStatus, Row, ActiveDevice, Enabled
<1>3. Inv /\ [Next]_vars => Inv'
  BY <1>2, StepHold, LiveStep
<1> QED
  BY <1>1, <1>3, PTL DEF Spec
-----------------------------------------------------------------------------
\* Only the owner's three operations on a service change it.
LEMMA ServicesStay ==
    ASSUME HoldInv, Next,
           \A s \in Service : /\ ~OwnerCreateService(s) /\ ~OwnerReviseService(s)
                              /\ ~OwnerDisableService(s)
    PROVE  UNCHANGED services
  BY AuthorityStays
     DEF OwnerInvite, Invite, OwnerRevokeDevice, RevokeDevice, OwnerAddPermission,
         AddPermission, GrantTo, OwnerRevokePermission, RevokePermission, FinishRestored,
         RecoverRestored

\* Every enabled service's credential opens for its revision.
THEOREM CredentialsStayOpen == Spec => []CredentialsOpen
<1> DEFINE Inv == HoldInv /\ CredentialsOpen
<1> USE DEF CredentialsOpen, Enabled, CredentialOpensFor
<1>1. Init => Inv
  BY InitHold DEF Init, AuthorityInit
<1>2. ASSUME HoldInv, CredentialsOpen, Next PROVE CredentialsOpen'
  <2>t. services \in [Service -> ServiceRow]
    BY <1>2 DEF HoldInv, TypeOK, AuthorityTypeOK
  <2>1. ASSUME NEW s \in Service, OwnerCreateService(s) PROVE CredentialsOpen'
    BY <1>2, <2>1, <2>t DEF OwnerCreateService, CreateService
  <2>2. ASSUME NEW s \in Service, OwnerReviseService(s) PROVE CredentialsOpen'
    BY <1>2, <2>2, <2>t DEF OwnerReviseService, ReviseService
  <2>3. ASSUME NEW s \in Service, OwnerDisableService(s) PROVE CredentialsOpen'
    BY <1>2, <2>3, <2>t DEF OwnerDisableService, DisableService, ServiceRow
  <2> QED
    BY <1>2, <2>1, <2>2, <2>3, ServicesStay
<1>3. ASSUME CredentialsOpen, UNCHANGED vars PROVE CredentialsOpen'
  BY <1>3 DEF vars
<1>4. Inv /\ [Next]_vars => Inv'
  BY <1>2, <1>3, StepHold
<1> QED
  BY <1>1, <1>4, PTL DEF Spec
-----------------------------------------------------------------------------
\* The clock does not go back.
LEMMA NowMoves ==
    ASSUME HoldInv, Next PROVE now \in Int /\ now' \in Int /\ now <= now'
<1>t. TypeOK /\ now \in Int
  BY BoundAssumption DEF HoldInv, TypeOK, AuthorityTypeOK, Time
<1>1. ASSUME NEW j \in Job, Dispatching(j) PROVE UNCHANGED now
  BY <1>1, DispatchRow
<1>2. ASSUME NEW q \in ReqId, DeviceSubmit(q) \/ OwnerDecide(q) PROVE UNCHANGED now
  BY <1>2, <1>t, SubmitRow, DecideRow
<1>3. ASSUME NEW h \in Handler, Proxying(h) PROVE UNCHANGED now
  BY <1>3
     DEF Proxying, HttpStep, HttpAccept, HttpBodyFails, HttpRefuse, HttpAuthorize, HttpSent,
         HttpExit
<1>4. Worker => UNCHANGED now
  BY DEF Worker, WorkerStep, Maintain, MaintainFails, Scan, ScanFails, Skip, Spawn
<1>5. Clock => now' = now + 1
  BY DEF Clock, Tick
<1>6. Clock \/ UNCHANGED now
  BY <1>1, <1>2, <1>3, <1>4
     DEF Next, OwnerInvite, Invite, OwnerRevokeDevice, RevokeDevice, OwnerCreateService,
         CreateService, OwnerReviseService, ReviseService, OwnerDisableService,
         DisableService, OwnerAddPermission, AddPermission, GrantTo, OwnerRevokePermission,
         RevokePermission, FinishRestored, RecoverRestored, Start, StartRestored, StartWith,
         Stop, WorkerReturn, Close, Crash
<1> QED
  BY <1>t, <1>5, <1>6

\* What a granted permission is: the owner's entry, in force from its grant.
LEMMA Granted ==
    ASSUME HoldInv, NEW n \in PermId, OwnerAddPermission(n)
    PROVE  \E d \in Device, s \in Service, a \in Rules :
               /\ permissions'[n] \in Permission
               /\ permissions'[n].device = d /\ permissions'[n].service = s
               /\ permissions'[n].rule = a
               /\ permissions'[n].revision = services[s].revision
               /\ \A o \in PermId : ActiveRule(o, d, s) => ~Overlap(a, permissions[o].rule)
               /\ \A o \in PermId : o # n => permissions'[o] = permissions[o]
               /\ UNCHANGED <<now, services>>
<1>1. PICK d \in Device, s \in Service, a \in Rules, mode \in Mode, e \in Expiries :
          AddPermission(n, d, s, a, mode, e)
  BY DEF OwnerAddPermission
<1>t. /\ permissions \in [PermId -> Permission \cup {NoPerm}]
      /\ services[s].revision \in 0..MaxRevision /\ e \in 0..Never
  BY BoundAssumption DEF HoldInv, TypeOK, AuthorityTypeOK, ServiceRow
<1>2. /\ permissions'[n] = [device |-> d, service |-> s, revision |-> services[s].revision,
                            rule |-> a, mode |-> mode, expires |-> e, state |-> "granted"]
      /\ \A o \in PermId : o # n => permissions'[o] = permissions[o]
      /\ UNCHANGED <<now, services>>
  BY <1>1, <1>t DEF AddPermission, GrantTo
<1>3. permissions'[n] \in Permission
  BY <1>2, <1>t DEF Permission
<1>4. \A o \in PermId : ActiveRule(o, d, s) => ~Overlap(a, permissions[o].rule)
  BY <1>1 DEF AddPermission
<1> QED
  BY <1>2, <1>3, <1>4

\* A permission comes into force by being granted, and in no other way.
LEMMA ActiveBefore ==
    ASSUME HoldInv, RevisionsLead, Next, NEW p \in PermId, NEW d \in Device,
           NEW s \in Service, ActiveRule(p, d, s)', ~OwnerAddPermission(p)
    PROVE  ActiveRule(p, d, s) /\ permissions'[p] = permissions[p]
<1>t. /\ services \in [Service -> ServiceRow]
      /\ permissions \in [PermId -> Permission \cup {NoPerm}]
      /\ permissions'[p] # NoPerm
  BY DEF HoldInv, TypeOK, AuthorityTypeOK, ActiveRule
<1>a. /\ permissions'[p].device = d /\ permissions'[p].service = s
      /\ permissions'[p].revision = services'[s].revision
      /\ permissions'[p].state = "granted" /\ permissions'[p].expires > now'
  BY DEF ActiveRule
<1>n. now \in Int /\ now' \in Int /\ now <= now'
  BY NowMoves
<1>g. permissions'[p] = permissions[p] /\ services'[s].revision = services[s].revision
      => ActiveRule(p, d, s)
  <2> SUFFICES ASSUME permissions'[p] = permissions[p],
                      services'[s].revision = services[s].revision
               PROVE  ActiveRule(p, d, s)
    OBVIOUS
  <2>1. permissions[p] \in Permission /\ permissions[p].expires \in Int
    BY <1>t, BoundAssumption DEF Permission, Never
  <2>2. permissions[p].expires > now
    BY <1>a, <1>n, <2>1
  <2> QED
    BY <1>t, <1>a, <2>2 DEF ActiveRule
<1>1. ASSUME NEW z \in Service,
             OwnerCreateService(z) \/ OwnerReviseService(z) \/ OwnerDisableService(z)
      PROVE  ActiveRule(p, d, s) /\ permissions'[p] = permissions[p]
  <2>1. UNCHANGED permissions
    BY <1>1
       DEF OwnerCreateService, CreateService, OwnerReviseService, ReviseService,
           OwnerDisableService, DisableService
  <2>2. CASE z # s
    <3>1. services'[s] = services[s]
      BY <1>1, <1>t, <2>2
         DEF OwnerCreateService, CreateService, OwnerReviseService, ReviseService,
             OwnerDisableService, DisableService
    <3> QED
      BY <1>g, <2>1, <3>1
  <2>3. CASE z = s
    <3>1. services[s].revision \in Int /\ services'[s].revision = services[s].revision + 1
      <4>1. services[s] \in ServiceRow /\ services[s].revision \in Int
        BY <1>t, BoundAssumption DEF ServiceRow
      <4>2. CASE OwnerCreateService(s)
        BY <1>t, <4>1, <4>2 DEF OwnerCreateService, CreateService, RevisionsLead
      <4>3. CASE OwnerReviseService(s)
        BY <1>t, <4>1, <4>3 DEF OwnerReviseService, ReviseService
      <4>4. CASE OwnerDisableService(s)
        BY <1>t, <4>1, <4>4 DEF OwnerDisableService, DisableService, ServiceRow
      <4> QED
        BY <1>1, <2>3, <4>1, <4>2, <4>3, <4>4
    <3>2. permissions[p].revision <= services[s].revision
      BY <1>t, <1>a, <2>1 DEF RevisionsLead
    <3> QED
      BY <1>a, <2>1, <3>1, <3>2
  <2> QED
    BY <2>2, <2>3
<1>2. ASSUME NEW n \in PermId, OwnerAddPermission(n)
      PROVE  ActiveRule(p, d, s) /\ permissions'[p] = permissions[p]
  <2>1. p # n
    BY <1>2
  <2> QED
    BY <1>2, <1>g, <2>1, Granted
<1>3. ASSUME NEW n \in PermId, OwnerRevokePermission(n)
      PROVE  ActiveRule(p, d, s) /\ permissions'[p] = permissions[p]
  <2>1. CASE p = n
    BY <1>3, <1>t, <1>a, <2>1 DEF OwnerRevokePermission, RevokePermission, Permission
  <2>2. CASE p # n
    BY <1>3, <1>t, <1>g, <2>2 DEF OwnerRevokePermission, RevokePermission
  <2> QED
    BY <2>1, <2>2
<1>4. ASSUME NEW z \in Device, OwnerInvite(z) \/ OwnerRevokeDevice(z)
      PROVE  ActiveRule(p, d, s) /\ permissions'[p] = permissions[p]
  BY <1>4, <1>g DEF OwnerInvite, Invite, OwnerRevokeDevice, RevokeDevice
<1>5. ASSUME FinishRestored
      PROVE  ActiveRule(p, d, s) /\ permissions'[p] = permissions[p]
  BY <1>5, <1>g DEF FinishRestored, RecoverRestored
<1> QED
  BY <1>1, <1>2, <1>3, <1>4, <1>5, <1>g, AuthorityStays

\* Revisions only rise, and no service loses its row.
LEMMA RevisionsRise ==
    ASSUME HoldInv, RevisionsLead, Next, NEW s \in Service
    PROVE  /\ services[s].revision \in Int /\ services'[s].revision \in Int
           /\ services[s].revision <= services'[s].revision
           /\ services'[s].state = "absent" => services'[s] = services[s]
<1>t. services \in [Service -> ServiceRow] /\ services[s].revision \in Int
  BY BoundAssumption DEF HoldInv, TypeOK, AuthorityTypeOK, ServiceRow
<1>1. ASSUME NEW z \in Service, OwnerCreateService(z)
      PROVE  services'[s] = services[s] \/
                 (services'[s].revision = 1 /\ services'[s].state # "absent"
                  /\ services[s].revision = 0)
  BY <1>1, <1>t DEF OwnerCreateService, CreateService, RevisionsLead
<1>2. ASSUME NEW z \in Service, OwnerReviseService(z) \/ OwnerDisableService(z)
      PROVE  services'[s] = services[s] \/
                 (services'[s].revision = services[s].revision + 1
                  /\ services'[s].state # "absent")
  <2>1. CASE OwnerReviseService(z)
    BY <1>t, <2>1 DEF OwnerReviseService, ReviseService
  <2>2. CASE OwnerDisableService(z)
    BY <1>t, <2>2 DEF OwnerDisableService, DisableService, ServiceRow
  <2> QED
    BY <1>2, <2>1, <2>2
<1>3. (\A z \in Service : /\ ~OwnerCreateService(z) /\ ~OwnerReviseService(z)
                          /\ ~OwnerDisableService(z))
      => services'[s] = services[s]
  BY ServicesStay
<1> QED
  BY <1>t, <1>1, <1>2, <1>3

\* A permission row changes by being granted or revoked.
LEMMA PermissionRow ==
    ASSUME HoldInv, Next, NEW p \in PermId, ~OwnerAddPermission(p)
    PROVE  /\ permissions'[p] # NoPerm <=> permissions[p] # NoPerm
           /\ permissions[p] # NoPerm =>
                  /\ permissions'[p].service = permissions[p].service
                  /\ permissions'[p].revision = permissions[p].revision
<1>t. permissions \in [PermId -> Permission \cup {NoPerm}]
  BY DEF HoldInv, TypeOK, AuthorityTypeOK
<1>1. ASSUME NEW n \in PermId, OwnerAddPermission(n) PROVE permissions'[p] = permissions[p]
  BY <1>1, Granted
<1>2. ASSUME NEW n \in PermId, OwnerRevokePermission(n)
      PROVE  \/ permissions'[p] = permissions[p]
             \/ /\ permissions[p] \in Permission /\ permissions'[p] \in Permission
                /\ permissions'[p].service = permissions[p].service
                /\ permissions'[p].revision = permissions[p].revision
  BY <1>2, <1>t DEF OwnerRevokePermission, RevokePermission, Permission
<1>3. (\A n \in PermId : ~OwnerAddPermission(n) /\ ~OwnerRevokePermission(n))
      => UNCHANGED permissions
  BY AuthorityStays
     DEF OwnerInvite, Invite, OwnerRevokeDevice, RevokeDevice, OwnerCreateService,
         CreateService, OwnerReviseService, ReviseService, OwnerDisableService,
         DisableService, FinishRestored, RecoverRestored
<1> QED
  BY <1>1, <1>2, <1>3, NoPermAssumption

LEMMA LeadStep == ASSUME HoldInv, RevisionsLead, Next PROVE RevisionsLead'
<1>1. \A s \in Service : services'[s].state = "absent" => services'[s].revision = 0
  BY RevisionsRise DEF RevisionsLead
<1>2. ASSUME NEW p \in PermId, permissions'[p] # NoPerm
      PROVE  permissions'[p].revision <= services'[permissions'[p].service].revision
  <2>1. CASE OwnerAddPermission(p)
    <3>1. PICK s \in Service :
              /\ permissions'[p].service = s
              /\ permissions'[p].revision = services[s].revision
      BY <2>1, Granted
    <3> QED
      BY <3>1, RevisionsRise
  <2>2. CASE ~OwnerAddPermission(p)
    <3>1. /\ permissions[p] # NoPerm
          /\ permissions'[p].service = permissions[p].service
          /\ permissions'[p].revision = permissions[p].revision
      BY <1>2, <2>2, PermissionRow
    <3>2. permissions[p].service \in Service /\ permissions[p].revision \in Int
      BY <3>1, BoundAssumption DEF HoldInv, TypeOK, AuthorityTypeOK, Permission
    <3>3. permissions[p].revision <= services[permissions[p].service].revision
      BY <3>1 DEF RevisionsLead
    <3>4. /\ services[permissions[p].service].revision \in Int
          /\ services'[permissions[p].service].revision \in Int
          /\ services[permissions[p].service].revision
                 <= services'[permissions[p].service].revision
      BY <3>2, RevisionsRise
    <3> QED
      BY <3>1, <3>2, <3>3, <3>4
  <2> QED
    BY <2>1, <2>2
<1> QED
  BY <1>1, <1>2 DEF RevisionsLead

\* A new rule shares no route with the rules in force, and the old ones did not before.
LEMMA ApartStep ==
    ASSUME HoldInv, RevisionsLead, RulesApart, Next PROVE RulesApart'
<1> SUFFICES ASSUME NEW p \in PermId, NEW o \in PermId, NEW d \in Device, NEW s \in Service,
                    NEW q \in Routes, p # o, ActiveRule(p, d, s)', ActiveRule(o, d, s)',
                    Match(permissions'[p].rule, q), Match(permissions'[o].rule, q)
             PROVE  FALSE
  BY DEF RulesApart
<1>a. ASSUME NEW n \in PermId, NEW z \in PermId, n # z, OwnerAddPermission(n),
             ActiveRule(n, d, s)', ActiveRule(z, d, s)',
             Match(permissions'[n].rule, q), Match(permissions'[z].rule, q)
      PROVE  FALSE
  <2>1. PICK a \in Rules :
            /\ permissions'[n].rule = a
            /\ \A y \in PermId : ActiveRule(y, d, s) => ~Overlap(a, permissions[y].rule)
            /\ \A y \in PermId : y # n => permissions'[y] = permissions[y]
            /\ UNCHANGED <<now, services>>
    BY <1>a, Granted DEF ActiveRule
  <2>2. permissions'[z] = permissions[z] /\ ActiveRule(z, d, s)
    BY <1>a, <2>1 DEF ActiveRule
  <2>3. permissions[z].rule \in Rules
    BY <2>2 DEF ActiveRule, HoldInv, TypeOK, AuthorityTypeOK, Permission
  <2>4. Overlap(a, permissions[z].rule)
    BY <1>a, <2>1, <2>2, <2>3, OverlapMissesNone
  <2> QED
    BY <2>1, <2>2, <2>4
<1>1. ~OwnerAddPermission(p) /\ ~OwnerAddPermission(o)
  BY <1>a
<1>2. /\ ActiveRule(p, d, s) /\ permissions'[p] = permissions[p]
      /\ ActiveRule(o, d, s) /\ permissions'[o] = permissions[o]
  BY <1>1, ActiveBefore
<1> QED
  BY <1>2 DEF RulesApart

RuleInv == HoldInv /\ RevisionsLead /\ RulesApart

LEMMA RuleInvariant == Spec => []RuleInv
<1>1. Init => RuleInv
  BY InitHold DEF Init, AuthorityInit, RuleInv, RevisionsLead, RulesApart, ActiveRule
<1>2. ASSUME RuleInv, UNCHANGED vars PROVE RuleInv'
  BY <1>2, StepHold DEF vars, RuleInv, RevisionsLead, RulesApart, ActiveRule
<1>3. RuleInv /\ [Next]_vars => RuleInv'
  BY <1>2, StepHold, LeadStep, ApartStep DEF RuleInv
<1> QED
  BY <1>1, <1>3, PTL DEF Spec

\* No route of a device ever falls under two permissions in force.
THEOREM RulesNeverConflict == Spec => []NoRuleConflict
<1>1. ASSUME RuleInv PROVE NoRuleConflict
  <2> SUFFICES ASSUME NEW d \in Device, NEW s \in Service, NEW q \in Routes
               PROVE  Cardinality(Authorize(d, s, q)) <= 1
    BY DEF NoRuleConflict
  <2>1. \A p, o \in Authorize(d, s, q) : p = o
    BY <1>1 DEF RuleInv, RulesApart, Authorize
  <2>2. CASE Authorize(d, s, q) = {}
    BY <2>2, FS_EmptySet
  <2>3. CASE Authorize(d, s, q) # {}
    <3>1. PICK p : Authorize(d, s, q) = {p}
      BY <2>1, <2>3
    <3> QED
      BY <3>1, FS_Singleton
  <2> QED
    BY <2>2, <2>3
<1> QED
  BY <1>1, RuleInvariant, PTL

\* No direct HTTP call is sent for a route that some permission in force reserves for
\* individual approval.
THEOREM ApprovalIsNotBypassed == Spec => ApprovalNotBypassed
<1>1. ASSUME RuleInv, Next, NEW h \in Handler, http[h] # NoCall, http'[h] # NoCall
      PROVE  HttpSendStep(h)
  <2> SUFFICES ASSUME AtHttp(h, "body"), http'[h].pc = "send", NEW p \in PermId,
                      ActiveRule(p, http[h].device, http[h].service),
                      Match(permissions[p].rule, http[h].route)
               PROVE  permissions[p].mode = "standing"
    BY DEF HttpSendStep
  <2>t. http \in [Handler -> Call \cup {NoCall}]
    BY <1>1 DEF RuleInv, HoldInv, TypeOK, HttpTypeOK
  <2>c. /\ http[h] \in Call /\ http[h].pc = "body"
        /\ http[h].device \in Device /\ http[h].service \in Service
        /\ http[h].route \in Routes
    BY <2>t DEF AtHttp, Call
  <2>1. HttpAuthorize(h)
    <3>1. http'[h] # http[h]
      BY <2>c
    <3>2. ASSUME NEW k \in Handler, Proxying(k) PROVE HttpAuthorize(h)
      <4>1. k = h
        BY <2>t, <3>1, <3>2
           DEF Proxying, HttpStep, HttpAccept, HttpBodyFails, HttpRefuse, HttpAuthorize,
               HttpSent, HttpExit
      <4>2. HttpStep(h)
        BY <3>2, <4>1 DEF Proxying
      <4>3. ~HttpBodyFails(h) /\ ~HttpRefuse(h) /\ ~HttpSent(h) /\ ~HttpExit(h)
        BY <2>t, <2>c, <1>1
           DEF HttpBodyFails, HttpRefuse, HttpSent, HttpExit, AtHttp, Call
      <4>4. \A d \in Device, s \in Service, q \in Routes : ~HttpAccept(h, d, s, q)
        BY <1>1 DEF HttpAccept
      <4> QED
        BY <4>2, <4>3, <4>4 DEF HttpStep
    <3>3. (\A k \in Handler : ~Proxying(k)) =>
              UNCHANGED http \/ http' = [k \in Handler |-> NoCall]
      <4>1. ASSUME NEW j \in Job, Dispatching(j) PROVE UNCHANGED http
        BY <4>1 DEF Dispatching
      <4> QED
        BY <1>1, <4>1
           DEF Next, Clock, OwnerInvite, OwnerRevokeDevice, OwnerCreateService,
               OwnerReviseService, OwnerDisableService, OwnerAddPermission,
               OwnerRevokePermission, DeviceSubmit, OwnerDecide, Transaction, Worker, Start,
               StartRestored, StartWith, FinishRestored, Stop, WorkerReturn, Close, Crash,
               LoseMemory
    <3> QED
      BY <1>1, <3>1, <3>2, <3>3
  <2>2. PICK o \in HttpPermitted(h) : permissions[o].mode = "standing"
    BY <2>1 DEF HttpAuthorize
  <2>3. /\ o \in PermId /\ ActiveRule(o, http[h].device, http[h].service)
        /\ Match(permissions[o].rule, http[h].route)
    BY <2>2 DEF HttpPermitted, Authorize
  <2>4. p = o
    BY <1>1, <2>c, <2>3 DEF RuleInv, RulesApart
  <2> QED
    BY <2>2, <2>4
<1>2. ASSUME UNCHANGED vars, NEW h \in Handler PROVE HttpSendStep(h)
  BY <1>2 DEF vars, HttpSendStep, AtHttp
<1>3. RuleInv /\ [Next]_vars
      => [\A h \in Handler : http[h] # NoCall /\ http'[h] # NoCall => HttpSendStep(h)]_vars
  BY <1>1, <1>2
<1> QED
  BY <1>3, RuleInvariant, PTL DEF Spec, ApprovalNotBypassed
-----------------------------------------------------------------------------
\* Storage errors are never forgotten.
LEMMA FaultsStay == ASSUME HoldInv, Next, faults' = 0 PROVE faults = 0
<1>t. faults \in Nat
  BY DispatchAssumption DEF HoldInv, TypeOK, DispatchTypeOK
<1>1. ASSUME NEW j \in Job, Dispatching(j) PROVE UNCHANGED faults \/ Fault
  BY <1>1
     DEF Dispatching, JobStep, ClaimTooLate, ClaimRefused, Claim, ClaimFails, SendNotSent,
         SendGotConn, SendReply, Finish, FinishFails, Exit
<1>2. Worker => UNCHANGED faults \/ Fault
  BY DEF Worker, WorkerStep, Maintain, MaintainFails, Scan, ScanFails, Skip, Spawn
<1>3. UNCHANGED faults \/ Fault
  BY <1>1, <1>2
     DEF Next, Clock, OwnerInvite, OwnerRevokeDevice, OwnerCreateService, OwnerReviseService,
         OwnerDisableService, OwnerAddPermission, OwnerRevokePermission, DeviceSubmit,
         OwnerDecide, Transaction, Proxying, Start, StartRestored, StartWith, FinishRestored,
         Stop, WorkerReturn, Close, Crash
<1> QED
  BY <1>t, <1>3 DEF Fault

\* A goroutine past its claim keeps its request until it has finished, or the process ends.
LEMMA HolderStays ==
    ASSUME HoldInv, Next, NEW k \in Job, Holding(k)
    PROVE  \/ Holding(k)' /\ jobs'[k].req = jobs[k].req
           \/ Finish(k) \/ FinishFails(k)
           \/ Crash
<1>t. TypeOK /\ ~JobAt(k, "idle") /\ ~JobAt(k, "start") /\ ~JobAt(k, "exit")
  BY DEF HoldInv, Holding, JobAt
<1>g. jobs'[k] = jobs[k] => Holding(k)' /\ jobs'[k].req = jobs[k].req
  BY DEF Holding
<1>1. ASSUME NEW j \in Job, Dispatching(j), j # k PROVE jobs'[k] = jobs[k]
  <2>1. ASSUME NEW pc, NEW o, Goto(j, pc, o) PROVE jobs'[k] = jobs[k]
    BY <1>1, <1>t, <2>1, GotoMoves
  <2> QED
    BY <1>1, <1>t, <2>1
       DEF Dispatching, JobStep, ClaimTooLate, ClaimRefused, Claim, ClaimFails, SendNotSent,
           SendGotConn, SendReply, Finish, FinishFails, Exit, TypeOK, DispatchTypeOK
<1>2. ASSUME Dispatching(k)
      PROVE  \/ Holding(k)' /\ jobs'[k].req = jobs[k].req
             \/ Finish(k) \/ FinishFails(k)
  <2>1. SendNotSent(k) \/ SendGotConn(k) \/ SendReply(k) \/ Finish(k) \/ FinishFails(k)
    BY <1>2, <1>t
       DEF Dispatching, JobStep, ClaimTooLate, ClaimRefused, Claim, ClaimFails, Exit
  <2>2. ASSUME NEW pc \in {"sent", "finish"}, NEW o, Goto(k, pc, o)
        PROVE  Holding(k)' /\ jobs'[k].req = jobs[k].req
    BY <1>t, <2>2, GotoMoves DEF Holding
  <2> QED
    BY <2>1, <2>2 DEF SendNotSent, SendGotConn, SendReply
<1>3. Worker => jobs'[k] = jobs[k]
  BY <1>t
     DEF Worker, WorkerStep, Maintain, MaintainFails, Scan, ScanFails, Skip, Spawn, TypeOK,
         DispatchTypeOK, JobAt
<1>4. ~Close
  BY <1>t DEF Close
<1>5. (\A j \in Job : ~Dispatching(j)) /\ ~Worker /\ ~Crash => UNCHANGED jobs
  BY <1>4
     DEF Next, Clock, OwnerInvite, OwnerRevokeDevice, OwnerCreateService, OwnerReviseService,
         OwnerDisableService, OwnerAddPermission, OwnerRevokePermission, DeviceSubmit,
         OwnerDecide, Transaction, Proxying, Start, StartRestored, StartWith, FinishRestored,
         Stop, WorkerReturn
<1> QED
  BY <1>1, <1>2, <1>3, <1>5, <1>g

LEMMA HeldStep == ASSUME HoldInv, DispatchingHeld, Next PROVE DispatchingHeld'
<1> SUFFICES ASSUME faults' = 0, phase' # "crashed", NEW r \in ReqId,
                    InStatus(r, {"dispatching"})'
             PROVE  \E j \in Job : Holding(j)' /\ jobs'[j].req = r
  BY DEF DispatchingHeld
<1>t. TypeOK /\ faults = 0 /\ RowStep(r)
  BY FaultsStay, StepOfRows DEF HoldInv
<1>s. requests'[r] # NoReq /\ requests'[r].status = "dispatching"
  BY DEF InStatus, Row
<1>1. CASE Claimed(r)
  <2>1. PICK j \in Job : Claim(j) /\ jobs[j].req = r
    BY <1>1 DEF Claimed
  <2>2. Goto(j, "claimed", "none") \/ Goto(j, "finish", "failed")
    BY <2>1 DEF Claim
  <2>3. Holding(j)' /\ jobs'[j].req = r
    BY <1>t, <2>1, <2>2, GotoMoves DEF Holding
  <2> QED
    BY <2>3
<1>2. CASE ~Claimed(r)
  <2>1. InStatus(r, {"dispatching"})
    BY <1>t, <1>s, <1>2
       DEF RowStep, Inserted, Withdrawn, Purged, Decided, Refused, Finished, Moves, Same,
           InStatus, Row, terminal
  <2>2. ~Start /\ ~StartRestored
    BY <1>t, <1>s, <2>1, RecoverRow DEF Start, StartRestored, StartWith
  <2>3. phase # "crashed"
    BY <2>2
       DEF Next, Clock, OwnerInvite, OwnerRevokeDevice, OwnerCreateService,
           OwnerReviseService, OwnerDisableService, OwnerAddPermission,
           OwnerRevokePermission, DeviceSubmit, OwnerDecide, Transaction, Proxying, Worker,
           Dispatching, FinishRestored, Stop, WorkerReturn, Close, Crash, Serving
  <2>4. PICK k \in Job : Holding(k) /\ jobs[k].req = r
    BY <1>t, <2>1, <2>3 DEF DispatchingHeld
  <2>5. ~Finish(k)
    <3> SUFFICES ASSUME Finish(k) PROVE FALSE
      OBVIOUS
    <3> DEFINE o == jobs[k].outcome
    <3>1. o \in Outcome
      BY DEF Finish, HoldInv, OutcomeKnown
    <3>2. /\ FinishStatus(o) \in Status /\ FinishStatus(o) # "dispatching"
          /\ FinishResult(o) \in {"none", "kept"}
      BY <3>1 DEF Outcome, FinishStatus, FinishResult, Status
    <3>3. requests' = finishTx(r, FinishStatus(o), FinishResult(o)) /\ Row(r)
      BY <2>1, <2>4 DEF Finish, InStatus
    <3>4. requests'[r].status = FinishStatus(o)
      BY <1>t, <3>2, <3>3, FinishMoves
    <3> QED
      BY <1>s, <3>2, <3>4
  <2>6. ~FinishFails(k)
    BY <1>t DEF FinishFails, Fault
  <2>7. ~Crash
    BY DEF Crash
  <2> QED
    BY <2>4, <2>5, <2>6, <2>7, HolderStays
<1> QED
  BY <1>1, <1>2

\* A cleanly closed database holds nothing in dispatching, unless storage failed.
THEOREM ShutdownIsClean == Spec => []CleanShutdown
<1> DEFINE Inv == HoldInv /\ DispatchingHeld
<1>1. Init => Inv
  BY InitHold DEF Init, RequestsInit, DispatchingHeld, InStatus, Row
<1>2. ASSUME DispatchingHeld, UNCHANGED vars PROVE DispatchingHeld'
  BY <1>2 DEF vars, DispatchingHeld, InStatus, Row, Holding
<1>3. Inv /\ [Next]_vars => Inv'
  BY <1>2, StepHold, HeldStep
<1>4. Inv => CleanShutdown
  BY DEF HoldInv, DispatchingHeld, CleanShutdown, QuietWhenDown, Serving, Holding, JobAt
<1> QED
  BY <1>1, <1>3, <1>4, PTL DEF Spec
-----------------------------------------------------------------------------
\* What makes PendingWithinLimit inductive when request ids are unlimited.
WaitingBounded ==
    \A d \in Device : IsFiniteSet(Waiting(d)) /\ Cardinality(Waiting(d)) <= PendingLimit

\* Only a submission adds to the requests that wait for a decision.
LEMMA WaitingShrinks ==
    ASSUME HoldInv, Next, NEW d \in Device, NEW r \in ReqId, r \in Waiting(d)',
           ~Inserted(r)
    PROVE  r \in Waiting(d)
<1>1. RowStep(r) /\ TypeOK /\ TypeOK'
  BY StepOfRows, StepHold DEF HoldInv
<1>2. /\ requests'[r] # NoReq /\ requests'[r].status = "pending_approval"
      /\ requests'[r].device = d /\ requests'[r].expires > now'
  BY DEF Waiting, InStatus, Row
<1>3. Row(r) /\ requests'[r] = requests[r]
  BY <1>1, <1>2
     DEF RowStep, Withdrawn, Purged, Decided, Refused, Claimed, Finished, Moves, Same, Row,
         terminal
<1>4. requests[r].expires \in Int /\ now \in Int /\ now' \in Int /\ now <= now'
  BY <1>1, <1>3, NowMoves, BoundAssumption DEF TypeOK, RequestsTypeOK, Row, Request, Never
<1>5. requests[r].expires > now
  BY <1>2, <1>3, <1>4
<1> QED
  BY <1>2, <1>3, <1>5 DEF Waiting, InStatus

\* A submission that must wait found the limit not reached.
LEMMA SubmitCounts ==
    ASSUME TypeOK, NEW r \in ReqId, DeviceSubmit(r), requests'[r].status = "pending_approval"
    PROVE  Cardinality(Waiting(requests'[r].device)) < PendingLimit
<1>1. PICK d \in Device, k \in Key, s \in Service, q \in Routes, b \in Body :
          Submit(r, d, k, s, q, b)
  BY DEF DeviceSubmit
<1>2. PICK p \in Authorize(d, s, q) :
          /\ permissions[p].mode = "approval_required"
                 => Cardinality(Waiting(d)) < PendingLimit
          /\ InsertRequest(r, d, k, s, q, b, p)
  BY <1>1 DEF Submit
<1>3. /\ requests'[r].device = d
      /\ requests'[r].status = IF permissions[p].mode = "standing"
                               THEN "queued" ELSE "pending_approval"
  BY <1>2 DEF InsertRequest, TypeOK, RequestsTypeOK
<1>4. permissions[p].mode \in Mode /\ permissions[p].mode # "standing"
  BY <1>2, <1>3 DEF Authorize, ActiveRule, TypeOK, AuthorityTypeOK, Permission
<1> QED
  BY <1>2, <1>3, <1>4 DEF Mode

\* Only DeviceSubmit inserts.
LEMMA OnlySubmitInserts ==
    ASSUME HoldInv, Next, NEW r \in ReqId, Inserted(r) PROVE DeviceSubmit(r)
<1>t. TypeOK
  BY DEF HoldInv
<1>r. requests[r] = NoReq /\ requests'[r] # NoReq
  BY DEF Inserted, Row
<1>b. ASSUME NEW R PROVE requests' # cancelRequests(R)
  BY <1>r, <1>t, CancelRow DEF Undispatched, InStatus, Row
<1>1. ASSUME NEW j \in Job, Dispatching(j) PROVE FALSE
  <2>1. ~Same(r)
    BY <1>r DEF Same, Row
  <2> QED
    BY <1>1, <1>r, <2>1, DispatchRow DEF Refused, Claimed, Finished, Moves
<1>2. ASSUME NEW q \in ReqId, OwnerDecide(q) PROVE FALSE
  BY <1>2, <1>r, <1>t, DecideRow DEF Decided, Moves, Same, Row
<1>3. ASSUME NEW q \in ReqId, DeviceSubmit(q) PROVE q = r
  BY <1>3, <1>r, <1>t, SubmitRow
<1>4. ~Worker
  <2>1. ~Maintain
    BY <1>r DEF Maintain, maintenance, Row
  <2> QED
    BY <1>r, <2>1 DEF Worker, WorkerStep, MaintainFails, Scan, ScanFails, Skip, Spawn
<1>5. ~Start /\ ~StartRestored
  BY <1>r, <1>t, RecoverRow DEF Start, StartRestored, StartWith, InStatus, Row
<1>6. UNCHANGED requests => FALSE
  BY <1>r
<1> QED
  BY <1>b, <1>1, <1>2, <1>3, <1>4, <1>5, <1>6
     DEF Next, Clock, OwnerInvite, OwnerRevokeDevice, RevokeDevice, OwnerCreateService,
         OwnerReviseService, ReviseService, OwnerDisableService, DisableService,
         OwnerAddPermission, OwnerRevokePermission, RevokePermission, Proxying,
         FinishRestored, RecoverRestored, Stop, WorkerReturn, Close, Crash

LEMMA PendingStep == ASSUME HoldInv, WaitingBounded, Next PROVE WaitingBounded'
<1>t. TypeOK /\ PendingLimit \in Int
  BY RequestAssumption DEF HoldInv
<1> SUFFICES ASSUME NEW d \in Device
             PROVE  IsFiniteSet(Waiting(d)') /\ Cardinality(Waiting(d)') <= PendingLimit
  BY DEF WaitingBounded
<1> DEFINE W == Waiting(d)
           V == Waiting(d)'
<1>w. IsFiniteSet(W) /\ Cardinality(W) <= PendingLimit /\ Cardinality(W) \in Nat
  BY FS_CardinalityType DEF WaitingBounded
<1>v. V \subseteq ReqId
  BY DEF Waiting
<1>1. CASE V \subseteq W
  <2>1. IsFiniteSet(V) /\ Cardinality(V) <= Cardinality(W) /\ Cardinality(V) \in Nat
    BY <1>1, <1>w, FS_Subset, FS_CardinalityType
  <2> QED
    BY <1>t, <1>w, <2>1
<1>2. CASE ~(V \subseteq W)
  <2>1. PICK r \in V : r \notin W
    BY <1>2
  <2>2. r \in ReqId /\ Inserted(r)
    BY <1>v, <2>1, WaitingShrinks
  <2>3. DeviceSubmit(r)
    BY <2>2, OnlySubmitInserts
  <2>4. requests'[r].status = "pending_approval" /\ requests'[r].device = d
    BY <2>1 DEF Waiting, InStatus
  <2>5. Cardinality(W) < PendingLimit
    BY <1>t, <2>2, <2>3, <2>4, SubmitCounts
  <2>6. V \subseteq W \cup {r}
    <3> SUFFICES ASSUME NEW o \in V, o # r PROVE o \in W
      OBVIOUS
    <3>1. ~Inserted(o)
      BY <1>t, <1>v, <2>2, <2>3, SubmitRow DEF Inserted, Row
    <3> QED
      BY <1>v, <3>1, WaitingShrinks
  <2>7. IsFiniteSet(W \cup {r}) /\ Cardinality(W \cup {r}) = Cardinality(W) + 1
    BY <1>w, <2>1, FS_AddElement
  <2>8. /\ IsFiniteSet(V) /\ Cardinality(V) <= Cardinality(W \cup {r})
        /\ Cardinality(V) \in Nat
    BY <2>6, <2>7, FS_Subset, FS_CardinalityType
  <2> QED
    BY <1>t, <1>w, <2>5, <2>7, <2>8
<1> QED
  BY <1>1, <1>2

\* No device has more undecided requests than the limit.
THEOREM PendingIsLimited == Spec => []PendingWithinLimit
<1> DEFINE Inv == HoldInv /\ WaitingBounded
<1>1. Init => Inv
  <2> SUFFICES ASSUME Init, NEW d \in Device
               PROVE  IsFiniteSet(Waiting(d)) /\ Cardinality(Waiting(d)) <= PendingLimit
    BY InitHold DEF WaitingBounded
  <2>1. Waiting(d) = {}
    BY DEF Init, RequestsInit, Waiting, InStatus, Row
  <2> QED
    BY <2>1, FS_EmptySet, RequestAssumption
<1>2. ASSUME WaitingBounded, UNCHANGED vars PROVE WaitingBounded'
  <2>1. \A d \in Device : Waiting(d)' = Waiting(d)
    BY <1>2 DEF vars, Waiting, InStatus, Row
  <2> QED
    BY <1>2, <2>1 DEF WaitingBounded
<1>3. Inv /\ [Next]_vars => Inv'
  BY <1>2, StepHold, PendingStep
<1>4. Inv => PendingWithinLimit
  BY DEF WaitingBounded, PendingWithinLimit
<1> QED
  BY <1>1, <1>3, <1>4, PTL DEF Spec
-----------------------------------------------------------------------------
\* The goroutines and handlers that hold slots of d.
BusyOf(d) == { j \in Busy : DeviceOf(jobs[j].req) = d }
CallsOf(d) == { h \in Calls : http[h].device = d }

\* SlotsAccounted, with the handlers finitely many at any time.
SlotInv == SlotsAccounted /\ IsFiniteSet(Calls)

LEMMA Holders ==
    ASSUME SlotInv, HoldInv
    PROVE  /\ IsFiniteSet(Busy) /\ IsFiniteSet(Calls)
           /\ Cardinality(Busy) \in Nat /\ Cardinality(Calls) \in Nat
           /\ global = Cardinality(Busy) + Cardinality(Calls) /\ global <= GlobalLimit
           /\ \A d \in Device :
                  /\ IsFiniteSet(BusyOf(d)) /\ IsFiniteSet(CallsOf(d))
                  /\ Cardinality(BusyOf(d)) \in Nat /\ Cardinality(CallsOf(d)) \in Nat
                  /\ active[d] = Cardinality(BusyOf(d)) + Cardinality(CallsOf(d))
                  /\ active[d] <= DeviceLimit
           /\ active \in [Device -> Int]
<1>1. IsFiniteSet(Busy) /\ IsFiniteSet(Calls)
  BY FS_Subset, DispatchAssumption DEF Busy, SlotInv
<1>2. ASSUME NEW d \in Device PROVE IsFiniteSet(BusyOf(d)) /\ IsFiniteSet(CallsOf(d))
  BY <1>1, FS_Subset DEF BusyOf, CallsOf
<1>3. active \in [Device -> Int]
  BY DEF HoldInv, TypeOK, SlotsTypeOK
<1> QED
  BY <1>1, <1>2, <1>3, FS_CardinalityType DEF SlotInv, SlotsAccounted, BusyOf, CallsOf

\* The same holders, the same counters.
LEMMA SlotsRest ==
    ASSUME SlotInv, UNCHANGED slotVars, Busy' = Busy, Calls' = Calls,
           \A d \in Device : BusyOf(d)' = BusyOf(d) /\ CallsOf(d)' = CallsOf(d)
    PROVE  SlotInv'
  BY DEF SlotInv, SlotsAccounted, BusyOf, CallsOf

\* One more goroutine or one more handler, with acquire.
LEMMA SlotTaken ==
    ASSUME SlotInv, HoldInv, NEW e \in Device, acquire(e), NEW x,
           \/ /\ x \notin Busy /\ Busy' = Busy \cup {x} /\ Calls' = Calls
              /\ \A d \in Device : /\ BusyOf(d)' = IF d = e THEN BusyOf(d) \cup {x}
                                                            ELSE BusyOf(d)
                                   /\ CallsOf(d)' = CallsOf(d)
           \/ /\ x \notin Calls /\ Calls' = Calls \cup {x} /\ Busy' = Busy
              /\ \A d \in Device : /\ CallsOf(d)' = IF d = e THEN CallsOf(d) \cup {x}
                                                             ELSE CallsOf(d)
                                   /\ BusyOf(d)' = BusyOf(d)
    PROVE  SlotInv'
<1>h. /\ IsFiniteSet(Busy) /\ IsFiniteSet(Calls)
      /\ Cardinality(Busy) \in Nat /\ Cardinality(Calls) \in Nat
      /\ global = Cardinality(Busy) + Cardinality(Calls) /\ global <= GlobalLimit
      /\ active \in [Device -> Int]
  BY Holders
<1>d. \A d \in Device :
          /\ IsFiniteSet(BusyOf(d)) /\ IsFiniteSet(CallsOf(d))
          /\ Cardinality(BusyOf(d)) \in Nat /\ Cardinality(CallsOf(d)) \in Nat
          /\ active[d] = Cardinality(BusyOf(d)) + Cardinality(CallsOf(d))
          /\ active[d] <= DeviceLimit
  BY Holders
<1>l. GlobalLimit \in Int /\ DeviceLimit \in Int
  BY SlotAssumption
<1>1. IsFiniteSet(Calls') /\ Cardinality(Busy') + Cardinality(Calls') = global + 1
  <2>1. x \notin Busy => Cardinality(Busy \cup {x}) = Cardinality(Busy) + 1
    BY <1>h, FS_AddElement
  <2>2. /\ IsFiniteSet(Calls \cup {x})
        /\ x \notin Calls => Cardinality(Calls \cup {x}) = Cardinality(Calls) + 1
    BY <1>h, FS_AddElement
  <2>3. \/ x \notin Busy /\ Busy' = Busy \cup {x} /\ Calls' = Calls
        \/ x \notin Calls /\ Calls' = Calls \cup {x} /\ Busy' = Busy
    OBVIOUS
  <2>4. CASE x \notin Busy /\ Busy' = Busy \cup {x} /\ Calls' = Calls
    BY <1>h, <2>1, <2>4
  <2>5. CASE x \notin Calls /\ Calls' = Calls \cup {x} /\ Busy' = Busy
    BY <1>h, <2>2, <2>5
  <2> QED
    BY <2>3, <2>4, <2>5
<1>2. global' = global + 1 /\ global' <= GlobalLimit
  BY <1>h, <1>l DEF acquire, HasSlot
<1>3. ASSUME NEW d \in Device
      PROVE  /\ active'[d] = Cardinality(BusyOf(d)') + Cardinality(CallsOf(d)')
             /\ active'[d] <= DeviceLimit
  <2>1. CASE d = e
    <3>1. x \notin Busy => Cardinality(BusyOf(d) \cup {x}) = Cardinality(BusyOf(d)) + 1
      <4>1. x \notin Busy => x \notin BusyOf(d)
        BY DEF BusyOf
      <4> QED
        BY <1>d, <4>1, FS_AddElement
    <3>2. x \notin Calls => Cardinality(CallsOf(d) \cup {x}) = Cardinality(CallsOf(d)) + 1
      <4>1. x \notin Calls => x \notin CallsOf(d)
        BY DEF CallsOf
      <4> QED
        BY <1>d, <4>1, FS_AddElement
    <3>3. Cardinality(BusyOf(d)') + Cardinality(CallsOf(d)') = active[d] + 1
      <4>1. \/ /\ x \notin Busy /\ BusyOf(d)' = BusyOf(d) \cup {x}
               /\ CallsOf(d)' = CallsOf(d)
            \/ /\ x \notin Calls /\ CallsOf(d)' = CallsOf(d) \cup {x}
               /\ BusyOf(d)' = BusyOf(d)
        BY <2>1
      <4>2. /\ Cardinality(BusyOf(d)) \in Nat /\ Cardinality(CallsOf(d)) \in Nat
            /\ active[d] = Cardinality(BusyOf(d)) + Cardinality(CallsOf(d))
        BY <1>d
      <4>3. \/ /\ Cardinality(BusyOf(d)') = Cardinality(BusyOf(d)) + 1
               /\ Cardinality(CallsOf(d)') = Cardinality(CallsOf(d))
            \/ /\ Cardinality(CallsOf(d)') = Cardinality(CallsOf(d)) + 1
               /\ Cardinality(BusyOf(d)') = Cardinality(BusyOf(d))
        BY <3>1, <3>2, <4>1, Zenon
      <4> QED
        BY <4>2, <4>3
    <3>4. active'[d] = active[d] + 1 /\ active[d] < DeviceLimit
      BY <1>h, <2>1 DEF acquire, HasSlot
    <3> QED
      BY <1>h, <1>l, <3>3, <3>4
  <2>2. CASE d # e
    BY <1>h, <1>d, <2>2 DEF acquire
  <2> QED
    BY <2>1, <2>2
<1> QED
  BY <1>1, <1>2, <1>3 DEF SlotInv, SlotsAccounted, BusyOf, CallsOf

\* One goroutine or one handler less, with release.
LEMMA SlotGiven ==
    ASSUME SlotInv, HoldInv, NEW e \in Device, release(e), NEW x,
           \/ /\ x \in BusyOf(e) /\ Busy' = Busy \ {x} /\ Calls' = Calls
              /\ \A d \in Device : /\ BusyOf(d)' = IF d = e THEN BusyOf(d) \ {x}
                                                            ELSE BusyOf(d)
                                   /\ CallsOf(d)' = CallsOf(d)
           \/ /\ x \in CallsOf(e) /\ Calls' = Calls \ {x} /\ Busy' = Busy
              /\ \A d \in Device : /\ CallsOf(d)' = IF d = e THEN CallsOf(d) \ {x}
                                                             ELSE CallsOf(d)
                                   /\ BusyOf(d)' = BusyOf(d)
    PROVE  SlotInv'
<1>h. /\ IsFiniteSet(Busy) /\ IsFiniteSet(Calls)
      /\ Cardinality(Busy) \in Nat /\ Cardinality(Calls) \in Nat
      /\ global = Cardinality(Busy) + Cardinality(Calls) /\ global <= GlobalLimit
      /\ active \in [Device -> Int]
  BY Holders
<1>d. \A d \in Device :
          /\ IsFiniteSet(BusyOf(d)) /\ IsFiniteSet(CallsOf(d))
          /\ Cardinality(BusyOf(d)) \in Nat /\ Cardinality(CallsOf(d)) \in Nat
          /\ active[d] = Cardinality(BusyOf(d)) + Cardinality(CallsOf(d))
          /\ active[d] <= DeviceLimit
  BY Holders
<1>l. GlobalLimit \in Int /\ DeviceLimit \in Int
  BY SlotAssumption
<1>1. IsFiniteSet(Calls') /\ Cardinality(Busy') + Cardinality(Calls') = global - 1
  BY <1>h, FS_RemoveElement DEF BusyOf, CallsOf
<1>2. global' = global - 1 /\ global' <= GlobalLimit
  BY <1>h, <1>l DEF release
<1>3. ASSUME NEW d \in Device
      PROVE  /\ active'[d] = Cardinality(BusyOf(d)') + Cardinality(CallsOf(d)')
             /\ active'[d] <= DeviceLimit
  <2>1. CASE d = e
    <3>a. x \in BusyOf(d) => Cardinality(BusyOf(d) \ {x}) = Cardinality(BusyOf(d)) - 1
      BY <1>d, FS_RemoveElement
    <3>b. x \in CallsOf(d) => Cardinality(CallsOf(d) \ {x}) = Cardinality(CallsOf(d)) - 1
      BY <1>d, FS_RemoveElement
    <3>1. Cardinality(BusyOf(d)') + Cardinality(CallsOf(d)') = active[d] - 1
      <4>1. \/ /\ x \in BusyOf(d) /\ BusyOf(d)' = BusyOf(d) \ {x}
               /\ CallsOf(d)' = CallsOf(d)
            \/ /\ x \in CallsOf(d) /\ CallsOf(d)' = CallsOf(d) \ {x}
               /\ BusyOf(d)' = BusyOf(d)
        BY <2>1
      <4>2. /\ Cardinality(BusyOf(d)) \in Nat /\ Cardinality(CallsOf(d)) \in Nat
            /\ active[d] = Cardinality(BusyOf(d)) + Cardinality(CallsOf(d))
        BY <1>d
      <4>3. \/ /\ Cardinality(BusyOf(d)') = Cardinality(BusyOf(d)) - 1
               /\ Cardinality(CallsOf(d)') = Cardinality(CallsOf(d))
            \/ /\ Cardinality(CallsOf(d)') = Cardinality(CallsOf(d)) - 1
               /\ Cardinality(BusyOf(d)') = Cardinality(BusyOf(d))
        BY <3>a, <3>b, <4>1, Zenon
      <4> QED
        BY <4>2, <4>3
    <3>2. active'[d] = active[d] - 1
      BY <1>h, <2>1 DEF release
    <3> QED
      BY <1>h, <1>d, <1>l, <3>1, <3>2
  <2>2. CASE d # e
    BY <1>h, <1>d, <2>2 DEF release
  <2> QED
    BY <2>1, <2>2
<1> QED
  BY <1>1, <1>2, <1>3 DEF SlotInv, SlotsAccounted, BusyOf, CallsOf

\* A request's device never changes.
LEMMA DeviceStays ==
    ASSUME HoldInv, Next, NEW r \in ReqId, Row(r)
    PROVE  requests'[r].device = requests[r].device /\ requests[r].device \in Device
<1>1. RowStep(r)
  BY StepOfRows
<1>2. requests'[r] = requests[r] \/ Same(r)
  BY <1>1
     DEF RowStep, Inserted, Withdrawn, Purged, Decided, Refused, Claimed, Finished, Moves
<1>3. requests'[r].device = requests[r].device
  BY <1>2 DEF Same, Digest
<1> QED
  BY <1>3 DEF HoldInv, TypeOK, RequestsTypeOK, Row, Request

\* A step in which nobody starts or returns.
LEMMA SameHolders ==
    ASSUME SlotInv, HoldInv, Next, UNCHANGED slotVars,
           \A j \in Job : JobAt(j, "idle")' <=> JobAt(j, "idle"),
           \A j \in Job : ~JobAt(j, "idle") => jobs'[j].req = jobs[j].req,
           \A h \in Handler : http'[h] = NoCall <=> http[h] = NoCall,
           \A h \in Handler : http[h] # NoCall => http'[h].device = http[h].device
    PROVE  SlotInv'
<1>1. Busy' = Busy /\ Calls' = Calls
  BY DEF Busy, Calls
<1>2. ASSUME NEW j \in Busy PROVE DeviceOf(jobs[j].req)' = DeviceOf(jobs[j].req)
  <2>1. j \in Job /\ jobs'[j].req = jobs[j].req /\ jobs[j].req \in ReqId /\ Row(jobs[j].req)
    BY DEF Busy, HoldInv, JobsOnRows
  <2> QED
    BY <2>1, DeviceStays DEF DeviceOf
<1>3. ASSUME NEW d \in Device PROVE BusyOf(d)' = BusyOf(d) /\ CallsOf(d)' = CallsOf(d)
  BY <1>1, <1>2 DEF BusyOf, CallsOf, Calls
<1> QED
  BY <1>1, <1>3, SlotsRest

LEMMA SlotStep == ASSUME SlotInv, HoldInv, Next PROVE SlotInv'
<1>t. /\ TypeOK /\ jobs \in [Job -> JobState] /\ http \in [Handler -> Call \cup {NoCall}]
      /\ active \in [Device -> Int]
  BY DEF HoldInv, TypeOK, DispatchTypeOK, HttpTypeOK, SlotsTypeOK
<1>q. UNCHANGED <<slotVars, jobs, http>> => SlotInv'
  BY SameHolders DEF JobAt
<1>1. ASSUME NEW c \in batch, NEW j \in Job, Spawn(c, j), UNCHANGED http PROVE SlotInv'
  <2> DEFINE e == DeviceOf(c)
  <2>1. c \in ReqId /\ Row(c) /\ UNCHANGED requests /\ acquire(e)
    BY <1>1 DEF HoldInv, BatchOnRows, TypeOK, DispatchTypeOK, Spawn
  <2>2. e \in Device
    BY <2>1, DeviceStays DEF DeviceOf
  <2>3. /\ jobs'[j].pc = "start" /\ jobs'[j].req = c
        /\ \A k \in Job : k # j => jobs'[k] = jobs[k]
        /\ jobs[j].pc = "idle"
    BY <1>1, <1>t DEF Spawn, JobAt
  <2>4. j \notin Busy /\ Busy' = Busy \cup {j} /\ Calls' = Calls
    BY <1>1, <2>3 DEF Busy, Calls, JobAt
  <2>5. ASSUME NEW d \in Device
        PROVE  /\ BusyOf(d)' = IF d = e THEN BusyOf(d) \cup {j} ELSE BusyOf(d)
               /\ CallsOf(d)' = CallsOf(d)
    <3>1. \A k \in Busy : DeviceOf(jobs[k].req)' = DeviceOf(jobs[k].req)
      BY <2>1, <2>3, <2>4 DEF DeviceOf, Busy
    <3>2. DeviceOf(jobs[j].req)' = e
      BY <2>1, <2>3 DEF DeviceOf
    <3>3. BusyOf(d)' = IF d = e THEN BusyOf(d) \cup {j} ELSE BusyOf(d)
      BY <2>4, <3>1, <3>2 DEF BusyOf
    <3>4. CallsOf(d)' = CallsOf(d)
      BY <1>1, <2>4 DEF CallsOf
    <3> QED
      BY <3>3, <3>4
  <2> QED
    BY <2>1, <2>2, <2>4, <2>5, SlotTaken
<1>2. ASSUME NEW j \in Job, Exit(j), UNCHANGED http PROVE SlotInv'
  <2> DEFINE e == DeviceOf(jobs[j].req)
  <2>1. /\ jobs[j].req \in ReqId /\ Row(jobs[j].req) /\ UNCHANGED requests /\ release(e)
        /\ jobs[j].pc = "exit"
    BY <1>2 DEF HoldInv, JobsOnRows, Exit, JobAt
  <2>2. e \in Device
    BY <2>1, DeviceStays DEF DeviceOf
  <2>3. jobs'[j].pc = "idle" /\ \A k \in Job : k # j => jobs'[k] = jobs[k]
    BY <1>2, <1>t DEF Exit, Idle
  <2>4. j \in BusyOf(e) /\ Busy' = Busy \ {j} /\ Calls' = Calls
    BY <1>2, <2>1, <2>3 DEF BusyOf, Busy, Calls, JobAt
  <2>5. ASSUME NEW d \in Device
        PROVE  /\ BusyOf(d)' = IF d = e THEN BusyOf(d) \ {j} ELSE BusyOf(d)
               /\ CallsOf(d)' = CallsOf(d)
    <3>1. \A k \in Busy \ {j} : DeviceOf(jobs[k].req)' = DeviceOf(jobs[k].req)
      BY <2>1, <2>3 DEF DeviceOf, Busy
    <3>2. BusyOf(d)' = IF d = e THEN BusyOf(d) \ {j} ELSE BusyOf(d)
      BY <2>4, <3>1 DEF BusyOf
    <3>3. CallsOf(d)' = CallsOf(d)
      BY <1>2, <2>4 DEF CallsOf
    <3> QED
      BY <3>2, <3>3
  <2> QED
    BY <2>1, <2>2, <2>4, <2>5, SlotGiven
<1>3. ASSUME NEW h \in Handler, NEW e \in Device, NEW s \in Service, NEW q \in Routes,
             HttpAccept(h, e, s, q), UNCHANGED <<jobs, requests>>
      PROVE  SlotInv'
  <2>1. /\ acquire(e) /\ http[h] = NoCall /\ http'[h].device = e
        /\ \A k \in Handler : k # h => http'[k] = http[k]
    BY <1>3, <1>t DEF HttpAccept
  <2>2. http'[h] # NoCall
    BY <1>3, <1>t, NoCallAssumption DEF HttpAccept, Call
  <2>3. h \notin Calls /\ Calls' = Calls \cup {h} /\ Busy' = Busy
    BY <1>3, <2>1, <2>2 DEF Busy, Calls, JobAt
  <2>4. ASSUME NEW d \in Device
        PROVE  /\ CallsOf(d)' = IF d = e THEN CallsOf(d) \cup {h} ELSE CallsOf(d)
               /\ BusyOf(d)' = BusyOf(d)
    <3>1. CallsOf(d)' = IF d = e THEN CallsOf(d) \cup {h} ELSE CallsOf(d)
      BY <2>1, <2>3 DEF CallsOf, Calls
    <3>2. BusyOf(d)' = BusyOf(d)
      BY <1>3, <2>3 DEF BusyOf, DeviceOf
    <3> QED
      BY <3>1, <3>2
  <2> QED
    BY <2>1, <2>3, <2>4, SlotTaken
<1>4. ASSUME NEW h \in Handler, HttpExit(h), UNCHANGED <<jobs, requests>> PROVE SlotInv'
  <2> DEFINE e == http[h].device
  <2>1. /\ release(e) /\ http[h] # NoCall /\ http'[h] = NoCall /\ e \in Device
        /\ \A k \in Handler : k # h => http'[k] = http[k]
    BY <1>4, <1>t DEF HttpExit, AtHttp, Call
  <2>2. h \in CallsOf(e) /\ Calls' = Calls \ {h} /\ Busy' = Busy
    BY <1>4, <2>1 DEF CallsOf, Busy, Calls, JobAt
  <2>3. ASSUME NEW d \in Device
        PROVE  /\ CallsOf(d)' = IF d = e THEN CallsOf(d) \ {h} ELSE CallsOf(d)
               /\ BusyOf(d)' = BusyOf(d)
    <3>1. CallsOf(d)' = IF d = e THEN CallsOf(d) \ {h} ELSE CallsOf(d)
      BY <2>1, <2>2 DEF CallsOf, Calls
    <3>2. BusyOf(d)' = BusyOf(d)
      BY <1>4, <2>2 DEF BusyOf, DeviceOf
    <3> QED
      BY <3>1, <3>2
  <2> QED
    BY <2>1, <2>2, <2>3, SlotGiven
<1>5. ASSUME LoseMemory PROVE SlotInv'
  <2>1. Busy' = {} /\ Calls' = {} /\ \A d \in Device : BusyOf(d)' = {} /\ CallsOf(d)' = {}
    BY <1>5 DEF LoseMemory, Busy, Calls, BusyOf, CallsOf, JobAt, Idle
  <2>2. global' = 0 /\ \A d \in Device : active'[d] = 0
    BY <1>5, <1>t DEF LoseMemory, SlotsReset
  <2>3. GlobalLimit \in Nat /\ DeviceLimit \in Nat
    BY SlotAssumption
  <2>4. \A d \in Device : /\ active'[d] = Cardinality(BusyOf(d)') + Cardinality(CallsOf(d)')
                          /\ active'[d] <= DeviceLimit
    BY <2>1, <2>2, <2>3, FS_EmptySet
  <2>5. /\ global' = Cardinality(Busy') + Cardinality(Calls') /\ global' <= GlobalLimit
        /\ IsFiniteSet(Calls')
    BY <2>1, <2>2, <2>3, FS_EmptySet
  <2> QED
    BY <2>4, <2>5 DEF SlotInv, SlotsAccounted, BusyOf, CallsOf
<1>6. ASSUME NEW j \in Job, Dispatching(j), ~Exit(j) PROVE SlotInv'
  <2>1. ~JobAt(j, "idle") /\ UNCHANGED <<slotVars, http>>
    BY <1>6
       DEF Dispatching, JobStep, ClaimTooLate, ClaimRefused, Claim, ClaimFails, SendNotSent,
           SendGotConn, SendReply, Finish, FinishFails, JobAt
  <2>2. \E pc \in {"claimed", "sent", "finish", "exit"}, o \in Outcome \cup {"none"} :
            Goto(j, pc, o)
    BY <1>6
       DEF Dispatching, JobStep, ClaimTooLate, ClaimRefused, Claim, ClaimFails, SendNotSent,
           SendGotConn, SendReply, Finish, FinishFails, Outcome, ReplyOutcome
  <2>3. /\ jobs'[j].pc # "idle" /\ jobs'[j].req = jobs[j].req
        /\ \A k \in Job : k # j => jobs'[k] = jobs[k]
    BY <1>t, <2>2, GotoMoves
  <2> QED
    BY <2>1, <2>3, SameHolders DEF JobAt
<1>7. ASSUME NEW h \in Handler, Proxying(h) PROVE SlotInv'
  <2>1. UNCHANGED <<jobs, requests>>
    BY <1>7 DEF Proxying
  <2>2. CASE HttpBodyFails(h) \/ HttpRefuse(h) \/ HttpAuthorize(h) \/ HttpSent(h)
    <3>1. /\ http[h] # NoCall /\ UNCHANGED slotVars
          /\ \A k \in Handler : k # h => http'[k] = http[k]
      BY <1>t, <2>2 DEF HttpBodyFails, HttpRefuse, HttpAuthorize, HttpSent, AtHttp
    <3>2. http[h] \in Call
      BY <1>t, <3>1
    <3>3. http'[h] \in Call \cup {NoCall}
      BY StepHold DEF HoldInv, TypeOK, HttpTypeOK
    <3>4. http'[h].device = http[h].device /\ http'[h] # NoCall
      <4>1. CASE HttpAuthorize(h)
        <5>1. PICK p \in PermId, pc \in {"send", "exit"} :
                  http' = [http EXCEPT ![h].pc = pc, ![h].perm = p]
          BY <4>1 DEF HttpAuthorize, HttpPermitted, Authorize
        <5>2. http'[h] = [http[h] EXCEPT !.pc = pc, !.perm = p]
          BY <1>t, <5>1
        <5>3. http'[h] \in Call /\ http'[h].device = http[h].device
          BY <3>2, <5>2 DEF Call
        <5> QED
          BY <5>3, NoCallAssumption
      <4>2. CASE HttpBodyFails(h) \/ HttpRefuse(h) \/ HttpSent(h)
        <5>1. http'[h] = [http[h] EXCEPT !.pc = "exit"]
          BY <1>t, <4>2 DEF HttpBodyFails, HttpRefuse, HttpSent
        <5>2. http'[h] \in Call /\ http'[h].device = http[h].device
          BY <3>2, <5>1 DEF Call
        <5> QED
          BY <5>2, NoCallAssumption
      <4> QED
        BY <2>2, <4>1, <4>2
    <3> QED
      BY <2>1, <3>1, <3>4, SameHolders DEF JobAt
  <2> QED
    BY <1>3, <1>4, <1>7, <2>1, <2>2 DEF Proxying, HttpStep
<1>8. CASE Worker
  <2>1. CASE \E c \in batch, j \in Job : Spawn(c, j)
    BY <1>1, <1>8, <2>1 DEF Worker
  <2>2. CASE ~(\E c \in batch, j \in Job : Spawn(c, j))
    BY <1>8, <1>q, <2>2 DEF Worker, WorkerStep, Maintain, MaintainFails, Scan, ScanFails, Skip
  <2> QED
    BY <2>1, <2>2
<1>9. ASSUME NEW j \in Job, Dispatching(j) PROVE SlotInv'
  BY <1>2, <1>6, <1>9 DEF Dispatching
<1>10. CASE Close \/ Crash
  BY <1>5, <1>10 DEF Close, Crash
<1> QED
  BY <1>q, <1>7, <1>8, <1>9, <1>10
     DEF Next, Clock, OwnerInvite, OwnerRevokeDevice, OwnerCreateService, OwnerReviseService,
         OwnerDisableService, OwnerAddPermission, OwnerRevokePermission, DeviceSubmit,
         OwnerDecide, Transaction, Start, StartRestored, StartWith, FinishRestored, Stop,
         WorkerReturn

\* The counters are exactly the slots taken, on every path, and never over their limits.
THEOREM SlotsAreAccounted == Spec => []SlotsAccounted
<1> DEFINE Inv == HoldInv /\ SlotInv
<1>1. Init => SlotInv
  <2> SUFFICES ASSUME Init PROVE SlotInv
    OBVIOUS
  <2>1. Busy = {} /\ Calls = {} /\ \A d \in Device : BusyOf(d) = {} /\ CallsOf(d) = {}
    BY DEF Init, DispatchInit, HttpInit, Busy, Calls, BusyOf, CallsOf, JobAt, Idle
  <2>2. /\ global = 0 /\ \A d \in Device : active[d] = 0
        /\ GlobalLimit \in Nat /\ DeviceLimit \in Nat
    BY SlotAssumption DEF Init, SlotsInit
  <2>3. \A d \in Device : /\ active[d] = Cardinality(BusyOf(d)) + Cardinality(CallsOf(d))
                          /\ active[d] <= DeviceLimit
    BY <2>1, <2>2, FS_EmptySet
  <2>4. /\ global = Cardinality(Busy) + Cardinality(Calls) /\ global <= GlobalLimit
        /\ IsFiniteSet(Calls)
    BY <2>1, <2>2, FS_EmptySet
  <2> QED
    BY <2>3, <2>4 DEF SlotInv, SlotsAccounted, BusyOf, CallsOf
<1>2. ASSUME SlotInv, UNCHANGED vars PROVE SlotInv'
  BY <1>2
     DEF vars, SlotInv, SlotsAccounted, Busy, Calls, JobAt, DeviceOf
<1>3. Inv /\ [Next]_vars => Inv'
  BY <1>2, StepHold, SlotStep
<1>4. Inv => SlotsAccounted
  BY DEF SlotInv
<1> QED
  BY <1>1, <1>3, <1>4, InitHold, PTL DEF Spec
=============================================================================
