--------------------------- MODULE IdentityProofs ---------------------------
(***************************************************************************)
(* Proofs about Identity, for every set of devices, files, processes and   *)
(* keys and all lifetimes.                                                 *)
(***************************************************************************)
EXTENDS Identity, TLAPS

USE IdentityAssumption DEF serverVars, fileVars

\* issue makes a certificate of the device it is asked for and the key of the CSR.
LEMMA IssueType ==
    ASSUME TypeOK, NEW d \in Device, NEW k \in Key
    PROVE  /\ issue(d, k) \in Certificate
           /\ issue(d, k).device = d /\ issue(d, k).key = k
           /\ issue(d, k).notAfter = now + CertLife
  BY DEF issue, Certificate, TypeOK

\* The fields of a certificate.
LEMMA CertificateFields ==
    ASSUME NEW c \in Certificate
    PROVE  c.device \in Device /\ c.key \in Key /\ c.notAfter \in Nat /\ c # None
  BY DEF Certificate

\* The fields of a process.
LEMMA ProcessFields ==
    ASSUME NEW x \in Process
    PROVE  /\ x.pc \in PC /\ x.path \in Path \cup {None} /\ x.csr \in Csr \cup {None}
           /\ x.serving \in BOOLEAN /\ x.cert \in Certificate \cup {None}
           /\ x.next \in Certificate \cup {None} /\ x.via \in Certificate \cup {None}
           /\ x.conns \in SUBSET Certificate /\ x.due \in BOOLEAN
           /\ x.failures \in 0..RenewBefore
  BY DEF Process

\* What the steps write over a process is a process.
LEMMA FieldTypes ==
    ASSUME NEW x \in Process, NEW pc \in PC, NEW c \in Certificate \cup {None},
           NEW S \in SUBSET Certificate
    PROVE  /\ [x EXCEPT !.pc = pc] \in Process
           /\ [x EXCEPT !.pc = pc, !.next = c] \in Process
           /\ [x EXCEPT !.pc = pc, !.via = c] \in Process
           /\ [x EXCEPT !.pc = pc, !.via = c, !.conns = S] \in Process
           /\ [x EXCEPT !.conns = S] \in Process
  BY DEF Process

\* The same of a process that resumes.
LEMMA ResumeType ==
    ASSUME NEW x \in Process, NEW S \in SUBSET Certificate
    PROVE  {Resume(x), Settled(x), Retry(x), Renewed(x, S)} \subseteq Process
<1>1. Resume(x) \in Process
  BY DEF Process, Resume, PC
<1>2. Settled(x) \in Process
  BY <1>1 DEF Process, Settled
<1>3. Retry(x) \in Process
  <2>1. (IF x.failures < RenewBefore THEN x.failures + 1 ELSE x.failures) \in 0..RenewBefore
    BY DEF Process
  <2> QED
    BY <1>1, <2>1 DEF Process, Retry
<1>4. Renewed(x, S) \in Process
  <2>1. x.next \in Certificate \cup {None} /\ 0 \in 0..RenewBefore
    BY DEF Process
  <2> DEFINE w == Resume(x)
  <2>2. w \in Process
    BY <1>1
  <2> HIDE DEF w
  <2>3. [w EXCEPT !.cert = x.next, !.conns = S, !.failures = 0] \in Process
    BY <2>1, <2>2 DEF Process
  <2> QED
    BY <2>3 DEF Renewed, w
<1> QED
  BY <1>1, <1>2, <1>3, <1>4

\* A process that has ended.
LEMMA IdleType == Idle \in Process
  BY DEF Process, PC, Idle

\* What an ended process holds is nothing.
LEMMA IdleHeld == Held(Idle) /\ InFile(Idle)
  BY DEF Held, InFile, Connecting, Idle

\* Where a refresh leaves a process that keeps its certificate.
LEMMA ResumeFields ==
    ASSUME NEW x \in Process, NEW y \in {Resume(x), Settled(x), Retry(x)}
    PROVE  /\ y.pc = "running" /\ y.path = x.path /\ y.via = None
           /\ y.serving = TRUE /\ y.due = FALSE /\ y.cert = x.cert /\ y.conns = x.conns
<1>1. CASE y = Resume(x)
  BY <1>1 DEF Resume, Process
<1>2. CASE y = Settled(x)
  BY <1>2 DEF Resume, Process, Settled
<1>3. CASE y = Retry(x)
  BY <1>3 DEF Resume, Process, Retry
<1> QED
  BY <1>1, <1>2, <1>3

\* The same of a process that has renewed.
LEMMA RenewedFields ==
    ASSUME NEW x \in Process, NEW S \in SUBSET Certificate
    PROVE  /\ Renewed(x, S).pc = "running" /\ Renewed(x, S).path = x.path
           /\ Renewed(x, S).via = None /\ Renewed(x, S).serving = TRUE
           /\ Renewed(x, S).due = FALSE /\ Renewed(x, S).cert = x.next
           /\ Renewed(x, S).conns = S /\ Renewed(x, S).failures = 0
  BY DEF Resume, Process, Renewed

\* A step of one process that signs and stores nothing.
LEMMA MoveKeeps ==
    ASSUME IdentityInv, NEW p \in Proc, NEW y \in Process,
           procs' = [procs EXCEPT ![p] = y], Held(y), InFile(y), y.pc # "saving",
           now' \in 0..MaxTime, leaf' \in Nat,
           UNCHANGED <<devices, invitations, issued, fileVars>>
    PROVE  IdentityInv'
<1>1. TypeOK'
  <2>1. procs' \in [Proc -> Process]
    BY DEF IdentityInv, TypeOK
  <2> QED
    BY <2>1 DEF IdentityInv, TypeOK
<1>2. \A q \in Proc : procs'[q] = IF q = p THEN y ELSE procs[q]
  BY DEF IdentityInv, TypeOK
<1>3. \A q \in Proc : Held(procs[q])' /\ InFile(procs[q])'
  BY <1>2 DEF IdentityInv, Held, InFile, Connecting
<1>4. SavingAlone'
  BY <1>2 DEF IdentityInv, SavingAlone, At
<1>5. OneKeyPerDevice' /\ OpenUnused' /\ Stored'
  BY DEF IdentityInv, OneKeyPerDevice, OpenUnused, Stored
<1> QED
  BY <1>1, <1>3, <1>4, <1>5 DEF IdentityInv

\* currentCertificate keeps the leaf a date, and never offers one that has expired.
LEMMA LeafType ==
    ASSUME TypeOK PROVE currentCertificate \in Nat /\ Trusted
  BY DEF TypeOK, currentCertificate, RenewalDue, Trusted

\* The start of `budge enroll`.
LEMMA EnrollKeeps ==
    ASSUME IdentityInv, NEW p \in Proc, NEW f \in Path, NEW d \in Device, EnrollStart(p, f, d)
    PROVE  IdentityInv'
<1>0. procs[p] \in Process /\ now \in 0..MaxTime /\ leaf \in Nat /\ TypeOK
      /\ Held(procs[p]) /\ InFile(procs[p])
  BY DEF IdentityInv, TypeOK
<1>1. PICK k \in Key : procs' = [procs EXCEPT ![p].pc = "enrolling", ![p].path = f,
                                              ![p].csr = [device |-> d, key |-> k]]
  BY DEF EnrollStart
<1> DEFINE y == [procs[p] EXCEPT !.pc = "enrolling", !.path = f,
                                 !.csr = [device |-> d, key |-> k]]
<1>2. y \in Process
  BY <1>0 DEF Process, PC, Csr
<1>3. procs' = [procs EXCEPT ![p] = y]
  BY <1>1
<1>4. Held(y) /\ InFile(y)
  BY <1>0 DEF EnrollStart, At, Held, InFile, Connecting, Process, Csr
<1>5. y.pc # "saving"
  BY <1>0 DEF Process
<1> HIDE DEF y
<1> QED
  BY <1>0, <1>2, <1>3, <1>4, <1>5, LeafType, MoveKeeps DEF EnrollStart, Handshake

\* The start of `budge connect`.
LEMMA LoadKeeps ==
    ASSUME IdentityInv, NEW p \in Proc, NEW f \in Path, Load(p, f)
    PROVE  IdentityInv'
<1>0. procs[p] \in Process /\ now \in 0..MaxTime /\ leaf \in Nat /\ TypeOK
      /\ Held(procs[p]) /\ InFile(procs[p])
  BY DEF IdentityInv, TypeOK
<1> DEFINE y == [Idle EXCEPT !.pc = "loaded", !.path = f, !.cert = files[f]]
<1>1. files[f] \in Certificate /\ files[f] \in issued
  BY DEF Load, Holds, IdentityInv, Stored
<1>2. y \in Process
  BY <1>1, IdleType DEF Process, PC
<1>3. procs' = [procs EXCEPT ![p] = y]
  BY DEF Load
<1>4. Held(y) /\ InFile(y) /\ y.pc # "saving"
  BY <1>1 DEF Held, InFile, Connecting, Idle
<1> HIDE DEF y
<1> QED
  BY <1>0, <1>2, <1>3, <1>4, MoveKeeps DEF Load

\* The end of either.
LEMMA DieKeeps == ASSUME IdentityInv, NEW p \in Proc, Die(p) PROVE IdentityInv'
<1>0. procs[p] \in Process /\ now \in 0..MaxTime /\ leaf \in Nat /\ TypeOK
      /\ Held(procs[p]) /\ InFile(procs[p])
  BY DEF IdentityInv, TypeOK
<1>1. procs' = [procs EXCEPT ![p] = Idle]
  BY DEF Die, Exit
<1>2. Idle.pc # "saving"
  BY DEF Idle
<1> QED
  BY <1>0, <1>1, <1>2, IdleType, IdleHeld, MoveKeeps DEF Die

\* Every end of Refresh that leaves the certificate as it is.
LEMMA RefreshKeeps ==
    ASSUME IdentityInv, NEW p \in Proc,
           RefreshNotDue(p) \/ RefreshExpired(p) \/ RenewRefused(p) \/ RefreshFails(p)
    PROVE  IdentityInv'
<1> DEFINE x == procs[p]
<1>0. x \in Process /\ now \in 0..MaxTime /\ leaf \in Nat /\ Held(x) /\ InFile(x)
  BY DEF IdentityInv, TypeOK
<1>1. UNCHANGED <<now, serverVars, fileVars>>
  BY DEF RefreshNotDue, RefreshExpired, RenewRefused, RefreshFails
<1>2. Connecting(x)
  BY <1>0 DEF RefreshNotDue, RefreshExpired, RenewRefused, RefreshFails, Wakes, At, Connecting
<1>3. PICK y \in {Idle, Resume(x), Settled(x), Retry(x)} : procs' = [procs EXCEPT ![p] = y]
  <2>1. CASE RefreshNotDue(p)
    BY <2>1 DEF RefreshNotDue
  <2>2. CASE RefreshExpired(p)
    BY <2>2 DEF RefreshExpired, GiveUp
  <2>3. CASE RenewRefused(p)
    BY <2>3 DEF RenewRefused, Refused
  <2>4. CASE RefreshFails(p)
    BY <2>4 DEF RefreshFails
  <2> QED
    BY <2>1, <2>2, <2>3, <2>4
<1>5. y \in Process
  BY <1>0, IdleType, ResumeType
<1>6. CASE y = Idle
  BY <1>0, <1>1, <1>3, <1>5, <1>6, IdleHeld, MoveKeeps DEF Idle
<1>7. CASE y # Idle
  <2>1. y.pc = "running" /\ y.path = x.path /\ y.cert = x.cert /\ y.via = None
        /\ y.conns = x.conns
    <3>1. y \in {Resume(x), Settled(x), Retry(x)}
      BY <1>7
    <3> QED
      BY <1>0, <3>1, ResumeFields
  <2>2. Held(y) /\ InFile(y)
    BY <1>0, <1>2, <2>1 DEF Held, InFile, Connecting
  <2> QED
    BY <1>0, <1>1, <1>3, <1>5, <2>1, <2>2, MoveKeeps
<1> QED
  BY <1>6, <1>7

\* The request of a renewal, its admission, and the connections.
LEMMA ConnectionKeeps ==
    ASSUME IdentityInv, NEW p \in Proc,
           RefreshReuse(p) \/ RefreshConnect(p) \/ Authenticate(p) \/ Forward(p) \/ ConnClosed(p)
    PROVE  IdentityInv'
<1> DEFINE x == procs[p]
<1>0. x \in Process /\ now \in 0..MaxTime /\ leaf \in Nat /\ TypeOK /\ Held(x) /\ InFile(x)
  BY DEF IdentityInv, TypeOK
<1>a. "asked" \in PC /\ "authenticated" \in PC
  BY DEF PC
<1>b. issued \subseteq Certificate
  BY DEF IdentityInv, TypeOK
<1>1. CASE RefreshReuse(p)
  <2>1. PICK c \in x.conns : procs' = [procs EXCEPT ![p] = [x EXCEPT !.pc = "asked", !.via = c]]
    BY <1>1 DEF RefreshReuse
  <2> DEFINE y == [x EXCEPT !.pc = "asked", !.via = c]
  <2>2. y \in Process
    BY <1>0, <1>a, FieldTypes, ProcessFields
  <2>3. y.pc = "asked" /\ y.via = c /\ y.path = x.path /\ y.cert = x.cert /\ y.conns = x.conns
    BY <1>0 DEF Process
  <2>4. Connecting(x)
    BY <1>1 DEF RefreshReuse, Asks, Wakes, At, Connecting
  <2> HIDE DEF y
  <2>5. Held(y) /\ InFile(y)
    BY <1>0, <2>3, <2>4 DEF Held, InFile, Connecting
  <2> QED
    BY <1>0, <1>1, <2>1, <2>2, <2>3, <2>5, MoveKeeps DEF RefreshReuse, y
<1>2. CASE RefreshConnect(p)
  <2>1. Connecting(x)
    BY <1>2 DEF RefreshConnect, Asks, Wakes, At, Connecting
  <2>2. x.cert \in Certificate
    BY <1>0, <1>b, <2>1 DEF Held
  <2> DEFINE y == [x EXCEPT !.pc = "asked", !.via = x.cert, !.conns = x.conns \cup {x.cert}]
  <2>3. procs' = [procs EXCEPT ![p] = y]
    BY <1>0, <1>2, LeafType DEF RefreshConnect
  <2>4. y \in Process
    <3>1. x.conns \cup {x.cert} \in SUBSET Certificate
      BY <1>0, <2>2, ProcessFields
    <3> QED
      BY <1>0, <1>a, <2>2, <3>1, FieldTypes
  <2>5. y.pc = "asked" /\ y.via = x.cert /\ y.path = x.path /\ y.cert = x.cert
        /\ y.conns = x.conns \cup {x.cert}
    BY <1>0 DEF Process
  <2> HIDE DEF y
  <2>6. Held(y) /\ InFile(y)
    BY <1>0, <2>1, <2>5 DEF Held, InFile, Connecting
  <2> QED
    BY <1>0, <1>2, <2>3, <2>4, <2>5, <2>6, LeafType, MoveKeeps DEF RefreshConnect, Handshake
<1>3. CASE Authenticate(p)
  <2> DEFINE y == [x EXCEPT !.pc = "authenticated"]
  <2>1. procs' = [procs EXCEPT ![p] = y] /\ x.pc = "asked" /\ x.via # None
    BY <1>3 DEF Authenticate, Admitted, At
  <2>2. y \in Process
    BY <1>0, <1>a, FieldTypes
  <2>3. y.pc = "authenticated" /\ y.via = x.via /\ y.path = x.path /\ y.cert = x.cert
        /\ y.conns = x.conns
    BY <1>0 DEF Process
  <2> HIDE DEF y
  <2>4. Held(y) /\ InFile(y)
    BY <1>0, <2>1, <2>3 DEF Held, InFile, Connecting
  <2> QED
    BY <1>0, <1>3, <2>1, <2>2, <2>3, <2>4, MoveKeeps DEF Authenticate
<1>4. CASE Forward(p) \/ ConnClosed(p)
  <2>1. PICK S : /\ procs' = [procs EXCEPT ![p] = [x EXCEPT !.conns = S]]
                 /\ S \subseteq x.conns \cup {x.cert}
                 /\ Connecting(x)
    <3>1. CASE Forward(p)
      BY <1>0, <3>1 DEF Forward, Held
    <3>2. CASE ConnClosed(p)
      <4>1. PICK c \in x.conns : procs' = [procs EXCEPT ![p].conns = @ \ {c}]
        BY <3>2 DEF ConnClosed
      <4> QED
        BY <1>0, <4>1 DEF Held
    <3> QED
      BY <1>4, <3>1, <3>2
  <2> DEFINE y == [x EXCEPT !.conns = S]
  <2>2. S \in SUBSET Certificate
    BY <1>0, <1>b, <2>1, ProcessFields DEF Held
  <2>3. y \in Process
    BY <1>0, <2>2, <1>a, FieldTypes
  <2>4. y.pc = x.pc /\ y.via = x.via /\ y.path = x.path /\ y.cert = x.cert
        /\ y.conns = S /\ y.next = x.next /\ y.csr = x.csr /\ y.serving = x.serving
    BY <1>0 DEF Process
  <2> HIDE DEF y
  <2>5. Held(y) /\ InFile(y)
    BY <1>0, <2>1, <2>4 DEF Held, InFile, Connecting
  <2>6. y.pc # "saving"
    BY <2>1, <2>4 DEF Connecting
  <2>7. leaf' \in Nat /\ UNCHANGED <<now, devices, invitations, issued, fileVars>>
    BY <1>0, <1>4, LeafType DEF Forward, ConnClosed, Handshake
  <2> QED
    BY <1>0, <2>1, <2>3, <2>5, <2>6, <2>7, MoveKeeps DEF y
<1> QED
  BY <1>1, <1>2, <1>3, <1>4

\* Signing: enroll uses up the one invitation, renew repeats the key of the certificate.
LEMMA SignKeeps ==
    ASSUME IdentityInv, NEW p \in Proc, enroll(p) \/ renew(p)
    PROVE  IdentityInv'
<1> DEFINE x == procs[p]
<1>0. x \in Process /\ TypeOK /\ Held(x) /\ InFile(x) /\ issued \subseteq Certificate
  BY DEF IdentityInv, TypeOK
<1>1. PICK d \in Device, k \in Key, pc \in {"enrolled", "answered"} :
          /\ procs' = [procs EXCEPT ![p] = [x EXCEPT !.pc = pc, !.next = issue(d, k)]]
          /\ issued' = issued \cup {issue(d, k)}
          /\ devices[d] # "absent"
          /\ invitations' \in [Device -> Invitation]
          /\ invitations'[d].state = "used"
          /\ \A o \in Device : invitations[o].state = "used" => invitations'[o].state = "used"
          /\ \A c \in issued : c.device = d => c.key = k
          /\ pc = "answered" => x.pc = "authenticated" /\ x.cert.device = d
          /\ pc = "enrolled" => x.pc = "enrolling"
          /\ UNCHANGED <<now, leaf, devices, fileVars>>
  <2>1. CASE enroll(p)
    <3> DEFINE d == x.csr.device
               k == x.csr.key
    <3>1. d \in Device /\ k \in Key /\ x.pc = "enrolling"
      BY <1>0, <2>1 DEF enroll, At, Held, Csr
    <3>2. invitations[d].state = "open" /\ devices[d] = "active"
      BY <2>1 DEF enroll, ActiveDevice
    <3>3. \A c \in issued : c.device # d
      BY <3>2 DEF IdentityInv, OpenUnused
    <3>4. invitations' = [invitations EXCEPT ![d].state = "used"]
          /\ UNCHANGED <<now, leaf, devices, fileVars>>
      BY <2>1 DEF enroll
    <3>5. invitations' \in [Device -> Invitation] /\ invitations'[d].state = "used"
          /\ \A o \in Device : o # d => invitations'[o] = invitations[o]
      BY <1>0, <3>1, <3>4 DEF TypeOK, Invitation
    <3>6. /\ procs' = [procs EXCEPT ![p] = [x EXCEPT !.pc = "enrolled", !.next = issue(d, k)]]
          /\ issued' = issued \cup {issue(d, k)}
      BY <2>1 DEF enroll, Sign
    <3> HIDE DEF d, k
    <3> QED
      BY <3>1, <3>2, <3>3, <3>4, <3>5, <3>6
  <2>2. CASE renew(p)
    <3> DEFINE d == x.via.device
               k == x.cert.key
    <3>1. x.pc = "authenticated" /\ x.via # None /\ Connecting(x)
      BY <1>0, <2>2 DEF renew, At, Held, Connecting
    <3>2. x.cert \in issued /\ d = x.cert.device
      BY <1>0, <3>1 DEF Held
    <3>3. d \in Device /\ k \in Key
      BY <1>0, <3>2, CertificateFields
    <3>4. \A c \in issued : c.device = d => c.key = k
      BY <3>2 DEF IdentityInv, OneKeyPerDevice
    <3>5. invitations[d].state = "used" /\ devices[d] # "absent"
      BY <3>2 DEF IdentityInv, OpenUnused
    <3>6. /\ procs' = [procs EXCEPT ![p] = [x EXCEPT !.pc = "answered", !.next = issue(d, k)]]
          /\ issued' = issued \cup {issue(d, k)}
          /\ UNCHANGED <<now, leaf, devices, invitations, fileVars>>
      BY <2>2 DEF renew, SignRenewal
    <3>7. invitations' \in [Device -> Invitation]
      BY <1>0, <3>6 DEF TypeOK
    <3> HIDE DEF d, k
    <3> d \in Device /\ k \in Key /\ "answered" \in {"enrolled", "answered"}
      BY <3>3
    <3> WITNESS d \in Device, k \in Key, "answered" \in {"enrolled", "answered"}
    <3> QED
      BY <3>1, <3>2, <3>3, <3>4, <3>5, <3>6, <3>7
  <2> QED
    BY <2>1, <2>2
<1> DEFINE c0 == issue(d, k)
           y == [x EXCEPT !.pc = pc, !.next = c0]
<1>2. c0 \in Certificate /\ c0.device = d /\ c0.key = k
  BY <1>0, IssueType
<1> HIDE DEF c0
<1>3. y \in Process
  BY <1>0, <1>2, FieldTypes DEF PC
<1>4. y.pc = pc /\ y.next = c0 /\ y.path = x.path /\ y.cert = x.cert /\ y.via = x.via
      /\ y.conns = x.conns /\ y.serving = x.serving
  BY <1>0 DEF Process
<1>5. procs' = [procs EXCEPT ![p] = y] /\ issued' = issued \cup {c0}
  BY <1>1 DEF c0
<1> HIDE DEF y
<1>6. \A q \in Proc : procs'[q] = IF q = p THEN y ELSE procs[q]
  BY <1>5 DEF IdentityInv, TypeOK
<1>7. TypeOK'
  <2>1. procs' \in [Proc -> Process]
    BY <1>0, <1>3, <1>5 DEF TypeOK
  <2> QED
    BY <1>0, <1>1, <1>2, <1>5, <2>1 DEF TypeOK
<1>8. OneKeyPerDevice' /\ OpenUnused'
  <2>1. \A c \in issued : c.device \in Device
    BY <1>0, CertificateFields
  <2> QED
    BY <1>1, <1>2, <1>5, <2>1 DEF IdentityInv, OneKeyPerDevice, OpenUnused
<1>9. \A q \in Proc : Held(procs[q])' /\ InFile(procs[q])'
  <2> SUFFICES ASSUME NEW q \in Proc PROVE Held(procs[q])' /\ InFile(procs[q])'
    OBVIOUS
  <2>1. CASE q = p
    <3>1. procs'[q] = y /\ c0 \in issued' /\ issued \subseteq issued' /\ files' = files
      BY <1>1, <1>5, <1>6, <2>1
    <3>2. CASE pc = "answered"
      <4>1. x.pc = "authenticated" /\ x.cert.device = d
        BY <1>1, <3>2
      <4>2. Held(procs[q])'
        BY <1>0, <1>2, <1>4, <3>1, <3>2, <4>1 DEF Held, Connecting
      <4>3. InFile(procs[q])'
        BY <1>0, <1>4, <3>1, <3>2, <4>1 DEF InFile, Connecting
      <4> QED
        BY <4>2, <4>3
    <3>3. CASE pc = "enrolled"
      <4>1. x.pc = "enrolling"
        BY <1>1, <3>3
      <4>2. Held(procs[q])'
        BY <1>0, <1>4, <3>1, <3>3, <4>1 DEF Held, Connecting
      <4>3. InFile(procs[q])'
        BY <1>0, <1>4, <3>1, <3>3, <4>1 DEF InFile, Connecting
      <4> QED
        BY <4>2, <4>3
    <3> QED
      BY <3>2, <3>3
  <2>2. CASE q # p
    <3>1. procs'[q] = procs[q] /\ Held(procs[q]) /\ InFile(procs[q])
      BY <1>6, <2>2 DEF IdentityInv
    <3> QED
      BY <1>1, <1>5, <3>1 DEF Held, InFile, Connecting
  <2> QED
    BY <2>1, <2>2
<1>10. SavingAlone'
  BY <1>1, <1>4, <1>6 DEF IdentityInv, SavingAlone, At
<1>11. Stored'
  BY <1>1, <1>5 DEF IdentityInv, Stored
<1> QED
  BY <1>7, <1>8, <1>9, <1>10, <1>11 DEF IdentityInv

\* Saving a new identity.
LEMMA SaveKeeps ==
    ASSUME IdentityInv, NEW p \in Proc, SaveCreate(p) \/ SaveWrite(p)
    PROVE  IdentityInv'
<1> DEFINE x == procs[p]
           f == x.path
<1>0. x \in Process /\ TypeOK /\ Held(x) /\ InFile(x) /\ issued \subseteq Certificate
  BY DEF IdentityInv, TypeOK
<1>1. f \in Path /\ x.next \in issued /\ UNCHANGED <<now, serverVars>>
  BY <1>0 DEF SaveCreate, SaveWrite, At, Held
<1>2. CASE SaveCreate(p)
  <2> DEFINE y == [x EXCEPT !.pc = "saving"]
  <2>1. /\ x.pc = "enrolled" /\ files[f] = NoFile /\ disk' = disk
        /\ files' = [files EXCEPT ![f] = Torn]
        /\ procs' = [procs EXCEPT ![p] = y]
    BY <1>2 DEF SaveCreate, At
  <2>2. y \in Process
    BY <1>0, FieldTypes DEF PC
  <2>3. y.pc = "saving" /\ y.next = x.next /\ y.path = f /\ y.via = x.via
        /\ y.conns = x.conns /\ y.serving = x.serving
    BY <1>0 DEF Process
  <2> HIDE DEF y
  <2>4. /\ \A q \in Proc : procs'[q] = IF q = p THEN y ELSE procs[q]
        /\ \A g \in Path : files'[g] = IF g = f THEN Torn ELSE files[g]
    BY <1>0, <1>1, <2>1 DEF TypeOK
  <2>5. TypeOK'
    <3>1. procs' \in [Proc -> Process]
      BY <1>0, <2>1, <2>2 DEF TypeOK
    <3>2. files' \in [Path -> Certificate \cup {NoFile, Torn}]
      BY <1>0, <1>1, <2>1 DEF TypeOK
    <3> QED
      BY <1>0, <1>1, <2>1, <3>1, <3>2 DEF TypeOK
  <2>6. \A q \in Proc : Held(procs[q])' /\ InFile(procs[q])'
    <3> SUFFICES ASSUME NEW q \in Proc PROVE Held(procs[q])' /\ InFile(procs[q])'
      OBVIOUS
    <3>1. CASE q = p
      BY <1>0, <1>1, <2>1, <2>3, <2>4, <3>1 DEF Held, InFile, Connecting
    <3>2. CASE q # p
      <4>1. procs'[q] = procs[q] /\ Held(procs[q]) /\ InFile(procs[q])
        BY <2>4, <3>2 DEF IdentityInv
      <4>2. Held(procs[q])'
        BY <1>1, <4>1 DEF Held, Connecting
      <4>3. Connecting(procs[q]) \/ procs[q].pc = "saving" => procs[q].path \in Path
        BY <4>1 DEF Held, Connecting
      <4>4. InFile(procs[q])'
        BY <1>1, <2>1, <2>4, <4>1, <4>3 DEF InFile, Connecting
      <4> QED
        BY <4>2, <4>4
    <3> QED
      BY <3>1, <3>2
  <2>7. SavingAlone'
    <3>1. \A q \in Proc : procs[q].pc = "saving" => procs[q].path # f
      BY <2>1 DEF IdentityInv, InFile
    <3> QED
      BY <2>3, <2>4, <3>1 DEF IdentityInv, SavingAlone, At
  <2>8. OneKeyPerDevice' /\ OpenUnused' /\ Stored'
    BY <1>1, <2>1, <2>4 DEF IdentityInv, OneKeyPerDevice, OpenUnused, Stored
  <2> QED
    BY <2>5, <2>6, <2>7, <2>8 DEF IdentityInv
<1>3. CASE SaveWrite(p)
  <2>1. /\ x.pc = "saving" /\ files[f] = Torn
        /\ files' = [files EXCEPT ![f] = x.next]
        /\ disk' = [disk EXCEPT ![f] = IF disk[f] = Torn THEN x.next ELSE disk[f]]
        /\ procs' = [procs EXCEPT ![p] = Idle]
    BY <1>0, <1>3 DEF SaveWrite, At, Exit, InFile
  <2>2. /\ \A q \in Proc : procs'[q] = IF q = p THEN Idle ELSE procs[q]
        /\ \A g \in Path : files'[g] = IF g = f THEN x.next ELSE files[g]
        /\ \A g \in Path : g # f => disk'[g] = disk[g]
        /\ disk'[f] \in {x.next, disk[f]}
    BY <1>0, <1>1, <2>1 DEF TypeOK
  <2>3. disk[f] \notin Certificate
    BY <1>1, <2>1 DEF IdentityInv, Stored
  <2>4. x.next \in Certificate
    BY <1>0, <1>1
  <2>5. TypeOK'
    <3>1. procs' \in [Proc -> Process]
      BY <1>0, <2>1, IdleType DEF TypeOK
    <3>2. files' \in [Path -> Certificate \cup {NoFile, Torn}]
      BY <1>0, <1>1, <2>1, <2>4 DEF TypeOK
    <3>3. disk' \in [Path -> Certificate \cup {NoFile, Torn}]
      BY <1>0, <1>1, <2>1, <2>4 DEF TypeOK
    <3> QED
      BY <1>0, <1>1, <3>1, <3>2, <3>3 DEF TypeOK
  <2>6. \A q \in Proc : Held(procs[q])' /\ InFile(procs[q])'
    <3> SUFFICES ASSUME NEW q \in Proc PROVE Held(procs[q])' /\ InFile(procs[q])'
      OBVIOUS
    <3>1. CASE q = p
      BY <2>2, <3>1 DEF Held, InFile, Connecting, Idle
    <3>2. CASE q # p
      <4>1. procs'[q] = procs[q] /\ Held(procs[q]) /\ InFile(procs[q])
        BY <2>2, <3>2 DEF IdentityInv
      <4>2. Held(procs[q])'
        BY <1>1, <4>1 DEF Held, Connecting
      <4>3. Connecting(procs[q]) \/ procs[q].pc = "saving" =>
                procs[q].path \in Path /\ procs[q].path # f
        BY <2>1, <3>2, <4>1 DEF Held, InFile, Connecting, IdentityInv, SavingAlone, At
      <4>4. InFile(procs[q])'
        BY <1>1, <2>2, <4>1, <4>3 DEF InFile, Connecting
      <4> QED
        BY <4>2, <4>4
    <3> QED
      BY <3>1, <3>2
  <2>7. SavingAlone'
    BY <2>2 DEF IdentityInv, SavingAlone, At, Idle
  <2>8. OneKeyPerDevice' /\ OpenUnused'
    BY <1>1 DEF IdentityInv, OneKeyPerDevice, OpenUnused
  <2>9. Stored'
    BY <1>1, <2>2, <2>3, <2>4 DEF IdentityInv, Stored
  <2> QED
    BY <2>5, <2>6, <2>7, <2>8, <2>9 DEF IdentityInv
<1> QED
  BY <1>2, <1>3

\* Storing a renewed identity.
LEMMA RenewalKeeps ==
    ASSUME IdentityInv, NEW p \in Proc, Rename(p) \/ Expose(p)
    PROVE  IdentityInv'
<1> DEFINE x == procs[p]
           f == x.path
<1>0. x \in Process /\ TypeOK /\ Held(x) /\ InFile(x) /\ issued \subseteq Certificate
  BY DEF IdentityInv, TypeOK
<1>1. /\ Connecting(x) /\ f \in Path /\ x.next \in issued /\ x.next.device = x.cert.device
      /\ x.pc \in {"answered", "renamed"} /\ UNCHANGED <<now, serverVars>>
  BY <1>0 DEF Rename, Expose, At, Held, Connecting
<1>2. files[f] \in Certificate /\ files[f].device = x.cert.device
  BY <1>0, <1>1 DEF InFile
<1>3. OneKeyPerDevice' /\ OpenUnused'
  BY <1>1 DEF IdentityInv, OneKeyPerDevice, OpenUnused
<1>4. CASE Rename(p)
  <2> DEFINE y == [x EXCEPT !.pc = "renamed"]
  <2>1. /\ x.pc = "answered" /\ disk' = disk
        /\ files' = [files EXCEPT ![f] = x.next]
        /\ procs' = [procs EXCEPT ![p] = y]
    BY <1>4 DEF Rename, At
  <2>2. y \in Process
    BY <1>0, FieldTypes DEF PC
  <2>3. y.pc = "renamed" /\ y.next = x.next /\ y.path = f /\ y.via = x.via
        /\ y.conns = x.conns /\ y.serving = x.serving /\ y.cert = x.cert
    BY <1>0 DEF Process
  <2> HIDE DEF y
  <2>4. /\ \A q \in Proc : procs'[q] = IF q = p THEN y ELSE procs[q]
        /\ \A g \in Path : files'[g] = IF g = f THEN x.next ELSE files[g]
    BY <1>0, <1>1, <2>1 DEF TypeOK
  <2>5. TypeOK'
    <3>1. procs' \in [Proc -> Process]
      BY <1>0, <2>1, <2>2 DEF TypeOK
    <3>2. files' \in [Path -> Certificate \cup {NoFile, Torn}]
      BY <1>0, <1>1, <2>1 DEF TypeOK
    <3> QED
      BY <1>0, <1>1, <2>1, <3>1, <3>2 DEF TypeOK
  <2>6. \A q \in Proc : Held(procs[q])' /\ InFile(procs[q])'
    <3> SUFFICES ASSUME NEW q \in Proc PROVE Held(procs[q])' /\ InFile(procs[q])'
      OBVIOUS
    <3>1. CASE q = p
      <4>1. Held(procs[q])'
        BY <1>0, <1>1, <2>1, <2>3, <2>4, <3>1 DEF Held, Connecting
      <4>2. InFile(procs[q])'
        BY <1>0, <1>1, <2>3, <2>4, <3>1 DEF InFile, Connecting
      <4> QED
        BY <4>1, <4>2
    <3>2. CASE q # p
      <4>1. procs'[q] = procs[q] /\ Held(procs[q]) /\ InFile(procs[q])
        BY <2>4, <3>2 DEF IdentityInv
      <4>2. Held(procs[q])'
        BY <1>1, <4>1 DEF Held, Connecting
      <4>3. Connecting(procs[q]) \/ procs[q].pc = "saving" => procs[q].path \in Path
        BY <4>1 DEF Held, Connecting
      <4>4. procs[q].pc = "saving" => procs[q].path # f
        BY <1>2, <4>1 DEF InFile
      <4>5. InFile(procs[q])'
        BY <1>0, <1>1, <1>2, <2>4, <4>1, <4>3, <4>4 DEF InFile, Connecting
      <4> QED
        BY <4>2, <4>5
    <3> QED
      BY <3>1, <3>2
  <2>7. SavingAlone'
    BY <2>3, <2>4 DEF IdentityInv, SavingAlone, At
  <2>8. Stored'
    BY <1>0, <1>1, <1>2, <2>1, <2>4 DEF IdentityInv, Stored
  <2> QED
    BY <1>3, <2>5, <2>6, <2>7, <2>8 DEF IdentityInv
<1>5. CASE Expose(p)
  <2>1. PICK busy \in SUBSET x.conns : procs' = [procs EXCEPT ![p] = Renewed(x, busy)]
    BY <1>5 DEF Expose
  <2> DEFINE y == Renewed(x, busy)
  <2>2. x.pc = "renamed" /\ files' = files /\ disk' = [disk EXCEPT ![f] = files[f]]
    BY <1>5 DEF Expose, At
  <2>3. y \in Process
    BY <1>0, ResumeType, ProcessFields
  <2>4. y.pc = "running" /\ y.path = f /\ y.via = None /\ y.cert = x.next /\ y.conns = busy
    <3>1. busy \in SUBSET Certificate
      BY <1>0, ProcessFields
    <3> QED
      BY <1>0, <3>1, RenewedFields
  <2>5. procs' = [procs EXCEPT ![p] = y]
    BY <2>1
  <2> HIDE DEF y
  <2>6. /\ \A q \in Proc : procs'[q] = IF q = p THEN y ELSE procs[q]
        /\ \A g \in Path : disk'[g] = IF g = f THEN files[g] ELSE disk[g]
    BY <1>0, <1>1, <2>2, <2>5 DEF TypeOK
  <2>7. TypeOK'
    <3>1. procs' \in [Proc -> Process]
      BY <1>0, <2>3, <2>5 DEF TypeOK
    <3>2. disk' \in [Path -> Certificate \cup {NoFile, Torn}]
      BY <1>0, <1>1, <2>2 DEF TypeOK
    <3> QED
      BY <1>0, <1>1, <2>2, <3>1, <3>2 DEF TypeOK
  <2>8. \A q \in Proc : Held(procs[q])' /\ InFile(procs[q])'
    <3> SUFFICES ASSUME NEW q \in Proc PROVE Held(procs[q])' /\ InFile(procs[q])'
      OBVIOUS
    <3>1. CASE q = p
      <4>1. \A c \in busy : c.device = x.next.device
        BY <1>0, <1>1 DEF Held
      <4>2. Held(procs[q])'
        BY <1>1, <2>4, <2>6, <3>1, <4>1 DEF Held, Connecting
      <4>3. InFile(procs[q])'
        BY <1>1, <1>2, <2>2, <2>4, <2>6, <3>1 DEF InFile, Connecting
      <4> QED
        BY <4>2, <4>3
    <3>2. CASE q # p
      <4>1. procs'[q] = procs[q] /\ Held(procs[q]) /\ InFile(procs[q])
        BY <2>6, <3>2 DEF IdentityInv
      <4> QED
        BY <1>1, <2>2, <4>1 DEF Held, InFile, Connecting
    <3> QED
      BY <3>1, <3>2
  <2>9. SavingAlone'
    BY <2>4, <2>6 DEF IdentityInv, SavingAlone, At
  <2>10. Stored'
    BY <1>1, <2>2, <2>6 DEF IdentityInv, Stored
  <2> QED
    BY <1>3, <2>7, <2>8, <2>9, <2>10 DEF IdentityInv
<1> QED
  BY <1>4, <1>5

\* The owner, the kernel, the clock and the power supply.
LEMMA WorldKeeps ==
    ASSUME IdentityInv,
           \/ \E d \in Device : Invite(d) \/ Revoke(d)
           \/ \E f \in Path : Writeback(f)
           \/ PowerLoss
           \/ Tick
    PROVE  IdentityInv'
<1>0. TypeOK /\ procs \in [Proc -> Process]
  BY DEF IdentityInv, TypeOK
<1>1. ASSUME NEW d \in Device, Invite(d) \/ Revoke(d) PROVE IdentityInv'
  <2>1. UNCHANGED <<now, leaf, issued, procs, fileVars>>
    BY <1>1 DEF Invite, Revoke
  <2>2. TypeOK'
    <3>1. devices' \in [Device -> {"absent", "active", "revoked"}]
      BY <1>0, <1>1 DEF TypeOK, Invite, Revoke
    <3>2. invitations' \in [Device -> Invitation]
      <4>1. now + InviteTTL \in Nat
        BY <1>0 DEF TypeOK
      <4> QED
        BY <1>0, <1>1, <4>1 DEF TypeOK, Invite, Revoke, Invitation
    <3> QED
      BY <1>0, <2>1, <3>1, <3>2 DEF TypeOK
  <2>3. OpenUnused'
    <3>1. \A c \in issued : c.device \in Device
      BY <1>0, CertificateFields DEF TypeOK
    <3>2. \A o \in Device : devices[o] # "absent" =>
              devices'[o] # "absent" /\ invitations'[o] = invitations[o]
      BY <1>0, <1>1 DEF TypeOK, Invite, Revoke
    <3> QED
      BY <2>1, <3>1, <3>2 DEF IdentityInv, OpenUnused
  <2> QED
    BY <2>1, <2>2, <2>3 DEF IdentityInv, OneKeyPerDevice, Held, InFile, Connecting, SavingAlone,
                            At, Stored
<1>2. ASSUME NEW f \in Path, Writeback(f) PROVE IdentityInv'
  <2>1. UNCHANGED <<now, serverVars, procs, files>> /\ disk' = [disk EXCEPT ![f] = files[f]]
    BY <1>2 DEF Writeback
  <2>2. \A g \in Path : disk'[g] = IF g = f THEN files[g] ELSE disk[g]
    BY <1>0, <2>1 DEF TypeOK
  <2>3. TypeOK'
    BY <1>0, <2>1 DEF TypeOK
  <2>4. Stored'
    BY <2>1, <2>2 DEF IdentityInv, Stored
  <2> QED
    BY <2>1, <2>3, <2>4 DEF IdentityInv, OneKeyPerDevice, OpenUnused, Held, InFile, Connecting,
                            SavingAlone, At
<1>3. CASE PowerLoss
  <2>1. UNCHANGED <<now, serverVars, disk>> /\ files' = disk /\ procs' = [p \in Proc |-> Idle]
    BY <1>3 DEF PowerLoss
  <2>2. TypeOK'
    BY <1>0, <2>1, IdleType DEF TypeOK
  <2>3. \A p \in Proc : procs'[p] = Idle
    BY <2>1
  <2>4. \A p \in Proc : Held(procs[p])' /\ InFile(procs[p])'
    BY <2>3 DEF Held, InFile, Connecting, Idle
  <2>5. SavingAlone'
    BY <2>3 DEF SavingAlone, At, Idle
  <2>6. Stored'
    BY <2>1 DEF IdentityInv, Stored
  <2> QED
    BY <2>1, <2>2, <2>4, <2>5, <2>6 DEF IdentityInv, OneKeyPerDevice, OpenUnused
<1>4. CASE Tick
  <2>1. UNCHANGED <<serverVars, fileVars>> /\ now' \in 0..MaxTime
    BY <1>0, <1>4 DEF Tick, TypeOK
  <2> DEFINE tick(x) == [x EXCEPT !.due = x.due \/ x.serving]
  <2>2. \A p \in Proc : procs'[p] = tick(procs[p])
    BY <1>4 DEF Tick
  <2>3. ASSUME NEW x \in Process
        PROVE  /\ tick(x) \in Process
               /\ tick(x).pc = x.pc /\ tick(x).path = x.path /\ tick(x).csr = x.csr
               /\ tick(x).serving = x.serving /\ tick(x).cert = x.cert /\ tick(x).next = x.next
               /\ tick(x).via = x.via /\ tick(x).conns = x.conns
    <3>1. (x.due \/ x.serving) \in BOOLEAN
      OBVIOUS
    <3> QED
      BY <3>1 DEF Process
  <2> HIDE DEF tick
  <2>4. procs' \in [Proc -> Process]
    <3>1. procs' = [p \in Proc |-> tick(procs[p])]
      BY <1>4 DEF Tick, tick
    <3> QED
      BY <1>0, <2>3, <3>1
  <2>5. TypeOK'
    BY <1>0, <2>1, <2>4 DEF TypeOK
  <2>6. \A p \in Proc : Held(procs[p])' /\ InFile(procs[p])'
    <3> SUFFICES ASSUME NEW p \in Proc PROVE Held(procs[p])' /\ InFile(procs[p])'
      OBVIOUS
    <3>1. Held(procs[p]) /\ InFile(procs[p]) /\ procs[p] \in Process
      BY <1>0 DEF IdentityInv
    <3> QED
      BY <2>1, <2>2, <2>3, <3>1 DEF Held, InFile, Connecting
  <2>7. SavingAlone'
    BY <1>0, <2>2, <2>3 DEF IdentityInv, SavingAlone, At
  <2>8. OneKeyPerDevice' /\ OpenUnused' /\ Stored'
    BY <2>1 DEF IdentityInv, OneKeyPerDevice, OpenUnused, Stored
  <2> QED
    BY <2>5, <2>6, <2>7, <2>8 DEF IdentityInv
<1> QED
  BY <1>1, <1>2, <1>3, <1>4

\* At first there are no certificates, no files and no processes.
LEMMA InitHolds == Init => IdentityInv
<1> SUFFICES ASSUME Init PROVE IdentityInv
  OBVIOUS
<1>1. TypeOK
  <2>1. procs \in [Proc -> Process]
    BY IdleType DEF Init
  <2>2. invitations \in [Device -> Invitation] /\ now \in 0..MaxTime
    BY DEF Init, Invitation
  <2> QED
    BY <2>1, <2>2 DEF Init, TypeOK
<1>2. \A p \in Proc : procs[p] = Idle
  BY DEF Init
<1>3. SavingAlone
  BY <1>2 DEF SavingAlone, At, Idle
<1> QED
  BY <1>1, <1>2, <1>3, IdleHeld DEF Init, IdentityInv, OneKeyPerDevice, OpenUnused, Stored

\* Every step keeps the invariant.
LEMMA NextKeeps == ASSUME IdentityInv, Next PROVE IdentityInv'
<1>1. ASSUME NEW p \in Proc, ProcStep(p) PROVE IdentityInv'
  <2>1. CASE \E f \in Path : Load(p, f) \/ \E d \in Device : EnrollStart(p, f, d)
    BY <2>1, EnrollKeeps, LoadKeeps
  <2> QED
    BY <1>1, <2>1, SignKeeps, SaveKeeps, RefreshKeeps, ConnectionKeeps, RenewalKeeps, DieKeeps
       DEF ProcStep
<1> QED
  BY <1>1, WorldKeeps DEF Next, Untimed

\* Signed certificates, files and processes fit each other in every reachable state.
THEOREM IdentityInvariant == Spec => []IdentityInv
<1>1. ASSUME IdentityInv, UNCHANGED vars PROVE IdentityInv'
  BY <1>1 DEF vars, IdentityInv, TypeOK, OneKeyPerDevice, OpenUnused, Held, InFile, Connecting,
              SavingAlone, At, Stored
<1>2. IdentityInv /\ [Next]_vars => IdentityInv'
  BY <1>1, NextKeeps
<1> QED
  BY <1>2, InitHolds, PTL DEF Spec

\* Tables, files and processes stay within their types (enroll, renew, Save, Refresh).
THEOREM IdentityTypes == Spec => []TypeOK
<1>1. IdentityInv => TypeOK
  BY DEF IdentityInv
<1> QED
  BY <1>1, IdentityInvariant, PTL

\* All certificates of a device, enrolled or renewed, are for one key (enroll, renew).
THEOREM OneKeyEach == Spec => []OneKeyPerDevice
<1>1. IdentityInv => OneKeyPerDevice
  BY DEF IdentityInv
<1> QED
  BY <1>1, IdentityInvariant, PTL

\* A device that is not active when the transaction runs gets no certificate (enroll, renew).
THEOREM RevokedGetNone == Spec => NoneForRevoked
<1> DEFINE A == \A c \in issued' \ issued : ActiveDevice(c.device)
<1>1. ASSUME Next PROVE A
  <2>1. ASSUME NEW p \in Proc, enroll(p) PROVE A
    BY <2>1 DEF enroll, Sign, issue
  <2>2. ASSUME NEW p \in Proc, renew(p) PROVE A
    BY <2>2 DEF renew, SignRenewal, issue
  <2>3. CASE issued' = issued
    BY <2>3
  <2>4. (\E p \in Proc : enroll(p) \/ renew(p)) \/ issued' = issued
    BY <1>1 DEF Next, Untimed, Invite, Revoke, Writeback, PowerLoss, Tick, ProcStep, Load,
                EnrollStart, SaveCreate, SaveWrite, RefreshNotDue, RefreshExpired, RefreshReuse,
                RefreshConnect, Authenticate, RenewRefused, RefreshFails, Rename, Expose,
                Forward, ConnClosed, Die
  <2> QED
    BY <2>1, <2>2, <2>3, <2>4
<1>2. [Next]_vars => [A]_vars
  BY <1>1
<1> QED
  BY <1>2, PTL DEF Spec, NoneForRevoked

\* An identity that has reached the disk stays, whole and with its device and key, whatever
\* enrolls, renews, dies or loses power (Save's O_EXCL, Refresh's Rename).
THEOREM IdentitiesSurvive == Spec => IdentitySurvives
<1> DEFINE Kept(f) == disk[f] \in Certificate =>
               /\ disk'[f] \in Certificate
               /\ disk'[f].device = disk[f].device /\ disk'[f].key = disk[f].key
<1>1. ASSUME IdentityInv, Next, NEW f \in Path PROVE Kept(f)
  <2>1. disk'[f] \in {disk[f], files[f]} \/ disk[f] = Torn
    <3>1. ASSUME NEW p \in Proc, SaveWrite(p)
          PROVE  disk'[f] = disk[f] \/ disk[f] = Torn
      BY <3>1 DEF SaveWrite, IdentityInv, TypeOK
    <3>2. ASSUME NEW p \in Proc, Expose(p) PROVE disk'[f] \in {disk[f], files[f]}
      BY <3>2 DEF Expose, IdentityInv, TypeOK
    <3>3. ASSUME NEW g \in Path, Writeback(g) PROVE disk'[f] \in {disk[f], files[f]}
      BY <3>3 DEF Writeback, IdentityInv, TypeOK
    <3>4. \/ \E p \in Proc : SaveWrite(p) \/ Expose(p)
          \/ \E g \in Path : Writeback(g)
          \/ disk' = disk
      BY <1>1 DEF Next, Untimed, Invite, Revoke, PowerLoss, Tick, ProcStep, Load, EnrollStart,
                  enroll, SaveCreate, RefreshNotDue, RefreshExpired, RefreshReuse,
                  RefreshConnect, Authenticate, renew, SignRenewal, RenewRefused, RefreshFails,
                  Rename, Forward, ConnClosed, Die
    <3> QED
      BY <3>1, <3>2, <3>3, <3>4
  <2>2. disk[f] \in Certificate =>
            /\ disk[f] \in issued /\ files[f] \in issued /\ files[f] \in Certificate
            /\ files[f].device = disk[f].device
    BY <1>1 DEF IdentityInv, Stored
  <2>3. disk[f] \in Certificate => files[f].key = disk[f].key
    BY <1>1, <2>2 DEF IdentityInv, OneKeyPerDevice
  <2> QED
    BY <2>1, <2>2, <2>3
<1>2. IdentityInv /\ [Next]_vars => [\A f \in Path : Kept(f)]_vars
  BY <1>1
<1> QED
  BY <1>2, IdentityInvariant, PTL DEF Spec, IdentitySurvives
-----------------------------------------------------------------------------
(***************************************************************************)
(* Under TimedSpec: a connector that keeps running keeps its device's      *)
(* identity valid, for every certificate lifetime and renewal window.      *)
(***************************************************************************)

\* What the invariants say of one process, with the types that arithmetic needs.
LEMMA ProcessFacts ==
    ASSUME IdentityInv, RenewalInv, NEW p \in Proc
    PROVE  /\ procs[p] \in Process /\ now \in Nat /\ procs[p].failures \in 0..RenewBefore
           /\ Held(procs[p]) /\ InFile(procs[p])
           /\ RenewsInLine(procs[p]) /\ Tried(procs[p]) /\ Fresh(procs[p])
           /\ Connecting(procs[p]) =>
                  /\ procs[p].path \in Path
                  /\ procs[p].cert \in issued /\ procs[p].cert \in Certificate
                  /\ procs[p].cert # None /\ procs[p].cert.notAfter \in Nat
                  /\ procs[p].cert.device \in Device
                  /\ files[procs[p].path].notAfter \in Nat
<1>1. /\ procs[p] \in Process /\ now \in Nat
      /\ Held(procs[p]) /\ InFile(procs[p])
      /\ RenewsInLine(procs[p]) /\ Tried(procs[p]) /\ Fresh(procs[p])
      /\ issued \subseteq Certificate
  BY DEF IdentityInv, RenewalInv, TypeOK
<1>2. Connecting(procs[p]) =>
          /\ procs[p].path \in Path /\ procs[p].cert \in issued
          /\ files[procs[p].path] \in Certificate
  BY <1>1 DEF Held, InFile, Connecting
<1> QED
  BY <1>1, <1>2, CertificateFields, ProcessFields

\* A step of one process that signs and stores nothing.
LEMMA MoveStays ==
    ASSUME IdentityInv, RenewalInv, NEW p \in Proc, NEW y,
           procs' = [procs EXCEPT ![p] = y], RenewsInLine(y), Tried(y), Fresh(y),
           UNCHANGED <<now, devices, issued, fileVars>>
    PROVE  RenewalInv'
<1>1. \A q \in Proc : procs'[q] = IF q = p THEN y ELSE procs[q]
  BY DEF IdentityInv, TypeOK
<1>2. \A q \in Proc : RenewsInLine(procs[q])' /\ Tried(procs[q])' /\ Fresh(procs[q])'
  BY <1>1 DEF RenewalInv, RenewsInLine, Tried, Fresh, Connecting, RenewalDue, ActiveDevice
<1> QED
  BY <1>2 DEF RenewalInv, Dated, LagsBriefly

\* A process that is not a connector has nothing to renew.
LEMMA OthersIdle ==
    ASSUME NEW y, ~Connecting(y), y.serving = FALSE
    PROVE  RenewsInLine(y) /\ Tried(y) /\ Fresh(y)
  BY DEF RenewsInLine, Tried, Fresh, Connecting

\* The start of `budge enroll` and of `budge connect`.
LEMMA StartStays ==
    ASSUME IdentityInv, RenewalInv, NEW p \in Proc, NEW f \in Path,
           Load(p, f) \/ \E d \in Device : EnrollStart(p, f, d)
    PROVE  RenewalInv'
<1> DEFINE x == procs[p]
<1>0. x \in Process /\ Held(x)
  BY ProcessFacts
<1>1. CASE Load(p, f)
  <2> DEFINE y == [Idle EXCEPT !.pc = "loaded", !.path = f, !.cert = files[f]]
  <2>1. procs' = [procs EXCEPT ![p] = y] /\ UNCHANGED <<now, serverVars, fileVars>>
    BY <1>1 DEF Load
  <2>2. y.pc = "loaded" /\ y.path = f /\ y.cert = files[f] /\ y.conns = {} /\ y.serving = FALSE
    BY DEF Idle
  <2> HIDE DEF y
  <2>3. files[f] \in Certificate /\ files[f].notAfter \in Nat
    BY <1>1, CertificateFields DEF Load, Holds
  <2>4. RenewsInLine(y) /\ Tried(y)
    BY <2>2 DEF RenewsInLine, Tried
  <2>5. Fresh(y)
    BY <2>2, <2>3 DEF Fresh, RenewalInv, LagsBriefly
  <2> QED
    BY <2>1, <2>4, <2>5, MoveStays
<1>3. ASSUME NEW d \in Device, EnrollStart(p, f, d) PROVE RenewalInv'
  <2>1. PICK k \in Key : procs' = [procs EXCEPT ![p].pc = "enrolling", ![p].path = f,
                                                ![p].csr = [device |-> d, key |-> k]]
    BY <1>3 DEF EnrollStart
  <2> DEFINE y == [x EXCEPT !.pc = "enrolling", !.path = f,
                            !.csr = [device |-> d, key |-> k]]
  <2>2. y.pc = "enrolling" /\ y.serving = x.serving /\ procs' = [procs EXCEPT ![p] = y]
    BY <1>0, <2>1 DEF Process
  <2> HIDE DEF y
  <2>3. ~Connecting(x) /\ x.serving = FALSE
    BY <1>0, <1>3, ProcessFields DEF EnrollStart, At, Held, Connecting
  <2>4. RenewsInLine(y) /\ Tried(y) /\ Fresh(y)
    BY <2>2, <2>3, OthersIdle DEF Connecting
  <2> QED
    BY <1>3, <2>2, <2>4, MoveStays DEF EnrollStart
<1> QED
  BY <1>1, <1>3

\* The end of either.
LEMMA DieStays == ASSUME IdentityInv, RenewalInv, NEW p \in Proc, Die(p) PROVE RenewalInv'
<1>1. procs' = [procs EXCEPT ![p] = Idle] /\ UNCHANGED <<now, serverVars, fileVars>>
  BY DEF Die, Exit
<1>2. ~Connecting(Idle) /\ Idle.serving = FALSE
  BY DEF Connecting, Idle
<1> QED
  BY <1>1, <1>2, OthersIdle, MoveStays

\* Every end of Refresh that leaves the certificate as it is. A refusal over the
\* certificate in use means that the device is revoked or that the whole window is gone; over
\* an older connection it counts as one more attempt that failed.
LEMMA RefreshStays ==
    ASSUME IdentityInv, RenewalInv, NEW p \in Proc,
           RefreshNotDue(p) \/ RefreshExpired(p) \/ RenewRefused(p) \/ RefreshFails(p)
    PROVE  RenewalInv'
<1> DEFINE x == procs[p]
<1>0. /\ x \in Process /\ now \in Nat /\ x.failures \in 0..RenewBefore
      /\ Held(x) /\ RenewsInLine(x) /\ Tried(x) /\ Fresh(x)
  BY ProcessFacts
<1>1. UNCHANGED <<now, serverVars, fileVars>>
  BY DEF RefreshNotDue, RefreshExpired, RenewRefused, RefreshFails
<1>2. Connecting(x)
  BY <1>0 DEF RefreshNotDue, RefreshExpired, RenewRefused, RefreshFails, Wakes, At, Connecting
<1>3. x.cert \in Certificate /\ x.cert # None /\ x.cert.notAfter \in Nat
  BY <1>2, ProcessFacts
<1>4. ASSUME NEW y \in {Resume(x), Settled(x), Retry(x)}, procs' = [procs EXCEPT ![p] = y],
             Tried(y)
      PROVE  RenewalInv'
  <2>1. y.pc = "running" /\ y.path = x.path /\ y.cert = x.cert /\ y.conns = x.conns
    BY <1>0, ResumeFields
  <2>2. RenewsInLine(y) /\ Fresh(y)
    BY <1>0, <1>2, <2>1 DEF RenewsInLine, Fresh, Connecting
  <2> QED
    BY <1>1, <1>4, <2>2, MoveStays
<1>5. CASE procs' = [procs EXCEPT ![p] = Idle]
  <2>1. ~Connecting(Idle) /\ Idle.serving = FALSE
    BY DEF Connecting, Idle
  <2> QED
    BY <1>1, <1>5, <2>1, OthersIdle, MoveStays
<1>6. CASE RefreshNotDue(p)
  <2> DEFINE y == Settled(x)
  <2>1. y.cert = x.cert /\ y.failures = 0
    BY <1>0 DEF Settled, Resume, Process
  <2>2. procs' = [procs EXCEPT ![p] = y] /\ ~RenewalDue(x.cert)
    BY <1>6 DEF RefreshNotDue
  <2> HIDE DEF y
  <2>3. Tried(y)
    BY <1>0, <1>3, <2>1, <2>2 DEF Tried, RenewalDue
  <2> QED
    BY <1>4, <2>2, <2>3 DEF y
<1>7. ASSUME x.serving, procs' = [procs EXCEPT ![p] = Resume(x)],
             ActiveDevice(x.cert.device) => x.cert.notAfter <= now
      PROVE  RenewalInv'
  <2> DEFINE y == Resume(x)
  <2>1. y.cert = x.cert /\ y.failures = x.failures
    BY <1>0 DEF Resume, Process
  <2>2. ActiveDevice(x.cert.device) => x.failures = RenewBefore
    BY <1>0, <1>3, <1>7 DEF Tried
  <2> HIDE DEF y
  <2>3. Tried(y)
    BY <2>1, <2>2 DEF Tried
  <2> QED
    BY <1>4, <1>7, <2>3 DEF y
<1>8. ASSUME x.serving, procs' = [procs EXCEPT ![p] = Retry(x)], x.pc # "running"
      PROVE  RenewalInv'
  <2> DEFINE y == Retry(x)
  <2>1. /\ y.cert = x.cert
        /\ y.failures = IF x.failures < RenewBefore THEN x.failures + 1 ELSE x.failures
    BY <1>0 DEF Retry, Resume, Process
  <2> HIDE DEF y
  <2>2. Tried(y)
    BY <1>0, <1>3, <1>8, <2>1 DEF Tried
  <2> QED
    BY <1>4, <1>8, <2>2 DEF y
<1>9. CASE RefreshExpired(p)
  <2>1. procs' = [procs EXCEPT ![p] = IF x.serving THEN Resume(x) ELSE Idle]
        /\ x.cert.notAfter <= now
    BY <1>0, <1>3, <1>9 DEF RefreshExpired, GiveUp
  <2> QED
    BY <1>5, <1>7, <2>1
<1>10. CASE RenewRefused(p)
  <2>1. procs' = [procs EXCEPT ![p] = IF x.serving THEN Refused(x) ELSE Idle]
        /\ x.pc \in {"asked", "authenticated"}
    BY <1>10 DEF RenewRefused, At
  <2>2. x.via # None /\ RenewalDue(x.cert)
    BY <1>0, <2>1 DEF RenewsInLine
  <2>3. CASE x.serving /\ x.via = x.cert
    <3>1. ActiveDevice(x.cert.device) => x.cert.notAfter <= now
      <4>1. \/ x.pc = "asked" /\ ~Admitted(x.via)
            \/ x.pc = "authenticated" /\ ~ActiveDevice(x.via.device)
        BY <1>10 DEF RenewRefused, At
      <4>2. CASE x.pc = "asked" /\ ~Admitted(x.via)
        BY <1>0, <1>3, <2>2, <2>3, <4>2 DEF Admitted, device
      <4>3. CASE x.pc = "authenticated" /\ ~ActiveDevice(x.via.device)
        BY <2>3, <4>3
      <4> QED
        BY <4>1, <4>2, <4>3
    <3>2. procs' = [procs EXCEPT ![p] = Resume(x)]
      BY <2>1, <2>3 DEF Refused
    <3> QED
      BY <1>7, <2>3, <3>1, <3>2
  <2>4. CASE x.serving /\ x.via # x.cert
    <3>1. procs' = [procs EXCEPT ![p] = Retry(x)] /\ x.pc # "running"
      BY <2>1, <2>2, <2>4 DEF Refused
    <3> QED
      BY <1>8, <2>4, <3>1
  <2> QED
    BY <1>5, <2>1, <2>3, <2>4
<1>11. CASE RefreshFails(p)
  <2>1. procs' = [procs EXCEPT ![p] = IF x.serving THEN Retry(x) ELSE Idle] /\ x.pc # "running"
    BY <1>11 DEF RefreshFails, At
  <2> QED
    BY <1>5, <1>8, <2>1
<1> QED
  BY <1>6, <1>9, <1>10, <1>11

\* The request of a renewal, its admission, and the connections.
LEMMA ConnectionStays ==
    ASSUME IdentityInv, RenewalInv, NEW p \in Proc,
           RefreshReuse(p) \/ RefreshConnect(p) \/ Authenticate(p) \/ Forward(p) \/ ConnClosed(p)
    PROVE  RenewalInv'
<1> DEFINE x == procs[p]
<1>0. /\ x \in Process /\ now \in Nat /\ x.failures \in 0..RenewBefore /\ TypeOK
      /\ Held(x) /\ RenewsInLine(x) /\ Tried(x) /\ Fresh(x)
  BY ProcessFacts DEF IdentityInv
<1>1. UNCHANGED <<now, devices, issued, fileVars>>
  BY DEF RefreshReuse, RefreshConnect, Authenticate, Forward, ConnClosed
<1>2. CASE RefreshReuse(p) \/ RefreshConnect(p)
  <2>1. Connecting(x) /\ RenewalDue(x.cert) /\ (x.pc = "running" => x.due)
    BY <1>2 DEF RefreshReuse, RefreshConnect, Asks, Wakes, At, Connecting
  <2>2. /\ x.conns \subseteq Certificate /\ \A c \in x.conns : c.notAfter <= x.cert.notAfter
        /\ x.cert # None /\ x.cert.notAfter \in Nat
    BY <1>0, <2>1, ProcessFacts, ProcessFields DEF RenewsInLine
  <2>3. PICK y : /\ procs' = [procs EXCEPT ![p] = y]
                 /\ y.pc = "asked" /\ y.via # None /\ y.via.notAfter <= x.cert.notAfter
                 /\ \A c \in y.conns : c.notAfter <= x.cert.notAfter
                 /\ y.cert = x.cert /\ y.path = x.path /\ y.serving = x.serving
                 /\ y.failures = x.failures
    <3>1. CASE RefreshReuse(p)
      <4>0. PICK c \in x.conns : procs' = [procs EXCEPT ![p].pc = "asked", ![p].via = c]
        BY <3>1 DEF RefreshReuse
      <4> DEFINE y == [x EXCEPT !.pc = "asked", !.via = c]
      <4>1. procs' = [procs EXCEPT ![p] = y] /\ c # None /\ c.notAfter <= x.cert.notAfter
        BY <2>2, <4>0, CertificateFields
      <4>2. /\ y.pc = "asked" /\ y.via = c /\ y.conns = x.conns
            /\ y.cert = x.cert /\ y.path = x.path /\ y.serving = x.serving
            /\ y.failures = x.failures
        BY <1>0 DEF Process
      <4> HIDE DEF y
      <4> QED
        BY <2>2, <4>1, <4>2
    <3>2. CASE RefreshConnect(p)
      <4> DEFINE y == [x EXCEPT !.pc = "asked", !.via = x.cert, !.conns = x.conns \cup {x.cert}]
      <4>1. procs' = [procs EXCEPT ![p] = y]
        BY <1>0, <3>2, LeafType DEF RefreshConnect
      <4>2. /\ y.pc = "asked" /\ y.via = x.cert /\ y.conns = x.conns \cup {x.cert}
            /\ y.cert = x.cert /\ y.path = x.path /\ y.serving = x.serving
            /\ y.failures = x.failures
        BY <1>0 DEF Process
      <4> HIDE DEF y
      <4>3. y.via.notAfter <= x.cert.notAfter /\ \A c \in y.conns : c.notAfter <= x.cert.notAfter
        BY <2>2, <4>2
      <4> QED
        BY <2>2, <4>1, <4>2, <4>3
    <3> QED
      BY <1>2, <3>1, <3>2
  <2>4. RenewsInLine(y)
    BY <2>1, <2>3 DEF RenewsInLine
  <2>5. Tried(y)
    BY <1>0, <2>1, <2>3 DEF Tried
  <2>6. Fresh(y)
    BY <1>0, <2>1, <2>3 DEF Fresh, Connecting
  <2> QED
    BY <1>1, <2>3, <2>4, <2>5, <2>6, MoveStays
<1>3. CASE Authenticate(p)
  <2> DEFINE y == [x EXCEPT !.pc = "authenticated"]
  <2>1. procs' = [procs EXCEPT ![p] = y] /\ x.pc = "asked" /\ now < x.via.notAfter
    BY <1>3 DEF Authenticate, Admitted, device, At
  <2>2. /\ y.pc = "authenticated" /\ y.via = x.via /\ y.conns = x.conns /\ y.cert = x.cert
        /\ y.path = x.path /\ y.serving = x.serving /\ y.failures = x.failures
    BY <1>0 DEF Process
  <2> HIDE DEF y
  <2>3. RenewsInLine(y)
    BY <1>0, <2>1, <2>2 DEF RenewsInLine, Connecting
  <2>4. Tried(y)
    BY <1>0, <2>1, <2>2 DEF Tried
  <2>5. Fresh(y)
    BY <1>0, <2>1, <2>2 DEF Fresh, Connecting
  <2> QED
    BY <1>1, <2>1, <2>3, <2>4, <2>5, MoveStays
<1>4. CASE Forward(p) \/ ConnClosed(p)
  <2>1. PICK S : /\ procs' = [procs EXCEPT ![p] = [x EXCEPT !.conns = S]]
                 /\ S \subseteq x.conns \cup {x.cert}
                 /\ Connecting(x)
    <3>1. CASE Forward(p)
      BY <1>0, <3>1 DEF Forward, Held
    <3>2. CASE ConnClosed(p)
      <4>1. PICK c \in x.conns : procs' = [procs EXCEPT ![p].conns = @ \ {c}]
        BY <3>2 DEF ConnClosed
      <4> QED
        BY <1>0, <4>1 DEF Held
    <3> QED
      BY <1>4, <3>1, <3>2
  <2> DEFINE y == [x EXCEPT !.conns = S]
  <2>2. /\ y.pc = x.pc /\ y.via = x.via /\ y.path = x.path /\ y.cert = x.cert
        /\ y.conns = S /\ y.next = x.next /\ y.serving = x.serving
        /\ y.failures = x.failures /\ y.due = x.due
    BY <1>0 DEF Process
  <2> HIDE DEF y
  <2>3. RenewsInLine(y)
    <3>1. x.cert.notAfter \in Nat
      BY <2>1, ProcessFacts
    <3>2. \A c \in S : c.notAfter <= x.cert.notAfter
      BY <1>0, <2>1, <3>1 DEF RenewsInLine
    <3> QED
      BY <1>0, <2>2, <3>2 DEF RenewsInLine
  <2>4. Tried(y)
    BY <1>0, <2>2 DEF Tried
  <2>5. Fresh(y)
    BY <1>0, <2>2 DEF Fresh, Connecting
  <2> QED
    BY <1>1, <2>1, <2>3, <2>4, <2>5, MoveStays DEF y
<1> QED
  BY <1>2, <1>3, <1>4

\* Signing: the new certificate is the one that lasts longest.
LEMMA SignStays ==
    ASSUME IdentityInv, RenewalInv, NEW p \in Proc, enroll(p) \/ renew(p)
    PROVE  RenewalInv'
<1> DEFINE x == procs[p]
<1>0. /\ x \in Process /\ now \in Nat /\ TypeOK /\ x.failures \in 0..RenewBefore
      /\ Held(x) /\ RenewsInLine(x) /\ Tried(x) /\ Fresh(x)
  BY ProcessFacts DEF IdentityInv
<1> DEFINE Signed(c, pc) ==
               /\ procs' = [procs EXCEPT ![p] = [x EXCEPT !.pc = pc, !.next = c]]
               /\ issued' = issued \cup {c}
               /\ c.notAfter = now + CertLife
               /\ pc = "answered" => x.pc = "authenticated"
               /\ pc = "enrolled" => x.pc = "enrolling"
<1>9. \E c : Signed(c, "enrolled") \/ Signed(c, "answered")
  <2>1. CASE enroll(p)
    <3> DEFINE c == issue(x.csr.device, x.csr.key)
    <3>1. x.pc = "enrolling" /\ c.notAfter = now + CertLife
      BY <2>1 DEF enroll, At, issue
    <3>2. procs' = [procs EXCEPT ![p] = [x EXCEPT !.pc = "enrolled", !.next = c]]
          /\ issued' = issued \cup {c}
      BY <2>1 DEF enroll, Sign
    <3> HIDE DEF c
    <3> QED
      BY <3>1, <3>2
  <2>2. CASE renew(p)
    <3> DEFINE c == issue(x.via.device, x.cert.key)
    <3>1. x.pc = "authenticated" /\ c.notAfter = now + CertLife
      BY <2>2 DEF renew, At, issue
    <3>2. procs' = [procs EXCEPT ![p] = [x EXCEPT !.pc = "answered", !.next = c]]
          /\ issued' = issued \cup {c}
      BY <2>2 DEF renew, SignRenewal
    <3> HIDE DEF c
    <3> QED
      BY <3>1, <3>2
  <2> QED
    BY <2>1, <2>2
<1>1. PICK c : \E pc \in {"enrolled", "answered"} : Signed(c, pc)
  BY <1>9
<1>10. PICK pc \in {"enrolled", "answered"} : Signed(c, pc)
  BY <1>1
<1>2. UNCHANGED <<now, devices, fileVars>>
  BY DEF enroll, renew, SignRenewal
<1> DEFINE y == [x EXCEPT !.pc = pc, !.next = c]
<1>3. /\ y.pc = pc /\ y.next = c /\ y.path = x.path /\ y.cert = x.cert /\ y.via = x.via
      /\ y.conns = x.conns /\ y.serving = x.serving /\ y.failures = x.failures
  BY <1>0 DEF Process
<1>4. procs' = [procs EXCEPT ![p] = y]
  BY <1>10
<1> HIDE DEF y
<1>5. \A q \in Proc : procs'[q] = IF q = p THEN y ELSE procs[q]
  BY <1>4 DEF IdentityInv, TypeOK
<1>6. Dated'
  BY <1>0, <1>10, <1>2 DEF RenewalInv, Dated
<1>7. RenewsInLine(y) /\ Tried(y) /\ Fresh(y)
  <2>1. CASE pc = "enrolled"
    <3>1. ~Connecting(y) /\ y.serving = FALSE
      BY <1>0, <1>10, <1>3, <2>1, ProcessFields DEF Held, Connecting
    <3> QED
      BY <3>1, OthersIdle
  <2>2. CASE pc = "answered"
    <3>1. x.pc = "authenticated"
      BY <1>10, <2>2
    <3>2. RenewsInLine(y)
      BY <1>0, <1>10, <1>3, <2>2, <3>1 DEF RenewsInLine, Connecting
    <3>3. Tried(y)
      BY <1>0, <1>3, <2>2, <3>1 DEF Tried
    <3>4. Fresh(y)
      BY <1>0, <1>3, <2>2, <3>1 DEF Fresh, Connecting
    <3> QED
      BY <3>2, <3>3, <3>4
  <2> QED
    BY <2>1, <2>2
<1>8. \A q \in Proc : RenewsInLine(procs[q])' /\ Tried(procs[q])' /\ Fresh(procs[q])'
  BY <1>2, <1>5, <1>7 DEF RenewalInv, RenewsInLine, Tried, Fresh, Connecting, RenewalDue,
                          ActiveDevice
<1> QED
  BY <1>2, <1>6, <1>8 DEF RenewalInv, LagsBriefly

\* Saving a new identity concerns no connector: none has its file open.
LEMMA SaveStays ==
    ASSUME IdentityInv, RenewalInv, NEW p \in Proc, SaveCreate(p) \/ SaveWrite(p)
    PROVE  RenewalInv'
<1> DEFINE x == procs[p]
           f == x.path
<1>0. x \in Process /\ TypeOK /\ Held(x) /\ InFile(x)
  BY DEF IdentityInv, TypeOK
<1>1. /\ f \in Path /\ files[f] \notin Certificate /\ ~Connecting(x) /\ x.serving = FALSE
      /\ UNCHANGED <<now, serverVars>>
  BY <1>0, ProcessFields DEF SaveCreate, SaveWrite, At, Held, InFile, Connecting
<1>2. disk[f] \notin Certificate
  BY <1>1 DEF IdentityInv, Stored
<1>3. /\ \A g \in Path : g # f => files'[g] = files[g] /\ disk'[g] = disk[g]
      /\ disk'[f] \in {disk[f], files'[f]}
      /\ \E y : procs' = [procs EXCEPT ![p] = y] /\ ~Connecting(y) /\ y.serving = FALSE
  <2>1. CASE SaveCreate(p)
    <3> DEFINE y == [x EXCEPT !.pc = "saving"]
    <3>1. procs' = [procs EXCEPT ![p] = y] /\ disk' = disk /\ files' = [files EXCEPT ![f] = Torn]
      BY <2>1 DEF SaveCreate
    <3>2. ~Connecting(y) /\ y.serving = FALSE
      BY <1>0, <1>1 DEF Connecting, Process
    <3> QED
      BY <1>0, <1>1, <3>1, <3>2 DEF TypeOK
  <2>2. CASE SaveWrite(p)
    <3>1. procs' = [procs EXCEPT ![p] = Idle] /\ files' = [files EXCEPT ![f] = x.next]
          /\ disk' = [disk EXCEPT ![f] = IF disk[f] = Torn THEN x.next ELSE disk[f]]
      BY <2>2 DEF SaveWrite, Exit
    <3>2. ~Connecting(Idle) /\ Idle.serving = FALSE
      BY DEF Connecting, Idle
    <3> QED
      BY <1>0, <1>1, <3>1, <3>2 DEF TypeOK
  <2> QED
    BY <2>1, <2>2
<1>4. PICK y : procs' = [procs EXCEPT ![p] = y] /\ ~Connecting(y) /\ y.serving = FALSE
  BY <1>3
<1>5. \A q \in Proc : procs'[q] = IF q = p THEN y ELSE procs[q]
  BY <1>0, <1>4 DEF TypeOK
<1>6. \A q \in Proc : RenewsInLine(procs[q])' /\ Tried(procs[q])' /\ Fresh(procs[q])'
  <2> SUFFICES ASSUME NEW q \in Proc
               PROVE  RenewsInLine(procs[q])' /\ Tried(procs[q])' /\ Fresh(procs[q])'
    OBVIOUS
  <2>1. CASE q = p
    BY <1>4, <1>5, <2>1 DEF RenewsInLine, Tried, Fresh, Connecting
  <2>2. CASE q # p
    <3>1. procs'[q] = procs[q]
      BY <1>5, <2>2
    <3>2. RenewsInLine(procs[q]) /\ Tried(procs[q]) /\ Fresh(procs[q])
      BY ProcessFacts
    <3>3. Connecting(procs[q]) => procs[q].path \in Path /\ procs[q].path # f
      BY <1>1 DEF IdentityInv, Held, InFile, Connecting
    <3>4. RenewsInLine(procs[q])' /\ Tried(procs[q])'
      BY <1>1, <3>1, <3>2 DEF RenewsInLine, Tried, Connecting, RenewalDue, ActiveDevice
    <3>5. Fresh(procs[q])'
      BY <1>1, <1>3, <3>1, <3>2, <3>3 DEF Fresh, Connecting
    <3> QED
      BY <3>4, <3>5
  <2> QED
    BY <2>1, <2>2
<1>7. LagsBriefly'
  BY <1>1, <1>2, <1>3 DEF RenewalInv, LagsBriefly
<1> QED
  BY <1>1, <1>6, <1>7 DEF RenewalInv, Dated

\* Replacing the identity file: the old one was still valid.
LEMMA RenameStays ==
    ASSUME IdentityInv, RenewalInv, NEW p \in Proc, Rename(p)
    PROVE  RenewalInv'
<1> DEFINE x == procs[p]
           f == x.path
           y == [x EXCEPT !.pc = "renamed"]
<1>0. /\ x \in Process /\ now \in Nat /\ TypeOK /\ x.failures \in 0..RenewBefore
      /\ Held(x) /\ RenewsInLine(x) /\ Tried(x) /\ Fresh(x)
  BY ProcessFacts DEF IdentityInv
<1>1. /\ x.pc = "answered" /\ UNCHANGED <<now, serverVars, disk>>
      /\ files' = [files EXCEPT ![f] = x.next] /\ procs' = [procs EXCEPT ![p] = y]
  BY DEF Rename, At
<1>2. /\ Connecting(x) /\ f \in Path /\ x.cert.notAfter \in Nat /\ files[f].notAfter \in Nat
      /\ x.next \in issued /\ x.next.notAfter = now + CertLife /\ now < x.cert.notAfter
  <2>1. /\ Connecting(x) /\ x.next \in issued /\ x.next.notAfter = now + CertLife
        /\ x.via # None /\ now < x.via.notAfter /\ x.via.notAfter <= x.cert.notAfter
    BY <1>0, <1>1 DEF Held, RenewsInLine, Connecting
  <2>2. x.via.notAfter \in Nat
    BY <1>0, <2>1, ProcessFields, CertificateFields
  <2> QED
    BY <1>0, <2>1, <2>2, ProcessFacts
<1>3. now < files[f].notAfter
  BY <1>0, <1>2 DEF Fresh
<1>4. /\ y.pc = "renamed" /\ y.next = x.next /\ y.path = f /\ y.via = x.via
      /\ y.conns = x.conns /\ y.serving = x.serving /\ y.cert = x.cert
      /\ y.failures = x.failures
  BY <1>0 DEF Process
<1> HIDE DEF y
<1>5. /\ \A q \in Proc : procs'[q] = IF q = p THEN y ELSE procs[q]
      /\ \A g \in Path : files'[g] = IF g = f THEN x.next ELSE files[g]
  BY <1>0, <1>1, <1>2 DEF TypeOK
<1>6. ASSUME NEW q \in Proc PROVE RenewsInLine(procs[q])' /\ Tried(procs[q])' /\ Fresh(procs[q])'
  <2>0. RenewsInLine(procs[q]) /\ Tried(procs[q]) /\ Fresh(procs[q])
    BY ProcessFacts
  <2>1. Connecting(procs[q]) =>
            procs[q].path \in Path /\ procs[q].cert.notAfter <= now + CertLife
    BY ProcessFacts DEF RenewalInv, Dated
  <2>2. CASE q = p
    <3>1. RenewsInLine(procs[q])'
      BY <1>0, <1>1, <1>2, <1>4, <1>5, <2>2 DEF RenewsInLine, Connecting, RenewalDue
    <3>2. Tried(procs[q])'
      BY <1>0, <1>1, <1>4, <1>5, <2>2 DEF Tried, ActiveDevice
    <3>3. Fresh(procs[q])'
      BY <1>0, <1>1, <1>2, <1>4, <1>5, <2>1, <2>2 DEF Fresh, Connecting
    <3> QED
      BY <3>1, <3>2, <3>3
  <2>3. CASE q # p
    <3>1. procs'[q] = procs[q]
      BY <1>5, <2>3
    <3>2. RenewsInLine(procs[q])' /\ Tried(procs[q])'
      BY <1>1, <2>0, <3>1 DEF RenewsInLine, Tried, Connecting, RenewalDue, ActiveDevice
    <3>3. Fresh(procs[q])'
      BY <1>0, <1>1, <1>2, <1>5, <2>0, <2>1, <3>1 DEF Fresh, Connecting
    <3> QED
      BY <3>2, <3>3
  <2> QED
    BY <2>2, <2>3
<1>7. LagsBriefly'
  BY <1>1, <1>3, <1>5 DEF RenewalInv, LagsBriefly
<1> QED
  BY <1>1, <1>6, <1>7 DEF RenewalInv, Dated

\* Exposing the renewed certificate: its window is a whole lifetime away.
LEMMA ExposeStays ==
    ASSUME IdentityInv, RenewalInv, NEW p \in Proc, Expose(p)
    PROVE  RenewalInv'
<1> DEFINE x == procs[p]
           f == x.path
<1>0. /\ x \in Process /\ now \in Nat /\ TypeOK
      /\ Held(x) /\ RenewsInLine(x) /\ Tried(x) /\ Fresh(x)
  BY ProcessFacts DEF IdentityInv
<1>1. PICK busy \in SUBSET x.conns : procs' = [procs EXCEPT ![p] = Renewed(x, busy)]
  BY DEF Expose
<1>2. x.pc = "renamed" /\ UNCHANGED <<now, serverVars, files>>
      /\ disk' = [disk EXCEPT ![f] = files[f]]
  BY DEF Expose, At
<1>3. /\ f \in Path /\ x.next.notAfter = now + CertLife
      /\ now + CertLife <= files[f].notAfter
  BY <1>0, <1>2 DEF Held, RenewsInLine, Fresh, Connecting
<1> DEFINE y == Renewed(x, busy)
<1>4. /\ y.pc = "running" /\ y.path = f /\ y.cert = x.next /\ y.conns = busy
      /\ y.failures = 0 /\ y.due = FALSE /\ y.serving = TRUE
  <2>1. busy \in SUBSET Certificate
    BY <1>0, ProcessFields
  <2> QED
    BY <1>0, <2>1, RenewedFields
<1>5. procs' = [procs EXCEPT ![p] = y]
  BY <1>1
<1> HIDE DEF y
<1>6. /\ \A q \in Proc : procs'[q] = IF q = p THEN y ELSE procs[q]
      /\ \A g \in Path : disk'[g] = IF g = f THEN files[g] ELSE disk[g]
  BY <1>0, <1>2, <1>3, <1>5 DEF TypeOK
<1>7. ASSUME NEW q \in Proc PROVE RenewsInLine(procs[q])' /\ Tried(procs[q])' /\ Fresh(procs[q])'
  <2>1. CASE q = p
    <3>1. ~RenewalDue(x.next)
      BY <1>0, <1>3 DEF RenewalDue
    <3>2. RenewsInLine(procs[q])'
      <4>1. /\ x.cert.notAfter \in Nat /\ x.cert.notAfter <= now + CertLife
            /\ x.conns \subseteq Certificate
        BY <1>0, <1>2, ProcessFacts, ProcessFields DEF Connecting, RenewalInv, Dated
      <4>2. \A c \in busy : c.notAfter <= x.next.notAfter
        <5> SUFFICES ASSUME NEW c \in busy PROVE c.notAfter <= x.next.notAfter
          OBVIOUS
        <5>1. c.notAfter \in Nat /\ c.notAfter <= x.cert.notAfter
          BY <1>0, <1>2, <4>1, CertificateFields DEF RenewsInLine, Connecting
        <5> QED
          BY <1>0, <1>3, <4>1, <5>1
      <4> QED
        BY <1>4, <1>6, <2>1, <4>2 DEF RenewsInLine
    <3>3. Tried(procs[q])'
      BY <1>0, <1>2, <1>3, <1>4, <1>6, <2>1 DEF Tried
    <3>4. Fresh(procs[q])'
      BY <1>0, <1>2, <1>3, <1>4, <1>6, <2>1 DEF Fresh
    <3> QED
      BY <3>2, <3>3, <3>4
  <2>2. CASE q # p
    <3>1. procs'[q] = procs[q] /\ RenewsInLine(procs[q]) /\ Tried(procs[q]) /\ Fresh(procs[q])
      BY <1>6, <2>2, ProcessFacts
    <3>2. Connecting(procs[q]) => procs[q].path \in Path
      BY ProcessFacts
    <3>3. RenewsInLine(procs[q])' /\ Tried(procs[q])'
      BY <1>2, <3>1 DEF RenewsInLine, Tried, Connecting, RenewalDue, ActiveDevice
    <3>4. Fresh(procs[q])'
      BY <1>2, <1>6, <3>1, <3>2 DEF Fresh, Connecting
    <3> QED
      BY <3>3, <3>4
  <2> QED
    BY <2>1, <2>2
<1>8. LagsBriefly'
  BY <1>2, <1>6 DEF RenewalInv, LagsBriefly
<1> QED
  BY <1>2, <1>7, <1>8 DEF RenewalInv, Dated

\* The owner, the kernel and the power supply.
LEMMA WorldStays ==
    ASSUME IdentityInv, RenewalInv,
           \/ \E d \in Device : Invite(d) \/ Revoke(d)
           \/ \E f \in Path : Writeback(f)
           \/ PowerLoss
    PROVE  RenewalInv'
<1>0. TypeOK
  BY DEF IdentityInv
<1>1. ASSUME NEW d \in Device, Invite(d) \/ Revoke(d) PROVE RenewalInv'
  <2>1. UNCHANGED <<now, issued, procs, fileVars>>
    BY <1>1 DEF Invite, Revoke
  <2>2. \A o \in Device : devices[o] # "absent" /\ devices'[o] = "active" => devices[o] = "active"
    BY <1>0, <1>1 DEF TypeOK, Invite, Revoke
  <2>3. ASSUME NEW p \in Proc PROVE RenewsInLine(procs[p])' /\ Tried(procs[p])' /\ Fresh(procs[p])'
    <3>1. RenewsInLine(procs[p]) /\ Tried(procs[p]) /\ Fresh(procs[p]) /\ Held(procs[p])
      BY ProcessFacts
    <3>2. procs[p].serving => procs[p].cert.device \in Device
              /\ devices[procs[p].cert.device] # "absent"
      BY <3>1, ProcessFacts DEF Held, IdentityInv, OpenUnused
    <3>3. Tried(procs[p])'
      BY <2>1, <2>2, <3>1, <3>2 DEF Tried, ActiveDevice
    <3> QED
      BY <2>1, <3>1, <3>3 DEF RenewsInLine, Fresh, Connecting, RenewalDue
  <2> QED
    BY <2>1, <2>3 DEF RenewalInv, Dated, LagsBriefly
<1>2. ASSUME NEW f \in Path, Writeback(f) PROVE RenewalInv'
  <2>1. UNCHANGED <<now, serverVars, procs, files>>
        /\ \A g \in Path : disk'[g] = IF g = f THEN files[g] ELSE disk[g]
    BY <1>0, <1>2 DEF Writeback, TypeOK
  <2>2. ASSUME NEW p \in Proc PROVE RenewsInLine(procs[p])' /\ Tried(procs[p])' /\ Fresh(procs[p])'
    <3>1. RenewsInLine(procs[p]) /\ Tried(procs[p]) /\ Fresh(procs[p])
          /\ (Connecting(procs[p]) => procs[p].path \in Path)
      BY ProcessFacts
    <3>2. Fresh(procs[p])'
      BY <2>1, <3>1 DEF Fresh, Connecting
    <3> QED
      BY <2>1, <3>1, <3>2 DEF RenewsInLine, Tried, Connecting, RenewalDue, ActiveDevice
  <2> QED
    BY <2>1, <2>2 DEF RenewalInv, Dated, LagsBriefly
<1>3. CASE PowerLoss
  <2>1. UNCHANGED <<now, serverVars, disk>> /\ files' = disk /\ \A p \in Proc : procs'[p] = Idle
    BY <1>3 DEF PowerLoss
  <2>2. \A p \in Proc : RenewsInLine(procs[p])' /\ Tried(procs[p])' /\ Fresh(procs[p])'
    BY <2>1 DEF RenewsInLine, Tried, Fresh, Connecting, Idle
  <2> QED
    BY <2>1, <2>2 DEF RenewalInv, Dated, LagsBriefly
<1> QED
  BY <1>1, <1>2, <1>3

\* An hour passes: every refresh has ended, so each connector's window is one attempt shorter.
LEMMA TickStays ==
    ASSUME IdentityInv, RenewalInv, Punctual, Tick PROVE RenewalInv'
<1>0. TypeOK
  BY DEF IdentityInv
<1>1. now \in Nat /\ now' = now + 1 /\ UNCHANGED <<serverVars, fileVars>> /\ disk = files
  BY <1>0 DEF TypeOK, Tick, Punctual
<1>2. ASSUME NEW p \in Proc PROVE RenewsInLine(procs[p])' /\ Tried(procs[p])' /\ Fresh(procs[p])'
  <2> DEFINE x == procs[p]
             y == [x EXCEPT !.due = x.due \/ x.serving]
  <2>1. /\ x \in Process /\ x.failures \in 0..RenewBefore
        /\ Held(x) /\ RenewsInLine(x) /\ Tried(x) /\ Fresh(x)
        /\ (Connecting(x) => x.path \in Path /\ x.cert.notAfter \in Nat)
    BY ProcessFacts
  <2>2. x.pc \in {"idle", "running"} /\ ~x.due
    BY DEF Punctual, At
  <2>3. procs'[p] = y
    BY DEF Tick
  <2>4. /\ y.pc = x.pc /\ y.path = x.path /\ y.cert = x.cert /\ y.conns = x.conns
        /\ y.serving = x.serving /\ y.failures = x.failures /\ (x.serving => y.due)
    BY <2>1 DEF Process
  <2> HIDE DEF y
  <2>5. x.serving => Connecting(x) /\ x.pc = "running"
    BY <2>1, <2>2 DEF Held, Connecting
  <2>6. RenewsInLine(procs[p])'
    BY <2>1, <2>2, <2>3, <2>4 DEF RenewsInLine, Connecting
  <2>7. Tried(procs[p])'
    BY <1>1, <2>1, <2>2, <2>3, <2>4, <2>5 DEF Tried, ActiveDevice
  <2>8. Fresh(procs[p])'
    BY <1>1, <2>1, <2>2, <2>3, <2>4 DEF Fresh, Connecting
  <2> QED
    BY <2>6, <2>7, <2>8
<1>3. Dated'
  <2>1. \A c \in issued : c.notAfter \in Nat
    BY <1>0, CertificateFields DEF TypeOK
  <2> QED
    BY <1>1, <2>1 DEF RenewalInv, Dated
<1>4. LagsBriefly'
  BY <1>1 DEF LagsBriefly
<1> QED
  BY <1>2, <1>3, <1>4 DEF RenewalInv

\* Both invariants hold of every timed behaviour: renewals go out over the certificate in use
\* or an earlier one that is still open, and the failures counted make up for the hours of the
\* window that are gone (Refresh, renew, device).
THEOREM RenewalInvariant == TimedSpec => [](IdentityInv /\ RenewalInv)
<1>1. Init => IdentityInv /\ RenewalInv
  <2>1. ASSUME Init PROVE RenewalInv
    <3>1. \A p \in Proc : procs[p] = Idle
      BY <2>1 DEF Init
    <3>2. \A p \in Proc : RenewsInLine(procs[p]) /\ Tried(procs[p]) /\ Fresh(procs[p])
      BY <3>1 DEF RenewsInLine, Tried, Fresh, Connecting, Idle
    <3> QED
      BY <2>1, <3>2 DEF Init, RenewalInv, Dated, LagsBriefly
  <2> QED
    BY <2>1, InitHolds
<1>2. ASSUME IdentityInv, RenewalInv, TimedNext PROVE IdentityInv' /\ RenewalInv'
  <2>1. IdentityInv'
    BY <1>2, NextKeeps DEF TimedNext, Next
  <2>2. ASSUME NEW p \in Proc, ProcStep(p) PROVE RenewalInv'
    <3>1. CASE \E f \in Path : Load(p, f) \/ \E d \in Device : EnrollStart(p, f, d)
      BY <1>2, <3>1, StartStays
    <3> QED
      BY <1>2, <2>2, <3>1, DieStays, RefreshStays, ConnectionStays, SignStays, SaveStays,
         RenameStays, ExposeStays DEF ProcStep
  <2> QED
    BY <1>2, <2>1, <2>2, WorldStays, TickStays DEF TimedNext, Untimed
<1>3. ASSUME IdentityInv, RenewalInv, UNCHANGED vars PROVE IdentityInv' /\ RenewalInv'
  <2>1. IdentityInv'
    BY <1>3 DEF vars, IdentityInv, TypeOK, OneKeyPerDevice, OpenUnused, Held, InFile,
                Connecting, SavingAlone, At, Stored
  <2>2. RenewalInv'
    BY <1>3 DEF vars, RenewalInv, Dated, RenewsInLine, Tried, Fresh, LagsBriefly, Connecting,
                RenewalDue, ActiveDevice
  <2> QED
    BY <2>1, <2>2
<1> QED
  BY <1>1, <1>2, <1>3, PTL DEF TimedSpec

\* The certificate a running connector presents lapses only after RenewBefore attempts in a row
\* were lost or went out on a connection older than it, or when its device is revoked: however
\* long connections stay open, whatever the lifetimes and however many connectors and power
\* losses there are (Refresh, renew, device, currentCertificate).
THEOREM NoConnectorLapses == TimedSpec => []NoLapse
<1>1. ASSUME IdentityInv, RenewalInv PROVE NoLapse
  <2> SUFFICES ASSUME NEW p \in Proc, procs[p].serving, Lapsed(procs[p].cert)
               PROVE  procs[p].failures = RenewBefore
    BY DEF NoLapse
  <2>1. /\ Tried(procs[p]) /\ now \in Nat /\ procs[p].failures \in 0..RenewBefore
        /\ procs[p].cert.notAfter \in Nat
    BY <1>1, ProcessFacts DEF Held
  <2> QED
    BY <2>1 DEF Tried, Lapsed
<1> QED
  BY <1>1, RenewalInvariant, PTL

\* The same of the identity file that a restart, or a start after a power loss, would load
\* (Refresh's Rename and the directory's Sync before the swap).
THEOREM FilesOutlive == TimedSpec => []FileOutlives
<1>1. ASSUME IdentityInv, RenewalInv PROVE FileOutlives
  <2> DEFINE D(p) == disk[procs[p].path]
  <2> SUFFICES ASSUME NEW p \in Proc, procs[p].serving, D(p) \in Certificate, Lapsed(D(p))
               PROVE  procs[p].failures = RenewBefore
    BY DEF FileOutlives
  <2>1. /\ Tried(procs[p]) /\ Fresh(procs[p]) /\ InFile(procs[p]) /\ Connecting(procs[p])
        /\ now \in Nat /\ procs[p].failures \in 0..RenewBefore
        /\ procs[p].cert.notAfter \in Nat /\ procs[p].path \in Path
    BY <1>1, ProcessFacts DEF Held
  <2>2. D(p).notAfter \in Nat
    BY CertificateFields
  <2>3. D(p).device = procs[p].cert.device
    BY <1>1, <2>1 DEF IdentityInv, Stored, InFile
  <2>4. procs[p].cert.notAfter <= D(p).notAfter
    BY <2>1, <2>2 DEF Fresh, Lapsed
  <2> HIDE DEF D
  <2> QED
    BY <2>1, <2>2, <2>3, <2>4 DEF Tried, Lapsed
<1> QED
  BY <1>1, RenewalInvariant, PTL
=============================================================================
