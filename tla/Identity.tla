------------------------------ MODULE Identity ------------------------------
(***************************************************************************)
(* A device's identity, from the invitation to the renewed certificate.    *)
(*                                                                         *)
(* On the server: the devices and invitations tables, the certificates     *)
(* signed so far and the server's own leaf. On the device: identity files  *)
(* and the `budge enroll` and `budge connect` processes that write them,   *)
(* several of which may run at once on the same file. A request may be     *)
(* refused, its answer may be lost, a process may die at any point and the *)
(* machine may lose power, which loses what was not yet on the disk.       *)
(*                                                                         *)
(* A certificate record stands for the certificate with its private key:   *)
(* the file and the process always hold the two together. Time is counted  *)
(* in periods of the connector's renewal ticker (one hour).                *)
(***************************************************************************)
EXTENDS Naturals

CONSTANTS Device, Path, Proc,
          Key,            \* the key pairs `enroll` may generate
          None,           \* nothing in hand
          NoFile, Torn,   \* no file under this name; a file cut off while written
          MaxTime,        \* bound on the clock
          CertLife,       \* 30 days, for device and server certificates
          RenewBefore,    \* the final seven days
          InviteTTL       \* five minutes

VARIABLES now,
          leaf,           \* the server leaf's NotAfter
          devices, invitations,
          issued,         \* every device certificate ever signed
          procs,          \* the enroll and connect processes of the device
          files,          \* what a process reads under each name
          disk            \* what would survive a loss of power

serverVars == <<leaf, devices, invitations, issued>>
fileVars == <<files, disk>>
vars == <<now, serverVars, procs, fileVars>>

Certificate == [device : Device, key : Key, notAfter : Nat]

Invitation == [state : {"none", "open", "used"}, expires : Nat]

\* What `enroll` sends: the invitation's secret and a CSR.
Csr == [device : Device, key : Key]

\* enrolling: invitation sent; enrolled: certificate received; saving: file created
\* loaded: connect before its first Refresh; running: between two ticks
\* asked: renewal sent; authenticated: past device(); answered: certificate verified;
\* renamed: the identity file replaced, its directory not yet synced
PC == {"idle", "enrolling", "enrolled", "saving", "loaded", "running",
       "asked", "authenticated", "answered", "renamed"}

\* serving: past the first Refresh. cert is what new handshakes present, next what was
\* received; conns are the certificates of open connections, via that of the connection a
\* renewal went out on. due: the ticker has fired; failures: attempts in a row that were lost
\* to the network, to storage or to a connection older than the certificate in use.
Process ==
    [pc : PC, path : Path \cup {None}, csr : Csr \cup {None}, serving : BOOLEAN,
     cert : Certificate \cup {None}, next : Certificate \cup {None},
     via : Certificate \cup {None}, conns : SUBSET Certificate,
     due : BOOLEAN, failures : 0..RenewBefore]

ASSUME IdentityAssumption ==
    /\ MaxTime \in Nat /\ InviteTTL \in Nat
    /\ CertLife \in Nat /\ RenewBefore \in Nat \ {0} /\ RenewBefore < CertLife
    /\ None \notin Certificate \cup Csr \cup Path
    /\ NoFile \notin Certificate /\ Torn \notin Certificate /\ NoFile # Torn

TypeOK ==
    /\ now \in 0..MaxTime
    /\ leaf \in Nat
    /\ devices \in [Device -> {"absent", "active", "revoked"}]
    /\ invitations \in [Device -> Invitation]
    /\ issued \in SUBSET Certificate
    /\ procs \in [Proc -> Process]
    /\ files \in [Path -> Certificate \cup {NoFile, Torn}]
    /\ disk \in [Path -> Certificate \cup {NoFile, Torn}]

\* A process that has not started, or has ended: what it held is gone.
Idle ==
    [pc |-> "idle", path |-> None, csr |-> None, serving |-> FALSE, cert |-> None,
     next |-> None, via |-> None, conns |-> {}, due |-> FALSE, failures |-> 0]

Init ==
    /\ now = 0
    /\ leaf = CertLife    \* initTLS at the first start
    /\ devices = [d \in Device |-> "absent"]
    /\ invitations = [d \in Device |-> [state |-> "none", expires |-> 0]]
    /\ issued = {}
    /\ procs = [p \in Proc |-> Idle]
    /\ files = [f \in Path |-> NoFile]
    /\ disk = [f \in Path |-> NoFile]
-----------------------------------------------------------------------------
At(p, S) == procs[p].pc \in S

Exit(p) == procs' = [procs EXCEPT ![p] = Idle]

Holds(f) == files[f] \in Certificate

ActiveDevice(d) == devices[d] = "active"

\* issue: the server sets device and dates, the CSR brings the key.
issue(d, k) == [device |-> d, key |-> k, notAfter |-> now + CertLife]

RenewalDue(c) == c.notAfter <= now + RenewBefore

\* currentCertificate that keeps the leaf it had when the server started.
startupCertificate == leaf

\* currentCertificate: a leaf in its final days is replaced before it is offered. The
\* stored copy changes with it, so a restart (initTLS) finds the same leaf.
currentCertificate == IF RenewalDue([notAfter |-> leaf]) THEN now + CertLife ELSE leaf

\* A new connection: the server offers its current leaf, whose dates the client checks.
Handshake == leaf' = currentCertificate
Trusted == now <= currentCertificate
-----------------------------------------------------------------------------
\* The owner.

\* Invitation: the device row and its one invitation.
Invite(d) ==
    /\ devices[d] = "absent"
    /\ devices' = [devices EXCEPT ![d] = "active"]
    /\ invitations' = [invitations EXCEPT ![d] = [state |-> "open", expires |-> now + InviteTTL]]
    /\ UNCHANGED <<now, leaf, issued, procs, fileVars>>

Revoke(d) ==
    /\ devices[d] # "absent"
    /\ devices' = [devices EXCEPT ![d] = "revoked"]
    /\ UNCHANGED <<now, leaf, invitations, issued, procs, fileVars>>
-----------------------------------------------------------------------------
\* `budge enroll`.

\* The command looks for the file, then generates a key and connects. Nothing says that
\* the invitation pasted is unused.
EnrollStart(p, f, d) ==
    /\ At(p, {"idle"})
    /\ files[f] = NoFile
    /\ invitations[d].state # "none"
    /\ \E k \in Key :
           /\ \A c \in issued : c.key # k
           /\ \A q \in Proc : procs[q].csr # None => procs[q].csr.key # k
           /\ procs' = [procs EXCEPT ![p].pc = "enrolling", ![p].path = f,
                                     ![p].csr = [device |-> d, key |-> k]]
    /\ Handshake /\ Trusted
    /\ UNCHANGED <<now, devices, invitations, issued, fileVars>>

\* The server signs for the invitation's device, whose secret the caller knows.
Sign(p, d, k) ==
    /\ issued' = issued \cup {issue(d, k)}
    /\ procs' = [procs EXCEPT ![p].pc = "enrolled", ![p].next = issue(d, k)]

\* enroll that looks at the invitation without using it up.
enrollAgain(p) ==
    LET r == procs[p].csr IN
    /\ At(p, {"enrolling"})
    /\ invitations[r.device].state # "none"
    /\ invitations[r.device].expires > now
    /\ ActiveDevice(r.device)
    /\ Sign(p, r.device, r.key)
    /\ UNCHANGED <<now, leaf, devices, invitations, fileVars>>

\* enroll: one transaction checks, signs and uses up the invitation.
enroll(p) ==
    LET r == procs[p].csr IN
    /\ At(p, {"enrolling"})
    /\ invitations[r.device].state = "open"
    /\ invitations[r.device].expires > now
    /\ ActiveDevice(r.device)
    /\ Sign(p, r.device, r.key)
    /\ invitations' = [invitations EXCEPT ![r.device].state = "used"]
    /\ UNCHANGED <<now, leaf, devices, fileVars>>

\* Save over whatever is there.
SaveCreateOver(p) ==
    /\ At(p, {"enrolled"})
    /\ files' = [files EXCEPT ![procs[p].path] = Torn]
    /\ procs' = [procs EXCEPT ![p].pc = "saving"]
    /\ UNCHANGED <<now, serverVars, disk>>

\* Save: O_EXCL creates the file or fails, then the content is written.
SaveCreate(p) ==
    /\ At(p, {"enrolled"})
    /\ files[procs[p].path] = NoFile
    /\ files' = [files EXCEPT ![procs[p].path] = Torn]
    /\ procs' = [procs EXCEPT ![p].pc = "saving"]
    /\ UNCHANGED <<now, serverVars, disk>>

\* Write and Sync: the content is on the disk; the name is when its directory is.
SaveWrite(p) ==
    /\ At(p, {"saving"})
    /\ files' = [files EXCEPT ![procs[p].path] = procs[p].next]
    /\ disk' = [disk EXCEPT ![procs[p].path] = IF @ = Torn THEN procs[p].next ELSE @]
    /\ Exit(p)
    /\ UNCHANGED <<now, serverVars>>
-----------------------------------------------------------------------------
\* `budge connect`.

\* Load and Transport: a torn file does not load.
Load(p, f) ==
    /\ At(p, {"idle"})
    /\ Holds(f)
    /\ procs' = [procs EXCEPT ![p] =
           [Idle EXCEPT !.pc = "loaded", !.path = f, !.cert = files[f]]]
    /\ UNCHANGED <<now, serverVars, fileVars>>

\* Refresh runs once before the listeners open and then whenever the ticker has fired.
Wakes(p) == At(p, {"loaded"}) \/ (At(p, {"running"}) /\ procs[p].due)

Resume(x) == [x EXCEPT !.pc = "running", !.serving = TRUE, !.due = FALSE,
                       !.next = None, !.via = None]

\* An error ends the command before it serves, and is only reported afterwards.
GiveUp(p) ==
    procs' = [procs EXCEPT ![p] = IF @.serving THEN Resume(@) ELSE Idle]

\* A refresh that found nothing to do, one that failed, one that was turned down, and one
\* that succeeded. The server judges the certificate of the connection, which need not be
\* the one in use; only then does being turned down count as an attempt that failed.
Settled(x) == [Resume(x) EXCEPT !.failures = 0]
Retry(x) ==
    [Resume(x) EXCEPT !.failures =
        IF x.failures < RenewBefore THEN x.failures + 1 ELSE x.failures]
Refused(x) == IF x.via \in {None, x.cert} THEN Resume(x) ELSE Retry(x)
Renewed(x, busy) == [Resume(x) EXCEPT !.cert = x.next, !.conns = busy, !.failures = 0]

RefreshNotDue(p) ==
    /\ Wakes(p)
    /\ ~RenewalDue(procs[p].cert)
    /\ procs' = [procs EXCEPT ![p] = Settled(@)]
    /\ UNCHANGED <<now, serverVars, fileVars>>

RefreshExpired(p) ==
    /\ Wakes(p)
    /\ now > procs[p].cert.notAfter
    /\ GiveUp(p)
    /\ UNCHANGED <<now, serverVars, fileVars>>

Asks(p) == Wakes(p) /\ RenewalDue(procs[p].cert) /\ now <= procs[p].cert.notAfter

\* The transport reuses an open connection or makes one with the current certificate.
RefreshReuse(p) ==
    /\ Asks(p)
    /\ \E c \in procs[p].conns :
           procs' = [procs EXCEPT ![p].pc = "asked", ![p].via = c]
    /\ UNCHANGED <<now, serverVars, fileVars>>

RefreshConnect(p) ==
    /\ Asks(p)
    /\ Handshake
    /\ procs' = [procs EXCEPT ![p].pc = "asked",
                              ![p].via = IF Trusted THEN procs[p].cert ELSE None,
                              ![p].conns = IF Trusted THEN @ \cup {procs[p].cert} ELSE @]
    /\ UNCHANGED <<now, devices, invitations, issued, fileVars>>

\* Every request of a device comes with the certificate of its connection.
device(c) == now < c.notAfter /\ ActiveDevice(c.device)

\* renew up to its transaction: device() and the window are checked on the connection.
Admitted(c) == c # None /\ device(c) /\ RenewalDue(c)

Authenticate(p) ==
    /\ At(p, {"asked"})
    /\ Admitted(procs[p].via)
    /\ procs' = [procs EXCEPT ![p].pc = "authenticated"]
    /\ UNCHANGED <<now, serverVars, fileVars>>

SignRenewal(p) ==
    LET c == issue(procs[p].via.device, procs[p].cert.key) IN
    /\ issued' = issued \cup {c}
    /\ procs' = [procs EXCEPT ![p].pc = "answered", ![p].next = c]
    /\ UNCHANGED <<now, leaf, devices, invitations, fileVars>>

\* renew that relies on the check made when the request arrived.
renewUnchecked(p) == At(p, {"authenticated"}) /\ SignRenewal(p)

\* renew: the transaction asks again whether the device is active.
renew(p) ==
    /\ At(p, {"authenticated"})
    /\ ActiveDevice(procs[p].via.device)
    /\ SignRenewal(p)

\* No handshake, 401 or 409: one side turns the other down.
RenewRefused(p) ==
    /\ \/ At(p, {"asked"}) /\ ~Admitted(procs[p].via)
       \/ At(p, {"authenticated"}) /\ ~ActiveDevice(procs[p].via.device)
    /\ procs' = [procs EXCEPT ![p] = IF @.serving THEN Refused(@) ELSE Idle]
    /\ UNCHANGED <<now, serverVars, fileVars>>

\* The request or its answer is lost or late, the server answers 429 or 503, or the new
\* file cannot be written: the certificate in use stays, signed or not.
RefreshFails(p) ==
    /\ At(p, {"asked", "authenticated", "answered", "renamed"})
    /\ procs' = [procs EXCEPT ![p] = IF @.serving THEN Retry(@) ELSE Idle]
    /\ UNCHANGED <<now, serverVars, fileVars>>

\* Refresh that goes on after a failed renewal request.
RenameUnanswered(p) ==
    /\ At(p, {"authenticated", "answered"})
    /\ files' = [files EXCEPT ![procs[p].path] = procs[p].next]
    /\ procs' = [procs EXCEPT ![p].pc = "renamed"]
    /\ UNCHANGED <<now, serverVars, disk>>

\* A renewal that leaves its temporary file where it is.
RenameForgotten(p) ==
    /\ At(p, {"answered"})
    /\ procs' = [procs EXCEPT ![p].pc = "renamed"]
    /\ UNCHANGED <<now, serverVars, fileVars>>

\* Save to a temporary name, synced, then Rename over the identity.
Rename(p) ==
    /\ At(p, {"answered"})
    /\ files' = [files EXCEPT ![procs[p].path] = procs[p].next]
    /\ procs' = [procs EXCEPT ![p].pc = "renamed"]
    /\ UNCHANGED <<now, serverVars, disk>>

\* dir.Sync, the swap under the mutex, CloseIdleConnections: connections busy with a
\* request stay open.
Expose(p) ==
    /\ At(p, {"renamed"})
    /\ disk' = [disk EXCEPT ![procs[p].path] = files[procs[p].path]]
    /\ \E busy \in SUBSET procs[p].conns :
           procs' = [procs EXCEPT ![p] = Renewed(@, busy)]
    /\ UNCHANGED <<now, serverVars, files>>
-----------------------------------------------------------------------------
\* A forwarded request opens a connection that later ones may reuse.
Forward(p) ==
    /\ procs[p].serving
    /\ now <= procs[p].cert.notAfter
    /\ Handshake /\ Trusted
    /\ procs' = [procs EXCEPT ![p].conns = @ \cup {procs[p].cert}]
    /\ UNCHANGED <<now, devices, invitations, issued, fileVars>>

\* The server closes a connection that was idle for a minute, or either end drops it.
ConnClosed(p) ==
    /\ \E c \in procs[p].conns : procs' = [procs EXCEPT ![p].conns = @ \ {c}]
    /\ UNCHANGED <<now, serverVars, fileVars>>

\* The command ends: refused, interrupted or killed.
Die(p) ==
    /\ ~At(p, {"idle"})
    /\ Exit(p)
    /\ UNCHANGED <<now, serverVars, fileVars>>

Writeback(f) ==
    /\ disk[f] # files[f]
    /\ disk' = [disk EXCEPT ![f] = files[f]]
    /\ UNCHANGED <<now, serverVars, procs, files>>

PowerLoss ==
    /\ files' = disk
    /\ procs' = [p \in Proc |-> Idle]
    /\ UNCHANGED <<now, serverVars, disk>>

Tick ==
    /\ now < MaxTime
    /\ now' = now + 1
    /\ procs' = [p \in Proc |-> [procs[p] EXCEPT !.due = @ \/ procs[p].serving]]
    /\ UNCHANGED <<serverVars, fileVars>>

ProcStep(p) ==
    \/ \E f \in Path : Load(p, f) \/ \E d \in Device : EnrollStart(p, f, d)
    \/ enroll(p) \/ SaveCreate(p) \/ SaveWrite(p)
    \/ RefreshNotDue(p) \/ RefreshExpired(p) \/ RefreshReuse(p) \/ RefreshConnect(p)
    \/ Authenticate(p) \/ renew(p) \/ RenewRefused(p) \/ RefreshFails(p)
    \/ Rename(p) \/ Expose(p)
    \/ Forward(p) \/ ConnClosed(p) \/ Die(p)

Untimed ==
    \/ \E d \in Device : Invite(d) \/ Revoke(d)
    \/ \E p \in Proc : ProcStep(p)
    \/ \E f \in Path : Writeback(f)
    \/ PowerLoss

Next == Untimed \/ Tick

Spec == Init /\ [][Next]_vars

\* Between two firings of an hourly ticker a refresh, which has thirty seconds for its
\* request, has ended; the kernel has written the files back; and the ticker's receiver has
\* taken the previous firing. Connections may stay open for as long as they are used.
Punctual ==
    /\ \A p \in Proc : At(p, {"idle", "running"}) /\ ~procs[p].due
    /\ disk = files

TimedNext == Untimed \/ (Punctual /\ Tick)

TimedSpec == Init /\ [][TimedNext]_vars
-----------------------------------------------------------------------------
\* However often an invitation is pasted, answers are lost and certificates are renewed,
\* every certificate of a device is for the one key that its first enrollment brought
\* (enroll's single transaction; Refresh's CSR with the stored key).
OneKeyPerDevice ==
    \A c, o \in issued : c.device = o.device => c.key = o.key

\* Once an identity is on the disk the file stays that identity, whole, through renewals by
\* several connectors, a second enroll, deaths and power losses (Save's O_EXCL, Refresh's
\* temporary file and Rename).
IdentitySurvives ==
    [][\A f \in Path : disk[f] \in Certificate =>
           /\ disk'[f] \in Certificate
           /\ disk'[f].device = disk[f].device /\ disk'[f].key = disk[f].key]_vars

\* A device revoked while its request is on the way, already authenticated, gets no new
\* certificate (ActiveDevice inside renew's and enroll's transactions).
NoneForRevoked ==
    [][\A c \in issued' \ issued : ActiveDevice(c.device)]_vars

Lapsed(c) == c.notAfter <= now /\ ActiveDevice(c.device)

\* A connector that keeps running holds a valid certificate until every attempt of the
\* renewal window was lost to the network, to storage or to a connection that the transport
\* kept from before the last renewal: over its own certificate no refusal by the server,
\* expired server leaf or off-by-one at the window's ends costs it its identity (Refresh,
\* renew, device, currentCertificate).
NoLapse ==
    \A p \in Proc : procs[p].serving /\ Lapsed(procs[p].cert) => procs[p].failures = RenewBefore

\* The same of the file a restart would load: what the connector renews is what the disk has.
FileOutlives ==
    \A p \in Proc :
        procs[p].serving /\ disk[procs[p].path] \in Certificate /\ Lapsed(disk[procs[p].path])
            => procs[p].failures = RenewBefore
-----------------------------------------------------------------------------
\* An inductive invariant for the properties above.

Connecting(x) ==
    x.pc \in {"loaded", "running", "asked", "authenticated", "answered", "renamed"}

\* What a process holds fits where it is, and is all of one device.
Held(x) ==
    /\ x.pc # "idle" => x.path \in Path
    /\ x.pc = "enrolling" => x.csr \in Csr
    /\ x.pc \in {"enrolled", "saving", "answered", "renamed"} => x.next \in issued
    /\ x.pc \in {"answered", "renamed"} => x.next.device = x.cert.device
    /\ x.pc \in {"authenticated", "answered", "renamed"} => x.via # None
    /\ x.serving \/ x.conns # {} \/ x.via # None => Connecting(x)
    /\ Connecting(x) => x.cert \in issued
    /\ x.via # None => x.via.device = x.cert.device
    /\ \A c \in x.conns : c.device = x.cert.device

\* A connector's file is an identity of its device; one being saved is not yet one.
InFile(x) ==
    /\ Connecting(x) =>
           files[x.path] \in Certificate /\ files[x.path].device = x.cert.device
    /\ x.pc = "saving" => files[x.path] = Torn

SavingAlone ==
    \A p, q \in Proc : At(p, {"saving"}) /\ At(q, {"saving"}) /\ p # q
        => procs[p].path # procs[q].path

\* Stored certificates were signed, and what the disk has is superseded only by its like.
Stored ==
    \A f \in Path :
        /\ files[f] \in Certificate => files[f] \in issued
        /\ disk[f] \in Certificate =>
               disk[f] \in issued /\ files[f] \in Certificate /\ files[f].device = disk[f].device

\* Until an invitation is used its device has no certificate, and only invited ones have any.
OpenUnused ==
    \A c \in issued : invitations[c.device].state = "used" /\ devices[c.device] # "absent"

IdentityInv ==
    /\ TypeOK
    /\ OneKeyPerDevice /\ OpenUnused
    /\ \A p \in Proc : Held(procs[p]) /\ InFile(procs[p])
    /\ SavingAlone
    /\ Stored
-----------------------------------------------------------------------------
\* What TimedSpec adds. No tick falls between the request of a renewal and its end.

\* Nothing was signed for longer than a certificate's life from now.
Dated == \A c \in issued : c.notAfter <= now + CertLife

\* A connector renews over a connection with the certificate it replaces or an earlier one,
\* which is due when the one it replaces is.
RenewsInLine(x) ==
    /\ Connecting(x) => \A c \in x.conns : c.notAfter <= x.cert.notAfter
    /\ x.pc \in {"asked", "authenticated", "answered", "renamed"} =>
           RenewalDue(x.cert) /\ x.via # None /\ x.via.notAfter <= x.cert.notAfter
    /\ x.pc \in {"authenticated", "answered", "renamed"} => now < x.via.notAfter
    /\ x.pc \in {"answered", "renamed"} => x.next.notAfter = now + CertLife

\* The failures of a serving connector make up for the part of the window that is gone.
Tried(x) ==
    x.serving /\ ActiveDevice(x.cert.device) =>
        \/ x.failures = RenewBefore
        \/ now + RenewBefore <= x.failures + x.cert.notAfter
           /\ (x.pc = "running" /\ ~x.due =>
                   now + RenewBefore < x.failures + x.cert.notAfter)

\* The file is never behind the connector, nor the disk, except within the hour.
Fresh(x) ==
    Connecting(x) =>
        /\ x.cert.notAfter <= files[x.path].notAfter
        /\ x.pc = "renamed" => now + CertLife <= files[x.path].notAfter
        /\ disk[x.path] \in Certificate =>
               x.cert.notAfter <= disk[x.path].notAfter \/ now < disk[x.path].notAfter

LagsBriefly ==
    \A f \in Path : disk[f] \in Certificate => disk[f] = files[f] \/ now < disk[f].notAfter

RenewalInv ==
    /\ Dated
    /\ \A p \in Proc : RenewsInLine(procs[p]) /\ Tried(procs[p]) /\ Fresh(procs[p])
    /\ LagsBriefly
=============================================================================
