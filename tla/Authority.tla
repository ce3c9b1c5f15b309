------------------------------ MODULE Authority ------------------------------
(***************************************************************************)
(* The authority an owner hands out: the devices, services and permissions *)
(* tables, the clock their rows are compared with, and Authorize, the      *)
(* question every dispatch asks of them. Operations that also touch the    *)
(* requests table (the revocations) are in Requests.                       *)
(*                                                                         *)
(* The store keeps one SQLite connection, so a transaction is one step. A  *)
(* transaction reads the clock once here; the code reads it at most a few  *)
(* times within the same transaction.                                      *)
(***************************************************************************)
EXTENDS Access, FiniteSets

CONSTANTS Device, Service, PermId,
          NoPerm,         \* a permission id without a row
          MaxTime,        \* bound on the clock
          MaxRevision,    \* bound on a service's revision
          Expiries        \* the expiry times an owner may enter

VARIABLES now,          \* time.Now().Unix()
          devices, services, permissions

authorityVars == <<now, devices, services, permissions>>

Time == 0..MaxTime
Never == MaxTime + 1    \* a NULL expires or finished column: later than any time

Mode == {"standing", "approval_required"}

\* sealed is the revision named in the label the credential is encrypted under.
ServiceRow ==
    [state : {"absent", "enabled", "disabled"},
     revision : 0..MaxRevision, sealed : 0..MaxRevision]

Permission ==
    [device : Device, service : Service, revision : 0..MaxRevision, rule : Rules,
     mode : Mode, expires : 0..Never, state : {"granted", "revoked"}]

ASSUME BoundAssumption ==
    MaxTime \in Nat /\ MaxRevision \in Nat \ {0} /\ Expiries \subseteq 0..Never
ASSUME NoPermAssumption == NoPerm \notin Permission

AuthorityTypeOK ==
    /\ now \in Time
    /\ devices \in [Device -> {"absent", "active", "revoked"}]
    /\ services \in [Service -> ServiceRow]
    /\ permissions \in [PermId -> Permission \cup {NoPerm}]

AuthorityInit ==
    /\ now = 0
    /\ devices = [d \in Device |-> "absent"]
    /\ services = [s \in Service |-> [state |-> "absent", revision |-> 0, sealed |-> 0]]
    /\ permissions = [p \in PermId |-> NoPerm]
-----------------------------------------------------------------------------
ActiveDevice(d) == devices[d] = "active"

\* GetService finds only enabled services.
Enabled(s) == services[s].state = "enabled"

\* The WHERE clause that Authorize and addPermission share.
ActiveRule(p, d, s) ==
    /\ permissions[p] # NoPerm
    /\ permissions[p].device = d
    /\ permissions[p].service = s
    /\ permissions[p].revision = services[s].revision
    /\ permissions[p].state = "granted"
    /\ permissions[p].expires > now

\* The permissions under which d may ask s for route q. The code takes the first row;
\* NoRuleConflict says that there is never a second.
Authorize(d, s, q) ==
    { p \in PermId :
        /\ ActiveDevice(d)
        /\ Enabled(s)
        /\ ActiveRule(p, d, s)
        /\ Match(permissions[p].rule, q) }

\* Store.Decrypt of a service's credential: the label must name the sealed revision.
CredentialOpensFor(s, revision) == services[s].sealed = revision
-----------------------------------------------------------------------------
Tick ==
    /\ now < MaxTime
    /\ now' = now + 1
    /\ UNCHANGED <<devices, services, permissions>>

\* Invitation: a device row is live from the moment it is invited.
Invite(d) ==
    /\ devices[d] = "absent"
    /\ devices' = [devices EXCEPT ![d] = "active"]
    /\ UNCHANGED <<now, services, permissions>>

\* addService on /service: the INSERT fails when the id has a row.
CreateService(s) ==
    /\ services[s].state = "absent"
    /\ services' = [services EXCEPT ![s] =
                        [state |-> "enabled", revision |-> 1, sealed |-> 1]]
    /\ UNCHANGED <<now, devices, permissions>>

GrantTo(p, d, s, rule, mode, expires) ==
    /\ permissions' = [permissions EXCEPT ![p] =
           [device |-> d, service |-> s, revision |-> services[s].revision, rule |-> rule,
            mode |-> mode, expires |-> expires, state |-> "granted"]]
    /\ UNCHANGED <<now, devices, services>>

\* addPermission that compares a new rule with the rules of its own mode only.
AddPermissionSameMode(p, d, s, rule, mode, expires) ==
    /\ permissions[p] = NoPerm
    /\ expires >= now
    /\ Enabled(s) /\ ActiveDevice(d)
    /\ \A o \in PermId :
           ActiveRule(o, d, s) /\ permissions[o].mode = mode
               => ~Overlap(rule, permissions[o].rule)
    /\ GrantTo(p, d, s, rule, mode, expires)

\* The expiry entered is after the current instant and is stored rounded down to a second.
AddPermission(p, d, s, rule, mode, expires) ==
    /\ permissions[p] = NoPerm
    /\ expires >= now
    /\ Enabled(s) /\ ActiveDevice(d)
    /\ \A o \in PermId : ActiveRule(o, d, s) => ~Overlap(rule, permissions[o].rule)
    /\ GrantTo(p, d, s, rule, mode, expires)
-----------------------------------------------------------------------------
\* addPermission's overlap check and Authorize's WHERE clause agree: no route of a device
\* ever falls under two permissions at once, so which row the database returns first, and
\* with it whether an approval is needed, is never a matter of chance.
NoRuleConflict ==
    \A d \in Device, s \in Service, q \in Routes : Cardinality(Authorize(d, s, q)) <= 1

\* What makes NoRuleConflict inductive: rules in force for one device and service share no
\* route, and no permission is ahead of its service, so no revision brings one back.
RulesApart ==
    \A p, o \in PermId, d \in Device, s \in Service, q \in Routes :
        /\ p # o /\ ActiveRule(p, d, s) /\ ActiveRule(o, d, s)
        => ~(Match(permissions[p].rule, q) /\ Match(permissions[o].rule, q))
RevisionsLead ==
    /\ \A s \in Service : services[s].state = "absent" => services[s].revision = 0
    /\ \A p \in PermId : permissions[p] # NoPerm =>
           permissions[p].revision <= services[permissions[p].service].revision

\* A credential that GetService can return is sealed under the revision its reader names:
\* creation, revision and disabling leave no enabled service whose key cannot be opened.
CredentialsOpen ==
    \A s \in Service : Enabled(s) => CredentialOpensFor(s, services[s].revision)
=============================================================================
