------------------------------- MODULE Restore -------------------------------
(***************************************************************************)
(* The gateway over more than one life of its database file: the operator  *)
(* copies the file, may later put the copy back, and then starts with      *)
(* --recover-restored before anything else, as the documentation asks.     *)
(* What the copy does not have is forgotten by the server, but not by the  *)
(* devices that hold certificates and keys, nor by the upstream.           *)
(***************************************************************************)
EXTENDS Gateway

CONSTANT NoBackup

VARIABLES backup,     \* the tables of the last backup
          restored,   \* a backup was put in place and RecoverRestored has not run on it
          retired,    \* ids of rows that existed when a backup replaced them
          ledger      \* transmissions per device and idempotency key, in all lives

restoreVars == <<backup, restored, retired, ledger>>
allVars == <<vars, restoreVars>>

Tables == [devices |-> devices, services |-> services, permissions |-> permissions,
           requests |-> requests, approvals |-> approvals]

Ids == { d \in Device : devices[d] # "absent" } \cup { p \in PermId : permissions[p] # NoPerm }
       \cup { r \in ReqId : Row(r) }

RestoreInit ==
    /\ Init
    /\ backup = NoBackup
    /\ restored = FALSE
    /\ retired = {}
    /\ ledger = [x \in Device \X Key |-> 0]
-----------------------------------------------------------------------------
\* Identifiers are random: no new row takes one that an earlier life used.
FreshIds ==
    /\ \A d \in Device \cap retired : devices[d] = "absent" => devices'[d] = "absent"
    /\ \A p \in PermId \cap retired : permissions[p] = NoPerm => permissions'[p] = NoPerm
    /\ \A r \in ReqId \cap retired : requests[r] = NoReq => requests'[r] = NoReq

Note ==
    ledger' = [x \in Device \X Key |->
        IF \E r \in ReqId : sends'[r] > sends[r] /\ x = <<requests[r].device, requests[r].key>>
        THEN ledger[x] + 1 ELSE ledger[x]]

\* The server's own steps. A restored file is started with --recover-restored only; a
\* start that dies before RecoverRestored commits leaves it to be recovered.
ServerStep ==
    /\ Next
    /\ FreshIds
    /\ restored => phase' # "up" \/ phase = "restoring"
    /\ restored' = (restored /\ phase' # "up")
    /\ Note
    /\ UNCHANGED <<backup, retired>>

TakeBackup ==
    /\ ~restored
    /\ backup' = Tables
    /\ UNCHANGED <<vars, restored, retired, ledger>>

RestoreBackup ==
    /\ phase \in {"closed", "crashed"}
    /\ backup # NoBackup
    /\ devices' = backup.devices
    /\ services' = backup.services
    /\ permissions' = backup.permissions
    /\ requests' = backup.requests
    /\ approvals' = backup.approvals
    /\ restored' = TRUE
    /\ retired' = retired \cup Ids
    /\ UNCHANGED <<now, memoryVars, phase, backup, ledger>>

RestoreNext == ServerStep \/ TakeBackup \/ RestoreBackup

RestoreSpec == RestoreInit /\ [][RestoreNext]_allVars
-----------------------------------------------------------------------------
\* Over any number of restored backups, a device's idempotency key reaches the upstream at
\* most once, though the file may have forgotten that it ever did: the requests that the
\* copy holds are cancelled, and the devices that could repeat a forgotten one are shut out
\* for good (RecoverRestored, recoverDispatches, ActiveDevice in Submit and in the claim).
OneEffectAcrossRestores == \A x \in Device \X Key : ledger[x] <= 1

\* Once the server is up on a restored file, nothing of an earlier life acts again: no
\* device that it knew is active and none of their requests waits.
EarlierLifeIsOver ==
    phase = "up" =>
        /\ \A d \in Device \cap retired : ~ActiveDevice(d)
        /\ \A r \in ReqId : Undispatched(r) => requests[r].device \notin retired

\* What makes both inductive. The server's own steps keep to one life of the file (HoldInv);
\* a restored file is at rest until RecoverRestored has run on it.
Copy ==
    [devices : [Device -> {"absent", "active", "revoked"}], services : [Service -> ServiceRow],
     permissions : [PermId -> Permission \cup {NoPerm}],
     requests : [ReqId -> Request \cup {NoReq}],
     approvals : [ReqId -> Decision \cup {NoDecision}]]
RestoreTypeOK ==
    /\ backup \in Copy \cup {NoBackup}
    /\ restored \in BOOLEAN
    /\ ledger \in [Device \X Key -> {0, 1}]
CopyKeysUnique ==
    backup # NoBackup =>
        \A r, o \in ReqId :
            /\ backup.requests[r] # NoReq /\ backup.requests[o] # NoReq
            /\ backup.requests[r].device = backup.requests[o].device
            /\ backup.requests[r].key = backup.requests[o].key
            => r = o
AtRest == (restored => ~Serving) /\ (~Serving => batch = {})

\* A key that reached the upstream belongs to a device that has a row or is retired. No
\* holder is about to use it again, and unless the file is a restored one no request waits
\* with it and no active device may submit it anew.
KeyOf(r) == <<requests[r].device, requests[r].key>>
SpentIsKnown ==
    \A d \in Device, k \in Key :
        ledger[<<d, k>>] > 0 => d \in retired \/ devices[d] # "absent"
HolderUnspent ==
    \A j \in Job : JobAt(j, "claimed") =>
        ledger[KeyOf(jobs[j].req)] = 0 /\ devices[requests[jobs[j].req].device] # "absent"
ShutOut == \A d \in Device \cap retired : ~ActiveDevice(d)
WaitingUnspent == \A r \in ReqId : Undispatched(r) => ledger[KeyOf(r)] = 0
SpentIsTaken ==
    \A d \in Device, k \in Key :
        ledger[<<d, k>>] > 0 /\ ActiveDevice(d) => SameKey(d, k) # {}

RestoreInv ==
    /\ HoldInv
    /\ RestoreTypeOK /\ CopyKeysUnique /\ AtRest
    /\ SpentIsKnown /\ HolderUnspent
    /\ ~restored => LiveAuthority /\ ShutOut /\ WaitingUnspent /\ SpentIsTaken
=============================================================================
