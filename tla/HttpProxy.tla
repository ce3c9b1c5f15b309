------------------------------ MODULE HttpProxy ------------------------------
(***************************************************************************)
(* The standing HTTP path of DeviceHandler (/s/<service>/<path>): a        *)
(* handler takes a slot, reads the body, authorises in one transaction,    *)
(* and sends outside it. It keeps no request row.                          *)
(***************************************************************************)
EXTENDS Authority, Slots

CONSTANTS Handler,   \* concurrent handler goroutines
          NoCall     \* a handler that serves nothing

VARIABLE http

Call ==
    [pc : {"body", "send", "exit"}, device : Device, service : Service,
     route : Routes, perm : PermId \cup {NoPerm}]

ASSUME NoCallAssumption == NoCall \notin Call

HttpTypeOK == http \in [Handler -> Call \cup {NoCall}]

HttpInit == http = [h \in Handler |-> NoCall]

AtHttp(h, pc) == http[h] # NoCall /\ http[h].pc = pc

\* device(r) and Route(r) accept the call, and a slot is free.
HttpAccept(h, d, s, q) ==
    /\ http[h] = NoCall
    /\ ActiveDevice(d)
    /\ acquire(d)
    /\ http' = [http EXCEPT ![h] = [pc |-> "body", device |-> d, service |-> s,
                                    route |-> q, perm |-> NoPerm]]
    /\ UNCHANGED authorityVars

\* The body cannot be read, storage is unavailable, or the query has no target.
HttpBodyFails(h) ==
    /\ AtHttp(h, "body")
    /\ http' = [http EXCEPT ![h].pc = "exit"]
    /\ UNCHANGED <<authorityVars, slotVars>>

HttpPermitted(h) == Authorize(http[h].device, http[h].service, http[h].route)

\* permission_denied or approval_required
HttpRefuse(h) ==
    /\ AtHttp(h, "body")
    /\ \/ HttpPermitted(h) = {}
       \/ \E p \in HttpPermitted(h) : permissions[p].mode # "standing"
    /\ http' = [http EXCEPT ![h].pc = "exit"]
    /\ UNCHANGED <<authorityVars, slotVars>>

\* The handler that takes any permission for a standing one.
HttpAuthorizeAnyMode(h) ==
    /\ AtHttp(h, "body")
    /\ \E p \in HttpPermitted(h) :
           http' = [http EXCEPT ![h].pc = "send", ![h].perm = p]
    /\ UNCHANGED <<authorityVars, slotVars>>

\* The transaction that authorises and audits the call; the credential it read is opened
\* afterwards.
HttpAuthorize(h) ==
    /\ AtHttp(h, "body")
    /\ \E p \in HttpPermitted(h) :
           /\ permissions[p].mode = "standing"
           /\ http' = [http EXCEPT
                  ![h].pc = IF CredentialOpensFor(http[h].service, permissions[p].revision)
                            THEN "send" ELSE "exit",
                  ![h].perm = p]
    /\ UNCHANGED <<authorityVars, slotVars>>

\* Send fails, or the response has been streamed, or streaming it is aborted.
HttpSent(h) ==
    /\ AtHttp(h, "send")
    /\ http' = [http EXCEPT ![h].pc = "exit"]
    /\ UNCHANGED <<authorityVars, slotVars>>

\* The deferred release, also when the handler panics to abort its response.
HttpExit(h) ==
    /\ AtHttp(h, "exit")
    /\ release(http[h].device)
    /\ http' = [http EXCEPT ![h] = NoCall]
    /\ UNCHANGED authorityVars

HttpStep(h) ==
    \/ \E d \in Device, s \in Service, q \in Routes : HttpAccept(h, d, s, q)
    \/ HttpBodyFails(h)
    \/ HttpRefuse(h)
    \/ HttpAuthorize(h)
    \/ HttpSent(h)
    \/ HttpExit(h)
=============================================================================
