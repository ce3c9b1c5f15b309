-------------------------------- MODULE Owner --------------------------------
(***************************************************************************)
(* The owner's sessions and the throttle in front of the login: rows that  *)
(* a backup copies and a restore brings back, requests that look their     *)
(* session up first and act afterwards, and a list of login times that is  *)
(* kept in memory only. What an authenticated request then does to the     *)
(* other tables is in Requests.                                            *)
(***************************************************************************)
EXTENDS Naturals, Sequences

CONSTANTS Token,          \* session cookies
          Handler,        \* concurrent requests to the owner listener
          NoSession,      \* a token without a row
          NoRequest,      \* an idle handler
          Limit,          \* ten logins
          Minute,         \* the throttle's window
          SessionLife,    \* eight hours
          MaxTime,        \* bound on the clock
          MaxLogins       \* bound on logins let through by one process

VARIABLES now,
          phase,          \* down, up, or restored: down with a backup put in place
          sessions,       \* token -> expires
          backup,         \* the sessions table of the last backup
          throttles,      \* s.throttles["login"]
          handlers,
          minted,         \* tokens handed out so far
          ended,          \* tokens whose logout was carried out
          accepted        \* when this process let a login attempt through

memoryVars == <<throttles, handlers, accepted>>
vars == <<now, phase, sessions, backup, minted, ended, memoryVars>>

Time == 0..MaxTime
Table == [Token -> Time \cup {NoSession}]
Request == [pc : {"login"}] \cup [pc : {"owner"}, token : Token]

ASSUME OwnerAssumption ==
    /\ Limit \in Nat \ {0} /\ Minute \in Nat \ {0} /\ SessionLife \in Nat \ {0}
    /\ MaxTime \in Nat
    /\ NoSession \notin Time /\ NoRequest \notin Request

TypeOK ==
    /\ now \in Time
    /\ phase \in {"down", "up", "restored"}
    /\ sessions \in Table /\ backup \in Table
    /\ throttles \in Seq(Time) /\ accepted \in Seq(Time)
    /\ handlers \in [Handler -> Request \cup {NoRequest}]
    /\ minted \in SUBSET Token /\ ended \in SUBSET minted

Init ==
    /\ now = 0
    /\ phase = "down"
    /\ sessions = [t \in Token |-> NoSession]
    /\ backup = [t \in Token |-> NoSession]
    /\ throttles = <<>>
    /\ handlers = [h \in Handler |-> NoRequest]
    /\ minted = {} /\ ended = {}
    /\ accepted = <<>>
-----------------------------------------------------------------------------
Serve(h, from, to) ==
    /\ phase = "up"
    /\ handlers[h] \in from
    /\ handlers' = [handlers EXCEPT ![h] = to]

\* A throttle that starts over once its first attempt is a minute old.
throttleFixed ==
    IF throttles # <<>> /\ now - throttles[1] < Minute THEN throttles ELSE <<>>

\* throttle: the attempts of the last minute, kept in the order of the list. One more goes
\* on it if it is let through, and none if it is not.
throttle ==
    LET live[i \in 0..Len(throttles)] ==
            IF i = 0 THEN <<>>
            ELSE IF now - throttles[i] < Minute THEN Append(live[i - 1], throttles[i])
            ELSE live[i - 1]
    IN  live[Len(throttles)]

LoginAsk(h) ==
    /\ Serve(h, {NoRequest}, [pc |-> "login"])
    /\ Len(throttle) < Limit
    /\ Len(accepted) < MaxLogins    \* bound
    /\ throttles' = Append(throttle, now)
    /\ accepted' = Append(accepted, now)
    /\ UNCHANGED <<now, phase, sessions, backup, minted, ended>>

\* login that may hand the same token out twice.
loginRepeats(h) ==
    /\ Serve(h, {[pc |-> "login"]}, NoRequest)
    /\ now + SessionLife <= MaxTime
    /\ \E t \in Token : sessions' = [sessions EXCEPT ![t] = now + SessionLife]
    /\ UNCHANGED <<now, phase, backup, minted, ended, throttles, accepted>>

\* login, once the password was right: a new token.
login(h) ==
    /\ Serve(h, {[pc |-> "login"]}, NoRequest)
    /\ now + SessionLife <= MaxTime    \* bound
    /\ \E t \in Token \ minted :
           /\ sessions' = [sessions EXCEPT ![t] = now + SessionLife]
           /\ minted' = minted \cup {t}
    /\ UNCHANGED <<now, phase, backup, ended, throttles, accepted>>

LoginRefused(h) ==
    /\ Serve(h, {[pc |-> "login"]}, NoRequest)
    /\ UNCHANGED <<now, phase, sessions, backup, minted, ended, throttles, accepted>>

Live(t) == sessions[t] # NoSession /\ sessions[t] > now

\* OwnerHandler: the cookie's session is read once, before the request is carried out.
OwnerRequest(h, t) ==
    /\ Live(t)
    /\ Serve(h, {NoRequest}, [pc |-> "owner", token |-> t])
    /\ UNCHANGED <<now, phase, sessions, backup, minted, ended, throttles, accepted>>

\* Any of the owner's other transactions, a page, or an error.
Act(h) ==
    /\ Serve(h, [pc : {"owner"}, token : Token], NoRequest)
    /\ UNCHANGED <<now, phase, sessions, backup, minted, ended, throttles, accepted>>

Logout(h) ==
    /\ Serve(h, [pc : {"owner"}, token : Token], NoRequest)
    /\ sessions' = [sessions EXCEPT ![handlers[h].token] = NoSession]
    /\ ended' = ended \cup {handlers[h].token}
    /\ UNCHANGED <<now, phase, backup, minted, throttles, accepted>>

\* maintenance deletes the rows that OwnerHandler would no longer find.
maintenance ==
    /\ phase = "up"
    /\ sessions' = [t \in Token |-> IF Live(t) THEN sessions[t] ELSE NoSession]
    /\ UNCHANGED <<now, phase, backup, minted, ended, memoryVars>>
-----------------------------------------------------------------------------
TakeBackup ==
    /\ phase # "restored"
    /\ backup' = sessions
    /\ UNCHANGED <<now, phase, sessions, minted, ended, memoryVars>>

Restore ==
    /\ phase \in {"down", "restored"}
    /\ sessions' = backup
    /\ phase' = "restored"
    /\ UNCHANGED <<now, backup, minted, ended, memoryVars>>

Start ==
    /\ phase = "down"
    /\ phase' = "up"
    /\ UNCHANGED <<now, sessions, backup, minted, ended, memoryVars>>

\* RecoverRestored that revokes devices and leaves sessions alone.
RecoverDevicesOnly ==
    /\ phase = "restored"
    /\ phase' = "up"
    /\ UNCHANGED <<now, sessions, backup, minted, ended, memoryVars>>

\* --recover-restored: a start that does not get this far leaves the file as restored.
RecoverRestored ==
    /\ phase = "restored"
    /\ phase' = "up"
    /\ sessions' = [t \in Token |-> NoSession]
    /\ UNCHANGED <<now, backup, minted, ended, memoryVars>>

\* The end of the process, by a signal or a crash: the throttle forgets.
Down ==
    /\ phase = "up"
    /\ phase' = "down"
    /\ throttles' = <<>> /\ accepted' = <<>>
    /\ handlers' = [h \in Handler |-> NoRequest]
    /\ UNCHANGED <<now, sessions, backup, minted, ended>>

Tick ==
    /\ now < MaxTime
    /\ now' = now + 1
    /\ UNCHANGED <<phase, sessions, backup, minted, ended, memoryVars>>

Next ==
    \/ \E h \in Handler :
           \/ LoginAsk(h) \/ login(h) \/ LoginRefused(h) \/ Act(h) \/ Logout(h)
           \/ \E t \in Token : OwnerRequest(h, t)
    \/ maintenance \/ TakeBackup \/ Restore \/ Start \/ RecoverRestored \/ Down \/ Tick

Spec == Init /\ [][Next]_vars
-----------------------------------------------------------------------------
\* Whenever the attempts come, no more than Limit of them reach the password check within
\* any minute of one process's life (throttle's sliding window).
LoginsWithinLimit ==
    \A i \in 1..Len(accepted) :
        i + Limit <= Len(accepted) => accepted[i + Limit] - accepted[i] >= Minute

\* A cookie whose logout was carried out opens nothing again: not on a request that races
\* the logout and arrives after it, and not after a backup that still has its row was
\* restored (OwnerHandler's lookup, RecoverRestored's DELETE FROM sessions).
LoggedOutStaysOut ==
    [][\A h \in Handler, t \in ended :
           handlers[h] = NoRequest => handlers'[h] # [pc |-> "owner", token |-> t]]_vars

\* What makes LoginsWithinLimit inductive: attempts are let through in the order of the
\* clock, the list is the end of them, and whatever has left the list left it a minute old.
Ordered ==
    \A i \in 1..Len(accepted) :
        accepted[i] <= now /\ \A j \in 1..i : accepted[j] <= accepted[i]
Forgotten == Len(accepted) - Len(throttles)
ListIsRecent ==
    /\ Len(throttles) <= Len(accepted)
    /\ \A i \in 1..Len(throttles) : throttles[i] = accepted[Forgotten + i]
    /\ \A i \in 1..Forgotten : now - accepted[i] >= Minute
WindowInv == TypeOK /\ Ordered /\ ListIsRecent /\ LoginsWithinLimit

\* What makes LoggedOutStaysOut provable: outside a restored file, a token that was logged
\* out has no row, and login never hands a token out twice.
SessionInv ==
    /\ now \in Time /\ phase \in {"down", "up", "restored"}
    /\ sessions \in Table /\ backup \in Table
    /\ handlers \in [Handler -> Request \cup {NoRequest}]
    /\ ended \subseteq minted /\ minted \subseteq Token
    /\ phase # "restored" => \A t \in ended : sessions[t] = NoSession
    /\ \A h \in Handler, t \in Token : handlers[h] = [pc |-> "owner", token |-> t] => t \in minted
    /\ \A t \in Token \ minted : sessions[t] = NoSession /\ backup[t] = NoSession
=============================================================================
