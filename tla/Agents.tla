------------------------------- MODULE Agents -------------------------------
(***************************************************************************)
(* Those who look at requests from outside: agents that submit over MCP    *)
(* and the local connector, lose answers, submit again under the same key  *)
(* and poll for the outcome, and the owner who opens a request's page. An  *)
(* answer is made from a transaction that may be out of date when it       *)
(* arrives. Every step is a step of Gateway or leaves Gateway's state      *)
(* alone.                                                                  *)
(***************************************************************************)
EXTENDS Gateway

CONSTANTS Agent,
          NoAnswer,    \* nothing was answered yet
          NoPage,      \* no review page is open
          MaxWait      \* fifteen seconds

VARIABLES agents, page

viewVars == <<agents, page>>
viewed == <<vars, viewVars>>

\* submitting: Submit has committed, its answer is not made yet; unsure: the answer did not
\* arrive; known: the agent has a request id; polling: a status call is at the server
AgentPC == {"idle", "submitting", "unsure", "known", "polling"}

\* What an agent sends, with the device of the connector it sends through.
Submission ==
    [device : Device, key : Key, service : Service, route : Routes, body : Body]

\* What the agent wants done, the request it was told of, and the last outcome it was told:
\* NoAnswer stands for the statuses of a request still on its way.
AgentState ==
    [pc : AgentPC, in : Submission \cup {NoAnswer}, req : ReqId \cup {NoReq},
     told : {t \in Status : terminal(t)} \cup {NoAnswer}, deadline : 0..(MaxTime + MaxWait)]

\* The page: whether RequestStatus said the payload is gone, then the snapshot read after it.
Page ==
    [pc : {"status", "shown"}, req : ReqId, purged : BOOLEAN, snapshot : Snapshot \cup {NoAnswer}]

ASSUME ViewAssumption ==
    /\ MaxWait \in Nat
    /\ NoAnswer \notin Submission \cup Status \cup Snapshot
    /\ NoPage \notin Page

ViewTypeOK ==
    /\ agents \in [Agent -> AgentState]
    /\ page \in Page \cup {NoPage}

NewAgent ==
    [pc |-> "idle", in |-> NoAnswer, req |-> NoReq, told |-> NoAnswer, deadline |-> 0]

ViewInit ==
    /\ Init
    /\ agents = [a \in Agent |-> NewAgent]
    /\ page = NoPage
-----------------------------------------------------------------------------
\* A gateway step. When the process ends, so do the calls it was serving; a page that was
\* delivered stays in the owner's browser.
Interrupted(x) ==
    CASE x.pc = "submitting" -> [x EXCEPT !.pc = "unsure", !.req = NoReq]
      [] x.pc = "polling" -> [x EXCEPT !.pc = "known"]
      [] OTHER -> x

GatewayStep ==
    /\ Next
    /\ agents' = IF phase' \in {"closed", "crashed"}
                 THEN [a \in Agent |-> Interrupted(agents[a])] ELSE agents
    /\ page' = IF phase' \in {"closed", "crashed"} /\ page # NoPage /\ page.pc = "status"
               THEN NoPage ELSE page
-----------------------------------------------------------------------------
Placed(a, in, r) ==
    /\ agents' = [agents EXCEPT ![a].pc = "submitting", ![a].in = in, ![a].req = r]
    /\ UNCHANGED page

\* An agent without an answer repeats what it sent: same key, same content.
Resends(a, in) ==
    \/ agents[a].pc = "idle"
    \/ agents[a].pc = "unsure" /\ agents[a].in = in

\* submit of a new key.
AgentSubmit(a, r) ==
    \E in \in Submission :
        /\ Transaction
        /\ Resends(a, in)
        /\ Submit(r, in.device, in.key, in.service, in.route, in.body)
        /\ Placed(a, in, r)

\* SubmissionDigest, as the row keeps it.
SubmissionDigest(x) ==
    [device |-> x.device, key |-> x.key, service |-> x.service, route |-> x.route,
     body |-> x.body]

\* submit that answers a known key whatever the content.
AgentDuplicateByKey(a) ==
    \E in \in Submission :
        /\ Serving
        /\ Resends(a, in)
        /\ ActiveDevice(in.device)
        /\ \E r \in SameKey(in.device, in.key) : Placed(a, in, r)
        /\ UNCHANGED vars

\* submit of a known key: the first request's id, if the submission is the same.
AgentDuplicate(a) ==
    \E in \in Submission :
        /\ Serving
        /\ Resends(a, in)
        /\ ActiveDevice(in.device)
        /\ \E r \in SameKey(in.device, in.key) :
               SubmissionDigest(requests[r]) = in /\ Placed(a, in, r)
        /\ UNCHANGED vars

\* RequestStatus for a device: its own requests, while it is active.
Visible(d, r) == ActiveDevice(d) /\ Row(r) /\ requests[r].device = d

Tell(a) ==
    LET current == requests[agents[a].req].status IN
    agents' = [agents EXCEPT ![a].pc = "known", ![a].deadline = 0,
                             ![a].told = IF terminal(current) THEN current ELSE NoAnswer]

\* The end of submit: the status is read in a second transaction.
AgentAnswer(a) ==
    /\ Serving
    /\ agents[a].pc = "submitting"
    /\ Visible(agents[a].in.device, agents[a].req)
    /\ Tell(a)
    /\ UNCHANGED <<vars, page>>

\* The answer is lost between server, connector, socket and agent, or is an error.
AgentLost(a) ==
    /\ agents[a].pc \in {"submitting", "polling"}
    /\ agents' = [agents EXCEPT ![a] = Interrupted(@)]
    /\ UNCHANGED <<vars, page>>

\* status that takes any wait_seconds.
AgentPollAnyWait(a) ==
    /\ Serving
    /\ agents[a].pc = "known"
    /\ \E wait \in 0..(2 * MaxWait + MaxTime) :
           agents' = [agents EXCEPT ![a].pc = "polling", ![a].told = NoAnswer,
                          ![a].deadline = IF wait = 0 THEN 0 ELSE now + wait]
    /\ UNCHANGED <<vars, page>>

\* A status call arrives, with a wait the server accepts.
AgentPoll(a) ==
    /\ Serving
    /\ agents[a].pc = "known"
    /\ \E wait \in 0..MaxWait :
           /\ wait > 0 => now + wait < MaxTime    \* bound: the deadline can pass
           /\ agents' = [agents EXCEPT ![a].pc = "polling", ![a].told = NoAnswer,
                             ![a].deadline = IF wait = 0 THEN 0 ELSE now + wait]
    /\ UNCHANGED <<vars, page>>

\* status that waits as long as the request does.
statusPatient(a) ==
    LET r == agents[a].req IN
    /\ Serving
    /\ agents[a].pc = "polling"
    /\ Visible(agents[a].in.device, r) => terminal(requests[r].status)
    /\ IF Visible(agents[a].in.device, r) THEN Tell(a)
       ELSE agents' = [agents EXCEPT ![a] = Interrupted(@)]
    /\ UNCHANGED <<vars, page>>

\* status: the loop's last turn. It goes round while the request is on its way, the caller
\* asked to wait and the deadline has not passed; no turn writes anything.
status(a) ==
    LET r == agents[a].req IN
    /\ Serving
    /\ agents[a].pc = "polling"
    /\ IF Visible(agents[a].in.device, r)
       THEN /\ now > agents[a].deadline \/ agents[a].deadline = 0 \/ terminal(requests[r].status)
            /\ Tell(a)
       ELSE agents' = [agents EXCEPT ![a] = Interrupted(@)]
    /\ UNCHANGED <<vars, page>>
-----------------------------------------------------------------------------
\* review reads the status first.
ReviewStatus(r) ==
    /\ Serving
    /\ page = NoPage
    /\ Row(r)
    /\ page' = [pc |-> "status", req |-> r, purged |-> ~SnapshotReadable(r),
                snapshot |-> NoAnswer]
    /\ UNCHANGED <<vars, agents>>

\* review that shows what it has when the snapshot cannot be read.
reviewBlank ==
    /\ Serving
    /\ page # NoPage
    /\ page.pc = "status"
    /\ page' = [page EXCEPT !.pc = "shown",
                    !.snapshot = IF ~page.purged /\ SnapshotReadable(page.req)
                                 THEN Digest(requests[page.req]) ELSE NoAnswer]
    /\ UNCHANGED <<vars, agents>>

\* review then reads the snapshot, in another transaction, unless it was purged.
review ==
    /\ Serving
    /\ page # NoPage
    /\ page.pc = "status"
    /\ ~page.purged => SnapshotReadable(page.req)
    /\ page' = [page EXCEPT !.pc = "shown",
                    !.snapshot = IF page.purged THEN NoAnswer ELSE Digest(requests[page.req])]
    /\ UNCHANGED <<vars, agents>>

\* The page is left, or was never made: snapshot_integrity_failed.
LeavePage ==
    /\ page # NoPage
    /\ page' = NoPage
    /\ UNCHANGED <<vars, agents>>

ViewNext ==
    \/ GatewayStep
    \/ \E a \in Agent :
           \/ \E r \in ReqId : AgentSubmit(a, r)
           \/ AgentDuplicate(a) \/ AgentAnswer(a) \/ AgentLost(a) \/ AgentPoll(a) \/ status(a)
    \/ \E r \in ReqId : ReviewStatus(r)
    \/ review \/ LeavePage

ViewSpec == ViewInit /\ [][ViewNext]_viewed

\* The clock and the polling handler run; the worker, the owner and the agents need not.
ViewFairness ==
    /\ WF_viewed(Clock /\ UNCHANGED viewVars)
    /\ \A a \in Agent : WF_viewed(status(a))

FairViewSpec == ViewSpec /\ ViewFairness
-----------------------------------------------------------------------------
\* What an agent was told remains so. Told that its request failed, was denied, cancelled or
\* expired, it may count on nothing having been sent, now or later; told completed, on one
\* transmission (the status is read in one transaction, and no final status is left).
ToldTheTruth ==
    \A a \in Agent :
        /\ agents[a].told \in {"failed", "denied", "cancelled", "expired"}
               => sends[agents[a].req] = 0
        /\ agents[a].told = "completed" => sends[agents[a].req] = 1

\* An agent that loses answers and submits again until it gets one comes to hold the request
\* it asked for, with its own content, though others use the device and its keys too (the
\* comparison of the stored submission behind submit's lookup by key).
OwnRequest ==
    \A a \in Agent : agents[a].pc \in {"known", "polling"} =>
        LET r == agents[a].req IN
        Row(r) /\ SubmissionDigest(requests[r]) = agents[a].in

\* A review page on display, however long it has been open and whatever was decided, expired,
\* purged or restarted meanwhile, either says that the content is gone or shows exactly what
\* a decision posted from it would be about (review reads status and snapshot apart).
PageIsWhole ==
    page # NoPage => (page.pc = "shown" =>
        page.purged \/ page.snapshot = Digest(requests[page.req]))

\* What makes the three inductive: what an agent knows is about a row of its own content, an
\* outcome it was told is still the row's, and a page is about a row.
Knows(x) ==
    /\ x.pc \in {"submitting", "known", "polling"} =>
           x.req \in ReqId /\ Row(x.req) /\ SubmissionDigest(requests[x.req]) = x.in
    /\ x.told # NoAnswer => x.pc = "known" /\ requests[x.req].status = x.told
AgentsKnow == \A a \in Agent : Knows(agents[a])
PageOnRow == page # NoPage => Row(page.req)
ViewInv == RecordInv /\ ViewTypeOK /\ AgentsKnow /\ PageOnRow /\ PageIsWhole

\* A status call ends by itself, whatever the worker, the owner and the request do.
PollEnds == \A a \in Agent : agents[a].pc = "polling" ~> agents[a].pc # "polling"
=============================================================================
