---------------------------- MODULE AgentProofs ----------------------------
(***************************************************************************)
(* Proofs about those who look at requests from outside: every step of     *)
(* theirs leaves the gateway's state alone or is a step of the gateway, so *)
(* its invariants carry over, and what they were told stays true because   *)
(* rows are never rebound and no final status is left.                     *)
(***************************************************************************)
EXTENDS Agents, GatewayProofs

USE DEF authorityVars, tableVars, dbVars, slotVars, workerVars, dispatchVars, memoryVars

LEMMA GatewayOrRest == ASSUME ViewNext PROVE Next \/ UNCHANGED vars
<1>1. ASSUME NEW a \in Agent, NEW r \in ReqId, AgentSubmit(a, r) PROVE DeviceSubmit(r)
  BY <1>1 DEF AgentSubmit, DeviceSubmit, Submission
<1>2. (\E r \in ReqId : DeviceSubmit(r)) => Next
  BY DEF Next
<1> QED
  BY <1>1, <1>2
     DEF ViewNext, GatewayStep, AgentDuplicate, AgentAnswer, AgentLost, AgentPoll, status,
         ReviewStatus, review, LeavePage

\* Looking changes nothing: with any number of agents that submit, lose answers, resubmit and
\* poll, and pages that are opened, what runs is the gateway (submit, RequestStatus, review),
\* and whatever is proved of the gateway holds.
THEOREM ViewersOnlyLook == ViewSpec => Spec
<1>1. ViewInit => Init
  BY DEF ViewInit
<1>2. [ViewNext]_viewed => [Next]_vars
  BY GatewayOrRest DEF viewed
<1> QED
  BY <1>1, <1>2, PTL DEF ViewSpec, Spec

\* A row stays the same submission, and a final status is final.
LEMMA RowPersists ==
    ASSUME RecordInv, [Next]_vars, NEW r \in ReqId, Row(r)
    PROVE  /\ Row(r)'
           /\ Digest(requests'[r]) = Digest(requests[r])
           /\ SubmissionDigest(requests'[r]) = SubmissionDigest(requests[r])
           /\ terminal(requests[r].status) => requests'[r].status = requests[r].status
<1>1. CASE UNCHANGED vars
  BY <1>1 DEF vars, Row
<1>2. CASE Next
  <2>1. RowStep(r)
    BY <1>2, StepOfRows DEF RecordInv, DispatchInv
  <2>2. Same(r)
    BY <2>1
       DEF RowStep, Inserted, Withdrawn, Purged, Decided, Refused, Claimed, Finished, Moves,
           Same, Row
  <2>3. terminal(requests[r].status) => requests'[r].status = requests[r].status
    BY <2>1
       DEF RowStep, Inserted, Withdrawn, Purged, Decided, Refused, Claimed, Finished, Moves,
           terminal, Waits
  <2>4. SubmissionDigest(requests'[r]) = SubmissionDigest(requests[r])
    BY <2>2 DEF Same, Digest, SubmissionDigest
  <2> QED
    BY <2>2, <2>3, <2>4 DEF Same, Row
<1> QED
  BY <1>1, <1>2

\* The gateway's invariants hold whatever the agents and the owner look at.
LEMMA GatewayKept == ASSUME RecordInv, [ViewNext]_viewed PROVE RecordInv' /\ [Next]_vars
<1>1. [Next]_vars
  BY GatewayOrRest DEF viewed
<1>2. ASSUME UNCHANGED vars PROVE RecordInv'
  BY <1>2, StepInv
     DEF RecordInv, vars, PermsExist, Unpurged, PastApproval, InStatus, Row, NeedsApproval,
         Approved, SnapshotReadable
<1> QED
  BY <1>1, <1>2, RecordStep

\* What an agent knows stays true while it does nothing.
LEMMA KnowsStill ==
    ASSUME RecordInv, [Next]_vars, NEW a \in Agent, agents[a] \in AgentState,
           Knows(agents[a]), agents'[a] = agents[a]
    PROVE  Knows(agents[a])'
<1> DEFINE x == agents[a]
           r == x.req
<1>1. x.pc \in {"submitting", "known", "polling"} =>
          r \in ReqId /\ requests'[r] # NoReq /\ SubmissionDigest(requests'[r]) = x.in
  BY RowPersists DEF Knows, Row
<1>2. x.told # NoAnswer => x.pc = "known" /\ requests'[r].status = x.told
  <2> SUFFICES ASSUME x.told # NoAnswer
               PROVE  x.pc = "known" /\ requests'[r].status = x.told
    OBVIOUS
  <2>1. /\ x.pc = "known" /\ requests[r].status = x.told /\ terminal(x.told)
        /\ r \in ReqId /\ Row(r)
    BY DEF Knows, AgentState
  <2> QED
    BY <2>1, RowPersists
<1> QED
  BY <1>1, <1>2 DEF Knows, Row

\* An agent whose call is cut short knows no more than before.
LEMMA KnowsLess ==
    ASSUME RecordInv, [Next]_vars, NEW a \in Agent, agents[a] \in AgentState,
           Knows(agents[a]), agents'[a] = Interrupted(agents[a])
    PROVE  Knows(agents[a])' /\ agents'[a] \in AgentState
<1> DEFINE x == agents[a]
           y == agents'[a]
           r == x.req
<1>1. CASE x.pc = "submitting"
  <2>1. y = [x EXCEPT !.pc = "unsure", !.req = NoReq]
    BY <1>1 DEF Interrupted
  <2>2. y \in AgentState /\ y.pc = "unsure" /\ y.told = x.told
    BY <2>1 DEF AgentState, AgentPC
  <2>3. x.told = NoAnswer
    BY <1>1 DEF Knows
  <2> QED
    BY <2>2, <2>3 DEF Knows
<1>2. CASE x.pc = "polling"
  <2>1. y = [x EXCEPT !.pc = "known"]
    BY <1>2 DEF Interrupted
  <2>2. /\ y \in AgentState /\ y.pc = "known" /\ y.told = x.told /\ y.req = r
        /\ y.in = x.in
    BY <2>1 DEF AgentState, AgentPC
  <2>3. x.told = NoAnswer /\ r \in ReqId /\ Row(r) /\ SubmissionDigest(requests[r]) = x.in
    BY <1>2 DEF Knows
  <2>4. requests'[r] # NoReq /\ SubmissionDigest(requests'[r]) = x.in
    BY <2>3, RowPersists DEF Row
  <2> QED
    BY <2>2, <2>3, <2>4 DEF Knows, Row
<1>3. CASE x.pc \notin {"submitting", "polling"}
  <2>1. y = x
    BY <1>3 DEF Interrupted
  <2> QED
    BY <2>1, KnowsStill
<1> QED
  BY <1>1, <1>2, <1>3

\* An agent that placed a submission on a row of that content.
LEMMA KnowsPlaced ==
    ASSUME RecordInv, NEW a \in Agent, agents \in [Agent -> AgentState],
           Knows(agents[a]), agents[a].pc \in {"idle", "unsure"},
           NEW in \in Submission, NEW r \in ReqId, Placed(a, in, r),
           Row(r)', SubmissionDigest(requests'[r]) = in
    PROVE  Knows(agents[a])' /\ agents'[a] \in AgentState
<1> DEFINE x == agents[a]
           y == agents'[a]
<1>1. y = [x EXCEPT !.pc = "submitting", !.in = in, !.req = r]
  BY DEF Placed
<1>2. /\ y \in AgentState /\ y.pc = "submitting" /\ y.in = in /\ y.req = r
      /\ y.told = x.told
  BY <1>1 DEF AgentState, AgentPC
<1>3. x.told = NoAnswer
  BY DEF Knows
<1> QED
  BY <1>2, <1>3 DEF Knows

\* An agent that was told a status.
LEMMA KnowsTold ==
    ASSUME RecordInv, NEW a \in Agent, agents \in [Agent -> AgentState],
           Knows(agents[a]), agents[a].pc \in {"submitting", "polling"}, Tell(a),
           UNCHANGED vars
    PROVE  Knows(agents[a])' /\ agents'[a] \in AgentState
<1> DEFINE x == agents[a]
           y == agents'[a]
           r == x.req
           current == requests[r].status
           t == IF terminal(current) THEN current ELSE NoAnswer
<1>1. r \in ReqId /\ Row(r) /\ SubmissionDigest(requests[r]) = x.in
  BY DEF Knows
<1>2. current \in Status
  BY <1>1 DEF RecordInv, DispatchInv, HoldInv, TypeOK, RequestsTypeOK, Row, Request
<1>3. y = [x EXCEPT !.pc = "known", !.deadline = 0, !.told = t]
  BY DEF Tell
<1>4. /\ (t \in Status /\ terminal(t)) \/ t = NoAnswer
      /\ t # NoAnswer => t = current
  BY <1>2
<1>5. 0 \in 0..(MaxTime + MaxWait)
  BY BoundAssumption, ViewAssumption
<1> HIDE DEF t
<1>6. /\ y \in AgentState /\ y.pc = "known" /\ y.in = x.in /\ y.req = r
      /\ y.told = t
  <2>1. /\ x.in \in Submission \cup {NoAnswer} /\ x.req \in ReqId \cup {NoReq}
        /\ y = [pc |-> "known", in |-> x.in, req |-> x.req, told |-> t, deadline |-> 0]
    BY <1>3 DEF AgentState
  <2>2. y \in AgentState
    BY <1>4, <1>5, <2>1 DEF AgentState, AgentPC
  <2> QED
    BY <2>1, <2>2
<1>7. requests' = requests
  BY DEF vars
<1> QED
  BY <1>1, <1>4, <1>6, <1>7 DEF Knows, Row

\* An agent whose status call arrives.
LEMMA KnowsPolling ==
    ASSUME RecordInv, NEW a \in Agent, agents \in [Agent -> AgentState],
           Knows(agents[a]), AgentPoll(a)
    PROVE  Knows(agents[a])' /\ agents'[a] \in AgentState
<1> DEFINE x == agents[a]
           y == agents'[a]
           r == x.req
<1>1. /\ r \in ReqId /\ Row(r) /\ SubmissionDigest(requests[r]) = x.in
      /\ requests' = requests
  BY DEF Knows, AgentPoll, vars
<1>2. PICK wait \in 0..MaxWait :
          agents' = [agents EXCEPT ![a].pc = "polling", ![a].told = NoAnswer,
                         ![a].deadline = IF wait = 0 THEN 0 ELSE now + wait]
  BY DEF AgentPoll
<1> DEFINE dl == IF wait = 0 THEN 0 ELSE now + wait
<1>3. dl \in 0..(MaxTime + MaxWait)
  BY BoundAssumption, ViewAssumption
     DEF RecordInv, DispatchInv, HoldInv, TypeOK, AuthorityTypeOK, Time
<1>4. y = [x EXCEPT !.pc = "polling", !.told = NoAnswer, !.deadline = dl]
  BY <1>2
<1> HIDE DEF dl
<1>5. /\ y \in AgentState /\ y.pc = "polling" /\ y.in = x.in /\ y.req = r
      /\ y.told = NoAnswer
  BY <1>3, <1>4 DEF AgentState, AgentPC
<1> QED
  BY <1>1, <1>5 DEF Knows, Row

\* What Submit inserts is what was submitted.
LEMMA SubmittedRow ==
    ASSUME TypeOK, NEW r \in ReqId, NEW in \in Submission, Transaction,
           Submit(r, in.device, in.key, in.service, in.route, in.body)
    PROVE  Row(r)' /\ SubmissionDigest(requests'[r]) = in
<1>1. DeviceSubmit(r)
  BY DEF DeviceSubmit, Submission
<1>2. Row(r)'
  BY <1>1, SubmitRow DEF Inserted, Row
<1>3. PICK p : InsertRequest(r, in.device, in.key, in.service, in.route, in.body, p)
  BY DEF Submit
<1>4. /\ requests'[r].device = in.device /\ requests'[r].key = in.key
      /\ requests'[r].service = in.service /\ requests'[r].route = in.route
      /\ requests'[r].body = in.body
  BY <1>3 DEF InsertRequest, TypeOK, RequestsTypeOK
<1>5. in = [device |-> in.device, key |-> in.key, service |-> in.service, route |-> in.route,
            body |-> in.body]
  BY DEF Submission
<1> QED
  BY <1>2, <1>4, <1>5 DEF SubmissionDigest

LEMMA AgentsStep ==
    ASSUME ViewInv, ViewNext
    PROVE  agents' \in [Agent -> AgentState] /\ AgentsKnow'
<1>i. /\ RecordInv /\ TypeOK /\ agents \in [Agent -> AgentState]
      /\ \A a \in Agent : Knows(agents[a])
      /\ [Next]_vars
  BY GatewayKept DEF ViewInv, RecordInv, DispatchInv, HoldInv, ViewTypeOK, AgentsKnow
<1>u. UNCHANGED agents => agents' \in [Agent -> AgentState] /\ AgentsKnow'
  BY <1>i, KnowsStill DEF AgentsKnow
<1>a. ASSUME NEW a \in Agent, DOMAIN agents' = Agent, agents' = [agents EXCEPT ![a] = agents'[a]],
             Knows(agents[a])' /\ agents'[a] \in AgentState
      PROVE  agents' \in [Agent -> AgentState] /\ AgentsKnow'
  <2>1. \A b \in Agent : b # a => agents'[b] = agents[b]
    BY <1>a, <1>i
  <2>2. \A b \in Agent : Knows(agents[b])' /\ agents'[b] \in AgentState
    BY <1>a, <1>i, <2>1, KnowsStill
  <2> QED
    BY <1>a, <1>i, <2>2 DEF AgentsKnow
<1>1. CASE GatewayStep
  <2>1. CASE phase' \in {"closed", "crashed"}
    <3>1. agents' = [a \in Agent |-> Interrupted(agents[a])]
      BY <1>1, <2>1 DEF GatewayStep
    <3>2. \A a \in Agent : Knows(agents[a])' /\ agents'[a] \in AgentState
      BY <1>i, <3>1, KnowsLess
    <3> QED
      BY <3>1, <3>2 DEF AgentsKnow
  <2>2. CASE ~(phase' \in {"closed", "crashed"})
    BY <1>1, <1>u, <2>2 DEF GatewayStep
  <2> QED
    BY <2>1, <2>2
<1>2. ASSUME NEW a \in Agent, NEW r \in ReqId, AgentSubmit(a, r)
      PROVE  agents' \in [Agent -> AgentState] /\ AgentsKnow'
  <2>1. PICK in \in Submission :
            /\ Transaction /\ Resends(a, in)
            /\ Submit(r, in.device, in.key, in.service, in.route, in.body)
            /\ Placed(a, in, r)
    BY <1>2 DEF AgentSubmit
  <2>2. Row(r)' /\ SubmissionDigest(requests'[r]) = in
    BY <1>i, <2>1, SubmittedRow
  <2>3. Knows(agents[a])' /\ agents'[a] \in AgentState
    BY <1>i, <2>1, <2>2, KnowsPlaced DEF Resends
  <2>4. DOMAIN agents' = Agent /\ agents' = [agents EXCEPT ![a] = agents'[a]]
    BY <1>i, <2>1 DEF Placed
  <2> QED
    BY <1>a, <2>3, <2>4
<1>3. ASSUME NEW a \in Agent, AgentDuplicate(a)
      PROVE  agents' \in [Agent -> AgentState] /\ AgentsKnow'
  <2>0. PICK in \in Submission :
            /\ Resends(a, in) /\ UNCHANGED vars
            /\ \E r \in SameKey(in.device, in.key) :
                   SubmissionDigest(requests[r]) = in /\ Placed(a, in, r)
    BY <1>3 DEF AgentDuplicate
  <2>1. PICK r \in SameKey(in.device, in.key) :
            /\ Resends(a, in) /\ SubmissionDigest(requests[r]) = in
            /\ Placed(a, in, r) /\ UNCHANGED vars
    BY <2>0
  <2>2. r \in ReqId /\ Row(r)' /\ SubmissionDigest(requests'[r]) = in
    BY <2>1 DEF SameKey, vars, Row
  <2>3. Knows(agents[a])' /\ agents'[a] \in AgentState
    BY <1>i, <2>1, <2>2, KnowsPlaced DEF Resends
  <2>4. DOMAIN agents' = Agent /\ agents' = [agents EXCEPT ![a] = agents'[a]]
    BY <1>i, <2>1 DEF Placed
  <2> QED
    BY <1>a, <2>3, <2>4
<1>t. ASSUME NEW a \in Agent, Tell(a), UNCHANGED vars,
             agents[a].pc \in {"submitting", "polling"}
      PROVE  agents' \in [Agent -> AgentState] /\ AgentsKnow'
  <2>1. Knows(agents[a])' /\ agents'[a] \in AgentState
    BY <1>i, <1>t, KnowsTold
  <2>2. DOMAIN agents' = Agent /\ agents' = [agents EXCEPT ![a] = agents'[a]]
    BY <1>i, <1>t DEF Tell
  <2> QED
    BY <1>a, <2>1, <2>2
<1>l. ASSUME NEW a \in Agent, agents' = [agents EXCEPT ![a] = Interrupted(agents[a])]
      PROVE  agents' \in [Agent -> AgentState] /\ AgentsKnow'
  <2>1. agents'[a] = Interrupted(agents[a]) /\ DOMAIN agents' = Agent
    BY <1>i, <1>l
  <2>2. Knows(agents[a])' /\ agents'[a] \in AgentState
    BY <1>i, <2>1, KnowsLess
  <2>3. agents' = [agents EXCEPT ![a] = agents'[a]]
    BY <1>i, <1>l, <2>1
  <2> QED
    BY <1>a, <2>1, <2>2, <2>3
<1>4. ASSUME NEW a \in Agent, AgentAnswer(a) \/ AgentLost(a) \/ status(a)
      PROVE  agents' \in [Agent -> AgentState] /\ AgentsKnow'
  BY <1>4, <1>t, <1>l DEF AgentAnswer, AgentLost, status
<1>5. ASSUME NEW a \in Agent, AgentPoll(a)
      PROVE  agents' \in [Agent -> AgentState] /\ AgentsKnow'
  <2>1. Knows(agents[a])' /\ agents'[a] \in AgentState
    BY <1>i, <1>5, KnowsPolling
  <2>2. DOMAIN agents' = Agent /\ agents' = [agents EXCEPT ![a] = agents'[a]]
    BY <1>i, <1>5 DEF AgentPoll
  <2> QED
    BY <1>a, <2>1, <2>2
<1>6. (\E r \in ReqId : ReviewStatus(r)) \/ review \/ LeavePage => UNCHANGED agents
  BY DEF ReviewStatus, review, LeavePage
<1> QED
  BY <1>u, <1>1, <1>2, <1>3, <1>4, <1>5, <1>6 DEF ViewNext

\* What a page shows stays what a decision posted from it would be about.
PageInv == page \in Page \cup {NoPage} /\ PageOnRow /\ PageIsWhole
LEMMA PageStep ==
    ASSUME RecordInv, [Next]_vars, PageInv, ViewNext PROVE PageInv'
<1>n. page' = NoPage => PageInv'
  BY DEF PageInv, PageOnRow, PageIsWhole
<1>u. ASSUME UNCHANGED page PROVE PageInv'
  <2>1. CASE page = NoPage
    BY <1>u, <1>n, <2>1
  <2>2. CASE page # NoPage
    <3>1. page.req \in ReqId /\ Row(page.req)
      BY <2>2 DEF PageInv, PageOnRow, Page
    <3>2. requests'[page.req] # NoReq /\ Digest(requests'[page.req]) = Digest(requests[page.req])
      BY <3>1, RowPersists DEF Row
    <3> QED
      BY <1>u, <2>2, <3>2 DEF PageInv, PageOnRow, PageIsWhole, Row
  <2> QED
    BY <2>1, <2>2
<1>1. ASSUME NEW r \in ReqId, ReviewStatus(r) PROVE PageInv'
  <2>1. /\ page' = [pc |-> "status", req |-> r, purged |-> ~SnapshotReadable(r),
                    snapshot |-> NoAnswer]
        /\ Row(r) /\ UNCHANGED requests
    BY <1>1 DEF ReviewStatus, vars
  <2>2. (~SnapshotReadable(r)) \in BOOLEAN
    OBVIOUS
  <2>3. page' \in Page /\ page'.pc = "status" /\ page'.req = r
    BY <2>1, <2>2 DEF Page
  <2> QED
    BY <2>1, <2>3 DEF PageInv, PageOnRow, PageIsWhole, Row
<1>2. CASE review
  <2> DEFINE s == IF page.purged THEN NoAnswer ELSE Digest(requests[page.req])
  <2>1. /\ page \in Page /\ page # NoPage /\ page.req \in ReqId /\ Row(page.req)
        /\ page' = [page EXCEPT !.pc = "shown", !.snapshot = s]
        /\ UNCHANGED requests
    BY <1>2 DEF review, vars, PageInv, PageOnRow, Page
  <2>2. Digest(requests[page.req]) \in Snapshot
    BY <2>1
       DEF RecordInv, DispatchInv, HoldInv, TypeOK, RequestsTypeOK, Row, Request, Digest,
           Snapshot
  <2>3. s \in Snapshot \cup {NoAnswer} /\ (page.purged \/ s = Digest(requests[page.req]))
    BY <2>2
  <2> HIDE DEF s
  <2>4. /\ page' \in Page /\ page'.req = page.req /\ page'.purged = page.purged
        /\ page'.snapshot = s
    BY <2>1, <2>3 DEF Page
  <2> QED
    BY <2>1, <2>3, <2>4 DEF PageInv, PageOnRow, PageIsWhole, Row
<1>3. GatewayStep \/ LeavePage => page' = NoPage \/ UNCHANGED page
  BY DEF GatewayStep, LeavePage
<1>4. (\E a \in Agent : \/ \E r \in ReqId : AgentSubmit(a, r)
                        \/ AgentDuplicate(a) \/ AgentAnswer(a) \/ AgentLost(a)
                        \/ AgentPoll(a) \/ status(a))
      => UNCHANGED page
  BY DEF AgentSubmit, AgentDuplicate, AgentAnswer, AgentLost, AgentPoll, status, Placed
<1> QED
  BY <1>n, <1>u, <1>1, <1>2, <1>3, <1>4 DEF ViewNext

\* ViewInv holds over every step of the gateway, of the agents and of the owner's page.
THEOREM ViewInvariant == ViewSpec => []ViewInv
<1>1. ViewInit => ViewInv
  <2> SUFFICES ASSUME ViewInit PROVE ViewInv
    OBVIOUS
  <2>1. RecordInv
    BY InitInv
       DEF ViewInit, Init, RequestsInit, RecordInv, PermsExist, Unpurged, PastApproval,
           InStatus, Row
  <2>2. NewAgent \in AgentState /\ NewAgent.pc = "idle" /\ NewAgent.told = NoAnswer
    BY BoundAssumption, ViewAssumption DEF NewAgent, AgentState, AgentPC
  <2>3. ViewTypeOK /\ AgentsKnow
    BY <2>2 DEF ViewInit, ViewTypeOK, AgentsKnow, Knows
  <2> QED
    BY <2>1, <2>3 DEF ViewInit, ViewInv, PageOnRow, PageIsWhole
<1>2. ASSUME ViewInv, ViewNext PROVE ViewInv'
  <2>1. RecordInv /\ RecordInv' /\ [Next]_vars
    BY <1>2, GatewayKept DEF ViewInv
  <2>2. PageInv'
    BY <1>2, <2>1, PageStep DEF ViewInv, ViewTypeOK, PageInv
  <2> QED
    BY <1>2, <2>1, <2>2, AgentsStep DEF ViewInv, ViewTypeOK, PageInv
<1>3. ASSUME ViewInv, UNCHANGED viewed PROVE ViewInv'
  <2>1. RecordInv' /\ UNCHANGED <<agents, page, requests>>
    BY <1>3, GatewayKept DEF ViewInv, viewed, viewVars, vars
  <2> QED
    BY <1>3, <2>1
       DEF ViewInv, ViewTypeOK, AgentsKnow, Knows, PageOnRow, PageIsWhole, Row
<1>4. ViewInv /\ [ViewNext]_viewed => ViewInv'
  BY <1>2, <1>3
<1> QED
  BY <1>1, <1>4, PTL DEF ViewSpec

\* Whatever an agent was told about its request's outcome stays true of the upstream.
THEOREM AgentsToldTheTruth == ViewSpec => []ToldTheTruth
<1>1. ASSUME ViewInv PROVE ToldTheTruth
  <2> SUFFICES ASSUME NEW a \in Agent, agents[a].told # NoAnswer
               PROVE  /\ agents[a].told \in {"failed", "denied", "cancelled", "expired"}
                             => sends[agents[a].req] = 0
                      /\ agents[a].told = "completed" => sends[agents[a].req] = 1
    <3>1. \A t \in {"failed", "denied", "cancelled", "expired", "completed"} : t # NoAnswer
      BY ViewAssumption DEF Status
    <3> QED
      BY <3>1 DEF ToldTheTruth
  <2> DEFINE r == agents[a].req
  <2>1. r \in ReqId /\ Row(r) /\ requests[r].status = agents[a].told
    BY <1>1 DEF ViewInv, AgentsKnow, Knows
  <2>2. /\ sends[r] \in {0, 1}
        /\ sends[r] > 0 => InStatus(r, {"dispatching", "completed", "outcome_unknown"})
        /\ InStatus(r, {"completed"}) => sends[r] > 0
    BY <1>1, <2>1 DEF ViewInv, RecordInv, DispatchInv, HoldInv, AtMostOnce, HonestOutcome
  <2> QED
    BY <2>1, <2>2 DEF InStatus
<1> QED
  BY <1>1, ViewInvariant, PTL

\* The request an agent ends up with has the content it asked for.
THEOREM AgentsHoldTheirOwn == ViewSpec => []OwnRequest
<1>1. ViewInv => OwnRequest
  BY DEF ViewInv, AgentsKnow, Knows, OwnRequest
<1> QED
  BY <1>1, ViewInvariant, PTL

\* A review page on display is about what a decision posted from it decides.
THEOREM PagesAreWhole == ViewSpec => []PageIsWhole
<1>1. ViewInv => PageIsWhole
  BY DEF ViewInv
<1> QED
  BY <1>1, ViewInvariant, PTL

\* Agents and pages keep their types.
THEOREM ViewTypes == ViewSpec => []ViewTypeOK
<1>1. ViewInv => ViewTypeOK
  BY DEF ViewInv
<1> QED
  BY <1>1, ViewInvariant, PTL
=============================================================================
