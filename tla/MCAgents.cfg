SPECIFICATION FairViewSpec
CONSTANTS
  Device = {d1}
  Service = {s1}
  PermId = {p1}
  ReqId = {r1}
  Key = {k1}
  Body = {b1, b2}
  Job = {j1}
  Handler = {}
  Agent = {a1}
  NoPerm = NoPerm NoReq = NoReq NoDecision = NoDecision NoCall = NoCall
  NoAnswer = NoAnswer NoPage = NoPage
  Rules <- OneRule
  Routes <- OneRoute
  MaxTime = 2 MaxRevision = 1 Expiries = {3} MaxWait = 1
  PendingLimit = 1 QueueTTL = 1 ApprovalTTL = 1 Retention = 0
  DeviceLimit = 1 GlobalLimit = 1 BatchLimit = 1 MaxFaults = 0
INVARIANTS
  ViewTypeOK ToldTheTruth OwnRequest PageIsWhole
PROPERTIES
  PollEnds
