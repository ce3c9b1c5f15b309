SPECIFICATION Spec
CONSTANTS
  d1 = d1 d2 = d2 p1 = p1 p2 = p2 r1 = r1 r2 = r2 r3 = r3
  j1 = j1 j2 = j2 j3 = j3 k1 = k1 k2 = k2 k3 = k3 h1 = h1 h2 = h2 b1 = b1 b2 = b2
  Device = {d1}
  Service = {s1}
  PermId = {p1}
  ReqId = {r1}
  Key = {k1}
  Body = {b1}
  Job = {j1, j2}
  Handler = {}
  NoPerm = NoPerm NoReq = NoReq NoDecision = NoDecision NoCall = NoCall
  Rules <- OneRule
  Routes <- OneRoute
  MaxTime = 4 MaxRevision = 2 Expiries = {2, 5}
  PendingLimit = 1 QueueTTL = 1 ApprovalTTL = 2 Retention = 1
  DeviceLimit = 2 GlobalLimit = 2 BatchLimit = 2 MaxFaults = 1
SYMMETRY Symmetry
INVARIANTS
  TypeOK HonestOutcome LiveAuthority CleanShutdown
PROPERTIES
  ClaimBoundary RecordsKept ImplementsLifecycle
