SPECIFICATION RestoreSpec
CONSTANTS
  d1 = d1 d2 = d2 p1 = p1 p2 = p2 r1 = r1 r2 = r2
  Device = {d1, d2}
  Service = {s1}
  PermId = {p1}
  ReqId = {r1, r2}
  Key = {k1}
  Body = {b1}
  Job = {j1}
  Handler = {}
  NoPerm = NoPerm NoReq = NoReq NoDecision = NoDecision NoCall = NoCall NoBackup = NoBackup
  Rules <- OneRule
  Routes <- OneRoute
  MaxTime = 1 MaxRevision = 1 Expiries = {2}
  PendingLimit = 1 QueueTTL = 1 ApprovalTTL = 1 Retention = 1
  DeviceLimit = 1 GlobalLimit = 1 BatchLimit = 1 MaxFaults = 0
SYMMETRY Symmetry
INVARIANTS
  OneEffectAcrossRestores EarlierLifeIsOver
