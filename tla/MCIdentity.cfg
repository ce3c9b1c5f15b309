SPECIFICATION Spec
CONSTANTS
  d1 = d1 d2 = d2 p1 = p1 p2 = p2 f1 = f1 f2 = f2 k1 = k1 k2 = k2
  Device = {d1, d2}
  Path = {f1}
  Proc = {p1, p2}
  Key = {k1, k2}
  None = None NoFile = NoFile Torn = Torn
  MaxTime = 2 CertLife = 2 RenewBefore = 1 InviteTTL = 1
SYMMETRY Symmetry
INVARIANTS
  TypeOK OneKeyPerDevice
PROPERTIES
  IdentitySurvives NoneForRevoked
