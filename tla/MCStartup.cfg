SPECIFICATION Spec
CONSTANTS
  Proc = {p1, p2}
  Secret = {s1, s2}
  Latest = 4
  NoSecret = NoSecret NoRoot = NoRoot
INVARIANTS
  TypeOK MigratedOnce ServesItsFile
PROPERTIES
  RootStays
