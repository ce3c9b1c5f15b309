SPECIFICATION Spec
CONSTANTS
  Token = {t1, t2}
  Handler = {h1, h2}
  NoSession = NoSession NoRequest = NoRequest
  Limit = 2 Minute = 2 SessionLife = 3 MaxTime = 5 MaxLogins = 4
INVARIANTS
  TypeOK LoginsWithinLimit
PROPERTIES
  LoggedOutStaysOut
