\* A push token registered during a delivery stays: violated, the old copy is cleared over it.
SPECIFICATION UsersSpec
CONSTANTS
  None = None
  a = a
  v = v
  Reader = {a, v}
  Existing = {a}
  Admins = {a}
  Call = {c1}
  Ask <- MCAsk
  MaxEvents = 0
  Token = {k1, k2}
  Task = {t1, t2}
  Visit = {r1}
  Flags <- MCFlags
  MaxAttempts = 2
  MaxMishaps = 1
PROPERTY
  FreshTokenStays
CHECK_DEADLOCK FALSE
