\* One admin's call next to two deliveries of a digest and a reader's visit,
\* two attempts and one mishap; when all are served the system rests.
SPECIFICATION UsersSpec
CONSTANTS
  None = None
  a = a
  v = v
  Reader = {a, v}
  Existing = {a}
  Admins = {a}
  Call = {c1}
  Ask <- MCAsk
  MaxEvents = 0
  Token = {k1, k2}
  Task = {t1, t2}
  Visit = {r1}
  Flags <- MCFlags
  MaxAttempts = 2
  MaxMishaps = 1
INVARIANTS
  CopiesAccountedFor
  LogIsTrue
PROPERTIES
  CommitSettles
  LiveTokenStays
CHECK_DEADLOCK FALSE
