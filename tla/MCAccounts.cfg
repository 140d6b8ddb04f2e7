\* Three overlapping calls, one expiry; a system with no call left to serve rests.
SPECIFICATION FairSpec
CONSTANTS
  None = None
  a = a
  v = v
  n = n
  c1 = c1
  c2 = c2
  c3 = c3
  Account = {a, v, n}
  Existing = {a, v}
  Admins = {a}
  Call = {c1, c2, c3}
  Ask <- MCAsk
  MaxEvents = 1
INVARIANTS
  ResetSpendsLink
PROPERTIES
  ChangesAreAudited
  OnlyWhatWasAsked
  PromiseSpec
  EveryCallEnds
CHECK_DEADLOCK FALSE
