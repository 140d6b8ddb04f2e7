\* Docs/01:489, a link works once: violated by two requests with one link.
SPECIFICATION FairSpec
CONSTANTS
  None = None
  a = a
  v = v
  n = n
  c1 = c1
  c2 = c2
  c3 = c3
  Account = {a, v, n}
  Existing = {a, v}
  Admins = {a}
  Call = {c1, c2, c3}
  Ask <- MCAsk
  MaxEvents = 1
INVARIANT
  OneUsePerLink
CHECK_DEADLOCK FALSE
