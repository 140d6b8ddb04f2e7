\* Docs/01:162, every edit of a template is a version: violated by two editors.
SPECIFICATION ChatSpec
CONSTANTS
  e1 = e1
  e2 = e2
  k1 = k1
  k2 = k2
  k3 = k3
  s = s
  t1 = t1
  t2 = t2
  o1 = o1
  o2 = o2
  v0 = v0
  v1 = v1
  n1 = n1
  n2 = n2
  p = p
  q = q
  Key = {k1, k2, k3}
  Setting = {s}
  Template = {t1, t2}
  Source = {o1, o2}
  Seed <- MCSeed
  Edit = {e1, e2}
  Ask <- MCAsk
  MaxFailures = 1
  Question = {w1}
  Generation = {d1}
  Rank <- MCRank
  Sections = 2
SYMMETRY Symmetry
PROPERTY
  VersionGrows
CHECK_DEADLOCK FALSE
