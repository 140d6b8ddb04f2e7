\* Two collector runs and two admins, sessions interleaved freely; no symmetry,
\* as a liveness property is checked.
SPECIFICATION FairSpec
CONSTANTS
  None = None
  Collector = {c1, c2}
  Admin = {a1, a2}
  Article = {x}
  Invalid = {}
  Threshold = 2
  Attempts = 1
  Reachable = TRUE
  Hanging = FALSE
  Fits = 0
  Overlap = TRUE
  MaxFaults = 1
INVARIANTS
  IInv
PROPERTIES
  CollectorsOnlyPark
  FailingSourceIsParked
CHECK_DEADLOCK FALSE
