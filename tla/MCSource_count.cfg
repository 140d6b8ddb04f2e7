\* The count that survives a detour over INACTIVE.
SPECIFICATION Spec
CONSTANTS
  None = None
  Collector = {c1}
  Admin = {a1, a2}
  Article = {x}
  Invalid = {}
  Threshold = 3
  Attempts = 1
  Reachable = FALSE
  Hanging = FALSE
  Fits = 0
  Overlap = FALSE
  MaxFaults = 0
INVARIANTS
  ActiveBelowThreshold
CHECK_DEADLOCK FALSE
