\* The run that parks a source an admin has just passivated.
SPECIFICATION Spec
CONSTANTS
  None = None
  Collector = {c1, c2}
  Admin = {a1}
  Article = {x}
  Invalid = {}
  Threshold = 3
  Attempts = 1
  Reachable = FALSE
  Hanging = FALSE
  Fits = 0
  Overlap = FALSE
  MaxFaults = 0
PROPERTIES
  OnlyActiveIsParked
CHECK_DEADLOCK FALSE
