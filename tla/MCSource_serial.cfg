\* Overlapping runs whose sessions on the row do not overlap; a second fetch
\* attempt runs into the timeout of the Lambda.
SPECIFICATION Spec
CONSTANTS
  None = None
  Collector = {c1, c2}
  Admin = {a1, a2}
  Article = {x, y}
  Invalid = {y}
  Threshold = 3
  Attempts = 2
  Reachable = TRUE
  Hanging = TRUE
  Fits = 1
  Overlap = FALSE
  MaxFaults = 1
INVARIANTS
  SuccessMeansPublished
PROPERTIES
  HealthSpec
CHECK_DEADLOCK FALSE
