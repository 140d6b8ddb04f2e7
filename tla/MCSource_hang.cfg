\* A source whose fetches time out, in a Lambda that has room for one.
SPECIFICATION FairSpec
CONSTANTS
  None = None
  Collector = {c1}
  Admin = {}
  Article = {x}
  Invalid = {}
  Threshold = 3
  Attempts = 4
  Reachable = FALSE
  Hanging = TRUE
  Fits = 1
  Overlap = FALSE
  MaxFaults = 0
PROPERTIES
  FailingSourceIsParked
CHECK_DEADLOCK FALSE
