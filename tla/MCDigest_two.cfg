\* The task that does not see the digest of its own request.
SPECIFICATION Spec
CONSTANTS
  None = None
  Post = {p1}
  Recipient = {u1}
  Overlap = TRUE
INVARIANT
  OneDigestPerPeriod
CHECK_DEADLOCK FALSE
