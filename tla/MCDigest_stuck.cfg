\* The failed generation that stays GENERATING.
SPECIFICATION Spec
CONSTANTS
  None = None
  Post = {p1}
  Recipient = {u1}
  Overlap = FALSE
INVARIANT
  FailureIsRecorded
CHECK_DEADLOCK FALSE
