\* Two calls for one period and two recipients, sessions interleaved freely.
SPECIFICATION FairSpec
CONSTANTS
  None = None
  Post = {p1, p2}
  Recipient = {u1, u2}
  Overlap = TRUE
INVARIANTS
  IInv
  AtMostOnceNotified
PROPERTIES
  ReadyComesWithSections
  EverySessionEnds
CHECK_DEADLOCK FALSE
