\* A second call that meets the end of the first generation.  With
\* SectionsOfOneGeneration as its INVARIANT: two tasks that both add their
\* sections to one digest.
SPECIFICATION Spec
CONSTANTS
  None = None
  Post = {p1, p2}
  Recipient = {u1}
  Overlap = TRUE
INVARIANT
  ReadyHasSections
CHECK_DEADLOCK FALSE
