\* Calls one after the other, each task after its request's commit.
SPECIFICATION Spec
CONSTANTS
  None = None
  Post = {p1, p2, p3}
  Recipient = {u1, u2}
  Overlap = FALSE
SYMMETRY Symmetry
PROPERTIES
  BoardSpec
CHECK_DEADLOCK FALSE
