\* All backends: four logins from one address of which two are allowed in a
\* window of two seconds, pipelines that may take a second, and a probe.
SPECIFICATION Spec
CONSTANTS
  r1 = r1
  r2 = r2
  r3 = r3
  r4 = r4
  r5 = r5
  ip1 = ip1
  u1 = u1
  None = None
  Request = {r1, r2, r3, r4, r5}
  CategoryOf <- Categories
  IpOf <- OneAddress
  UserOf <- OneUser
  Limit <- LimitTwo
  Window <- Windows
  Second = 2
  Delay = 2
  MaxTime = 6
SYMMETRY Symmetry
INVARIANTS
  IInv
  AdmittedWithinLimit
  RefusedOnlyOverLimit
  RetryAfterNotTooLong
CHECK_DEADLOCK FALSE
