\* A caller who waits as Retry-After says and is refused again.
SPECIFICATION Spec
CONSTANTS
  r1 = r1
  r2 = r2
  r3 = r3
  r4 = r4
  r5 = r5
  ip1 = ip1
  u1 = u1
  None = None
  Request = {r1, r2, r3}
  CategoryOf <- Categories
  IpOf <- OneAddress
  UserOf <- OneUser
  Limit <- LimitOne
  Window <- Windows
  Second = 2
  Delay = 0
  MaxTime = 7
INVARIANTS
  WaitIsEnough
CHECK_DEADLOCK FALSE
