CONSTANTS
  u1 = u1
  r1 = r1
  l1 = l1
  l2 = l2
  Users = {u1}
  Requests = {r1, l1, l2}
  Logouts = {l1, l2}
  Second = 3
  Milli = 2
  Lifetime = 1
  Nobody = Nobody
  MaxTime = 6
SPECIFICATION Spec
SYMMETRY Symmetry
INVARIANT
  TypeOK
PROPERTY
  RevokedIsRefused
CHECK_DEADLOCK FALSE
