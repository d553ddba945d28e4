CONSTANTS
  r1 = r1
  r2 = r2
  r3 = r3
  a1 = a1
  a2 = a2
  Requests = {r1, r2}
  Applications = {a1, a2}
  Target <- MCTargetEach
  BatchLimit = 1
SPECIFICATION FairSpec
PROPERTY
  PendingRepublished
