CONSTANTS
  Keys = {k1, k2}
  Handlers = {h1, h2}
  MaxRequests = 2
  Window = 3
  None = None
SPECIFICATION FairSpec
INVARIANTS
  TypeOK
  WindowBound
  NoExpiryExplained
PROPERTY
  LockoutEnds
