CONSTANTS
  r1 = r1
  w1 = w1
  a1 = a1
  Requests = {r1}
  Applications = {a1}
  Target <- MCTarget
  BatchLimit = 1
  Workers = {w1}
  MaxRetries = 1
  NoMessage = NoMessage
  MaxPublishes = 2
  MaxFaults = 1
SPECIFICATION FairSpec
INVARIANT
  ExtrasExplained
PROPERTIES
  KeepsPromise
  DebtsSettled
CHECK_DEADLOCK FALSE
