CONSTANTS
  Workers = {w1, w2}
  Bodies = {e1}
  Addressed = {e1}
  Garbage = {}
  MaxRetries = 2
  NoMessage = NoMessage
  MaxPublishes = 1
  MaxFaults = 2
SPECIFICATION Spec
SYMMETRY WorkerSymmetry
INVARIANTS
  NoMessageVanishes
  DeadLetterAfterRetries
  CopiesConserved
  AttemptsBounded
PROPERTY
  WorkRunsOut
CHECK_DEADLOCK FALSE
