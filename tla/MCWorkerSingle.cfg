CONSTANTS
  Workers = {w1}
  Bodies = {withAddress, withoutAddress, invalid}
  Addressed = {withAddress}
  Garbage = {invalid}
  MaxRetries = 2
  NoMessage = NoMessage
  MaxPublishes = 1
  MaxFaults = 1
SPECIFICATION FairSpec
INVARIANTS
  TypeOK
  NoMessageVanishes
  DeadLetterAfterRetries
PROPERTY
  QueueDrains
CHECK_DEADLOCK FALSE
