CONSTANTS
  j1 = j1
  j2 = j2
  r1 = r1
  r2 = r2
  w1 = w1
  w2 = w2
  AllJobs = AllJobs
  Nil = Nil
  Jobs = {j1}
  Readers = {r1, r2}
  Writers = {w1, w2}
  MaxVersion = 3
SPECIFICATION FairSpec
PROPERTY
  EntriesHeal
CHECK_DEADLOCK FALSE
