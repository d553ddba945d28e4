CONSTANTS
  Requests = {r1, r2, r3, r4}
  Jobs = {j1}
  Seekers = {s1}
  Employers = {e1, e2}
  Decisions = {accepted, rejected}
  Nobody = Nobody
SYMMETRY Symmetry
SPECIFICATION Spec
INVARIANTS
  TypeOK
  AnswersWereTrue
  PosterRefusedOnlyWhenRaced
  ServerErrorsExplained
  NoOrphans
  AppliedUntilJobGone
  DecidedByPoster
CHECK_DEADLOCK FALSE
