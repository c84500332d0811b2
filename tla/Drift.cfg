SPECIFICATION Spec
CONSTANTS
  Writers = {w1, w2, w3}
  Sections = {"drift", "notifications"}
  Overlapping = FALSE
  MaxCrashes = 1
  MaxErrors = 1
  Callers = {c1}
  Intervals = {0, 1}
  None = None
  Empty = Empty
  Broken = Broken
SYMMETRY WriterSymmetry
INVARIANTS
  TypeOK
  RestartLosesNothing
  OneRound
  SchedulerFollows
\* Requests run out.
CHECK_DEADLOCK FALSE
