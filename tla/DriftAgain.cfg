SPECIFICATION Spec
CONSTANTS
  Writers = {w1, w2, w3}
  Sections = {"drift", "notifications"}
  Overlapping = FALSE
  MaxCrashes = 0
  MaxErrors = 0
  Callers = {c1}
  Intervals = {0, 1}
  None = None
  Empty = Empty
  Broken = Broken
SYMMETRY WriterSymmetry
INVARIANTS
  OnIsScheduled
\* Requests run out.
CHECK_DEADLOCK FALSE
