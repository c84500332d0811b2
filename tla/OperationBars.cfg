SPECIFICATION Spec
CONSTANTS
  Runs = {r1, r2}
  Actions = {"plan", "apply"}
  NoOp = NoOp
INVARIANTS
  TypeOK
  ToldAsItEnded
  RunningBarIsServed
PROPERTIES
  EveryBarEnds
\* Every run may have been started, ended and dismissed.
CHECK_DEADLOCK FALSE
