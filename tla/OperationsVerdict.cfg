SPECIFICATION FairSpec
CONSTANTS
  Requests = {r1, r2}
  Keys = {k1}
  UnnamedKeys = {}
  Actions = {"plan", "apply", "destroy", "refresh"}
  Routes = {"ws"}
  Kubernetes = FALSE
  RemoteState = TRUE
  EditRenames = FALSE
  StaleRows = TRUE
  MaxInFlight = 2
  Faults = {"crash", "collision", "lostwrite"}
  MaxFaults = 2
  None = None
INVARIANTS
  HistoryNotBehind
PROPERTIES
  VerdictIsFinal
  EveryRunIsClosed
\* Every client may stop asking: a behaviour may end.
CHECK_DEADLOCK FALSE
