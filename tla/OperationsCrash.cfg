SPECIFICATION Spec
CONSTANTS
  Requests = {r1, r2}
  Keys = {k1, k2}
  UnnamedKeys = {k1, k2}
  Actions = {"plan", "apply", "destroy", "refresh"}
  Routes = {"http", "ws"}
  Kubernetes = TRUE
  RemoteState = TRUE
  EditRenames = TRUE
  StaleRows = TRUE
  MaxInFlight = 2
  Faults = {"crash", "verdict", "lostread"}
  MaxFaults = 2
  None = None
SYMMETRY RequestSymmetry
INVARIANTS
  TypeOK
  Provenance
  DeployedIsRecorded
  RunningIsAttended
\* Every client may stop asking: a behaviour may end.
CHECK_DEADLOCK FALSE
