SPECIFICATION Spec
CONSTANTS
  Requests = {r1, r2, r3}
  Keys = {k1, k2}
  UnnamedKeys = {}
  Actions = {"plan", "apply", "destroy", "refresh"}
  Routes = {"http", "ws"}
  Kubernetes = FALSE
  RemoteState = TRUE
  EditRenames = FALSE
  StaleRows = FALSE
  MaxInFlight = 1
  Faults = {}
  MaxFaults = 0
  None = None
SYMMETRY RequestSymmetry
INVARIANTS
  KeptApart
  RowsAgreeWithCloud
\* Every client may stop asking: a behaviour may end.
CHECK_DEADLOCK FALSE
