SPECIFICATION Spec
CONSTANTS
  Fields = {name, size}
  Required = {name}
  WithDefault = {size}
  Advanced = {size}
  Checked = {name}
  Regions = {home, away}
  Home = home
  Envs = {dev, prod}
  Dev = dev
  None = None
  MaxEdits = 2
  MaxPresses = 2
INVARIANTS
  TypeOK
  LaunchesWhatWasSubmitted
  EditKeepsItsResource
\* Edits and presses run out.
CHECK_DEADLOCK FALSE
