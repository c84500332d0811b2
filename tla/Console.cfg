SPECIFICATION Spec
CONSTANTS
  None = None
  Gone = Gone
  Blank = Blank
  Ids = {i1, i2}
  First = i1
  MaxPresses = 2
  Values = {v1, v2}
  MaxActs = 3
  Scopes = {"ec2", "vpc"}
  Items = {a, b, c}
  Shared = a
  MaxScans = 2
  MaxImports = 2
  Regions = {"eu", "us"}
  PerRegion = 2
  MaxFetches = 3
  MaxGroups = 3
  MaxRules = 2
  Repos = {p1, p2}
  Inputs = {w1, w2}
  MaxClicks = 2
  LastPage = 2
  MaxTurns = 4
  MaxGroup = 4
  Resources = {r1, r2}
  MaxInits = 2
INVARIANTS
  TypeOK
  
  SendsWhatWasOpened
  
  
  GraphIsRight
\* A visit of a page may end.
CHECK_DEADLOCK FALSE
