SPECIFICATION Spec
CONSTANTS
  Modes = {"docker"}
  MaxLines = 2
  PipeSize = 1
  ChannelSize = 1
  PodPolls = 2
  VerdictPolls = 2
  LongLines = FALSE
  ClientStalls = FALSE
  MaxFaults = 0
\* A run that has settled is over.
CHECK_DEADLOCK FALSE
INVARIANTS
  OutputIsRecorded
