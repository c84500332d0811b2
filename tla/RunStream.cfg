SPECIFICATION FairSpec
CONSTANTS
  Modes = {"docker", "kubernetes"}
  MaxLines = 2
  PipeSize = 1
  ChannelSize = 1
  PodPolls = 2
  VerdictPolls = 2
  LongLines = TRUE
  ClientStalls = TRUE
  MaxFaults = 2
INVARIANTS
  TypeOK
  RecordIsTrue
  JobEndsInOrder
  FailureIsReported
PROPERTIES
  RunEnds
\* A run that has settled is over.
CHECK_DEADLOCK FALSE
