SPECIFICATION FairSpec
CONSTANTS
  Tickets = {t1, t2}
  Reviews = {v1, v2, v3}
  Overlapping = {t1}
  MaxCrashes = 1
  MaxToggles = 1
  None = None
INVARIANTS
  TypeOK
  OneVerdict
  RunsAreApproved
PROPERTIES
  KeepsPromise
  ApprovedIsRun
\* Tickets and reviews run out.
CHECK_DEADLOCK FALSE
