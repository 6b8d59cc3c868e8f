\* Two workers, one administrator, every fault but the failure of the failure
\* handler.  No job is left at the end: no deadlock check.
CONSTANTS
  MaxJobs = 1
  Workers = {w1, w2}
  Promoters = {p1}
  Requesters = {api}
  Monitor = monitor
  MaxVersion = 3
  Faults <- Recoverable
  MaxFaults = 2
  None = None
SPECIFICATION FairSpec
PROPERTIES QueuedJobFinishes
CHECK_DEADLOCK FALSE
