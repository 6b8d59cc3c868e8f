\* One worker (as docker-compose runs it), the monitor and two administrators,
\* every kind of fault but the lost answer to the commit that completes a job.
\* No job is left at the end: no deadlock check.
CONSTANTS
  MaxJobs = 2
  Workers = {w1}
  Promoters = {p1, p2}
  Requesters = {}
  Monitor = monitor
  MaxVersion = 3
  Faults <- Answered
  MaxFaults = 1
  None = None
SPECIFICATION Spec
SYMMETRY PromoterSymmetry
INVARIANTS TypeOK OneRunPerEpisode AuditIsTrue ChampionPassedGates
PROPERTIES FinishedStaysFinished
CHECK_DEADLOCK FALSE
