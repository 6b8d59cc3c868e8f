\* One segment besides all, two versions of the model.
\* Reports, labels and versions run out: no deadlock check.
CONSTANTS
  Segments = {"country:TR"}
  Shifts <- AmountShifts
  MinimumLabels = 2
  MaxLabels = 2
  MaxVersion = 2
  MaxReports = 4
SPECIFICATION Spec
INVARIANTS TypeOK JobHasEvidence SustainedDriftIsQueued OneJobPerEpisode
CHECK_DEADLOCK FALSE
