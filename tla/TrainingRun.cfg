\* The costs are the program's, but for the share of reviews: half of two rows
\* instead of a twentieth.  The output 7 is between the thresholds of a run whose
\* tuning chose the lowest pair, (5, 10): such rows are reviewed.
\* The runs end: no deadlock check.
CONSTANTS
  FalsePositiveCost = 2500
  ReviewCost = 500
  MissRate = 20
  MaxReviewRate = 50
  Frame <- MCFrame
  Baselines = 1
  Families = 1
  Trials = 2
  Outputs = {3, 7, 47, 97}
  PrAucs = {0, 1}
  MaxRuns = 2
SPECIFICATION Spec
INVARIANTS TypeOK NoLookAhead MonitorAgreesWithTrainer FilesBeforeAlias
CHECK_DEADLOCK FALSE
