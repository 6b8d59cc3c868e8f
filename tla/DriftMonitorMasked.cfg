\* One segment, one version, no label; every kind of metric.
\* Reports run out: no deadlock check.
CONSTANTS
  Segments = {"country:TR"}
  Shifts <- AllShifts
  MinimumLabels = 1
  MaxLabels = 0
  MaxVersion = 1
  MaxReports = 2
SPECIFICATION Spec
INVARIANTS BreachIsNoticed
CHECK_DEADLOCK FALSE
