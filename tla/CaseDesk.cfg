\* Two analysts, two transactions, a page of one, two verdicts.
CONSTANTS
  Analysts = {a1, a2}
  Txns = {t1, t2}
  PageSize = 1
  MaxVerdicts = 2
  None = None
SPECIFICATION Spec
SYMMETRY DeskSymmetry
INVARIANTS TypeOK LabelWasGiven ScreenNeverGoesBack
