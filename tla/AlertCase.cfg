\* Three sessions, every kind of request.
\* The requests run out: no deadlock check.
CONSTANTS
  Sessions = {s1, s2, s3}
  Requests <- AllKinds
  MaxRequests = 5
  None = None
SPECIFICATION Spec
SYMMETRY SessionSymmetry
INVARIANTS TypeOK LabelMatchesResolution
PROPERTIES NeverReopened ExplanationIsKept
CHECK_DEADLOCK FALSE
