\* Three events scored in two sessions, windows of one to four units of time,
\* three probabilities.
\* The archive fills up: no deadlock check.
CONSTANTS
  Unit = 2
  ReviewThreshold = 1
  BlockThreshold = 2
  VelocityReviewCount = 2
  AmountRatioReview = 8
  OneMinute = 1
  FiveMinutes = 2
  OneHour = 3
  OneDay = 4
  HistoryDays = 5
  TravelLimit = 3
  NoPlace = NoPlace
  Events <- MCEvents
  Sessions = {S1, S2}
  NoRow = NoRow
  MaxScored = 3
SYMMETRY MCSymmetry
SPECIFICATION ServingSpec
INVARIANTS NeverDowngraded BurstIsHeld TrainedAsServed LateEventsOnlyHide
CHECK_DEADLOCK FALSE
