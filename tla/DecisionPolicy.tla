--------------------------- MODULE DecisionPolicy ---------------------------
(***************************************************************************)
(* The decision engine: thresholds on the model's probability, and rules   *)
(* on the features that escalate what the thresholds decide.  A            *)
(* probability is a number of parts of Unit; the rounded risk score, which *)
(* nothing in the program compares, is left out.                           *)
(***************************************************************************)
EXTENDS Integers

CONSTANTS
  Unit,                 \* the probability one
  ReviewThreshold,      \* of the artifact or of the settings
  BlockThreshold,
  VelocityReviewCount,  \* transactions in five minutes that make a burst
  AmountRatioReview     \* times the user's average that is unusual

ASSUME PolicyAssumption ==
  /\ Unit \in Nat
  /\ ReviewThreshold \in 0 .. Unit
  /\ BlockThreshold \in 0 .. Unit
  /\ VelocityReviewCount \in Nat
  /\ AmountRatioReview \in Nat

Probabilities == 0 .. Unit
Decisions     == {"APPROVE", "MANUAL_REVIEW", "BLOCK"}

Severity == [d \in Decisions |-> CASE d = "APPROVE" -> 0
                                   [] d = "MANUAL_REVIEW" -> 1
                                   [] d = "BLOCK" -> 2]

ByThreshold(p) ==
  IF p >= BlockThreshold THEN "BLOCK"
  ELSE IF p >= ReviewThreshold THEN "MANUAL_REVIEW" ELSE "APPROVE"

\* mean is a sum and a count, amounts are cents: the average is taken for at
\* least one cent.
UnusualAmount(f) ==
  LET sum == IF f.mean[1] < f.mean[2] THEN f.mean[2] ELSE f.mean[1]
  IN  f.amount * f.mean[2] >= AmountRatioReview * sum

RapidBurst(f) == f.last5m >= VelocityReviewCount

Escalates(f) == f.impossibleTravel \/ RapidBurst(f) \/ UnusualAmount(f)

Takeover(f) == f.impossibleTravel /\ f.newDevice

\* Mutant of DecisionOf: the verdict of the rules replaces the thresholds'.
DecisionOfRules(p, f) ==
  IF Takeover(f) THEN "BLOCK"
  ELSE IF Escalates(f) THEN "MANUAL_REVIEW"
  ELSE ByThreshold(p)

DecisionOf(p, f) ==
  IF Takeover(f) THEN "BLOCK"
  ELSE IF Escalates(f) /\ ByThreshold(p) = "APPROVE" THEN "MANUAL_REVIEW"
  ELSE ByThreshold(p)
=============================================================================
