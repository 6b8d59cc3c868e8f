--------------------------- MODULE TrainingPolicy ---------------------------
(***************************************************************************)
(* The arithmetic of training: how the data set is cut, what a policy      *)
(* costs, which thresholds are best; and the monitor's own reckoning of    *)
(* the cost.                                                               *)
(*                                                                         *)
(* Probabilities and thresholds are percentages, money is in cents.  The   *)
(* grid of thresholds is exact here; the program's steps of 0.05 are       *)
(* floating point numbers, which differ from these by rounding errors, so  *)
(* probabilities on the grid itself are left out.                          *)
(***************************************************************************)
EXTENDS Integers, Sequences, FiniteSets, FiniteSetsExt

CONSTANTS
  FalsePositiveCost, ReviewCost,  \* in cents
  MissRate,                       \* percentage of fraud that a review lets through
  MaxReviewRate                   \* percentage of transactions that may be reviewed

ASSUME CostAssumption ==
  /\ FalsePositiveCost \in Nat /\ ReviewCost \in Nat
  /\ MissRate \in 0 .. 100 /\ MaxReviewRate \in 0 .. 100

-----------------------------------------------------------------------------
(* Chronological slices of the rows 0 .. size - 1                          *)

SliceNames == <<"train", "selection", "calibration", "threshold", "test">>

Boundary(size, k) == (size * <<0, 50, 65, 75, 85, 100>>[k]) \div 100

Slice(size, name) ==
  LET k == CHOOSE i \in 1 .. 5 : SliceNames[i] = name
  IN  Boundary(size, k) .. Boundary(size, k + 1) - 1

-----------------------------------------------------------------------------
(* What a policy costs; a row is [fraud, amount, p], p its probability      *)

\* The four terms of expected_cost.
ExpectedCost(rows, review, block) ==
  LET Reviewed(r) == r.p >= review /\ r.p < block
      Missed(r)   == IF r.fraud /\ r.p < review THEN 100 * r.amount ELSE 0
      Loss(r)     == IF r.fraud /\ Reviewed(r) THEN MissRate * r.amount ELSE 0
      Friction(r) == IF ~r.fraud /\ r.p >= block THEN FalsePositiveCost ELSE 0
      Handling(r) == IF Reviewed(r) THEN ReviewCost ELSE 0
  IN  SumFunction([i \in DOMAIN rows |-> Missed(rows[i]) + Loss(rows[i])
                                         + Friction(rows[i]) + Handling(rows[i])])

\* Mutant of DelayedCost: the review of a fraud costs no handling.
DelayedCostOfLoss(rows, decisions) ==
  LET Cost(r, decision) ==
        CASE r.fraud /\ decision = "APPROVE"        -> 100 * r.amount
          [] r.fraud /\ decision = "MANUAL_REVIEW"  -> 20 * r.amount
          [] ~r.fraud /\ decision = "BLOCK"         -> 2500
          [] ~r.fraud /\ decision = "MANUAL_REVIEW" -> 500
          [] OTHER -> 0
  IN  SumFunction([i \in DOMAIN rows |-> Cost(rows[i], decisions[i])])

\* The monitor's chain of cases, on the decisions the rows got; its constants
\* are literals of its own.
DelayedCost(rows, decisions) ==
  LET Cost(r, decision) ==
        CASE r.fraud /\ decision = "APPROVE"        -> 100 * r.amount
          [] r.fraud /\ decision = "MANUAL_REVIEW"  -> 20 * r.amount + 500
          [] ~r.fraud /\ decision = "BLOCK"         -> 2500
          [] ~r.fraud /\ decision = "MANUAL_REVIEW" -> 500
          [] OTHER -> 0
  IN  SumFunction([i \in DOMAIN rows |-> Cost(rows[i], decisions[i])])

-----------------------------------------------------------------------------
(* The best thresholds                                                     *)

\* No feasible pair: its cost is infinite, for which -1 stands.
Infinite == -1
Default  == [review |-> 40, block |-> 70, cost |-> Infinite]

\* Mutant of Grid: the block thresholds start at the review threshold.
GridFromReview == {g \in {5 * i : i \in 1 .. 16} \X {5 * i : i \in 1 .. 19} : g[1] <= g[2]}

Grid == {g \in {5 * i : i \in 1 .. 16} \X {5 * i : i \in 2 .. 19} : g[1] < g[2]}

Affordable(rows, review, block) ==
  100 * Cardinality({i \in DOMAIN rows : rows[i].p >= review /\ rows[i].p < block})
    <= MaxReviewRate * Cardinality(DOMAIN rows)

\* The scan goes through the grid by review, then block threshold, and keeps
\* the first of the cheapest pairs.
OptimalThresholds(rows) ==
  LET feasible == {[review |-> g[1], block |-> g[2], cost |-> ExpectedCost(rows, g[1], g[2])] :
                     g \in {g \in Grid : Affordable(rows, g[1], g[2])}}
      lowest   == Min({t.cost : t \in feasible})
      best     == {t \in feasible : t.cost = lowest}
      review   == Min({t.review : t \in best})
      block    == Min({t.block : t \in {t \in best : t.review = review}})
  IN  IF feasible = {} THEN Default
      ELSE [review |-> review, block |-> block, cost |-> lowest]

\* The smaller cost, and of equal costs the larger PR-AUC.
Cheaper(a, b) == a # Infinite /\ (b = Infinite \/ a < b)
Better(x, y)  == Cheaper(x.cost, y.cost) \/ (x.cost = y.cost /\ x.prAuc > y.prAuc)

\* min() takes the first of the best.
FirstBest(results) ==
  Min({i \in DOMAIN results : \A j \in DOMAIN results : ~Better(results[j], results[i])})
=============================================================================
