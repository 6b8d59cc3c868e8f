-------------------------- MODULE ScoringContract --------------------------
(***************************************************************************)
(* The vocabulary of scoring, shared by every module that scores a         *)
(* transaction: which transactions are history for another, what a score   *)
(* decides, and which rows a scored transaction owns.  The model and the   *)
(* decision engine are one function, Decide, of the transaction and of the *)
(* history its features were computed from: DecisionPolicy models how the  *)
(* engine combines a probability with the rules.                           *)
(***************************************************************************)
EXTENDS Integers

CONSTANTS
  Txns,         \* transaction ids
  UserOf,       \* the user of each transaction
  MerchantOf,   \* its merchant
  CategoryOf,   \* the merchant category the event carries
  TimeOf,       \* its event timestamp, in days
  HistoryDays,  \* days of history the features look back on
  Decide,       \* <<transaction, history>> -> decision
  NoRow         \* a primary key with no row

Users      == {UserOf[t] : t \in Txns}
Merchants  == {MerchantOf[t] : t \in Txns}
Categories == {CategoryOf[t] : t \in Txns}
Decisions  == {"APPROVE", "MANUAL_REVIEW", "BLOCK"}
Topics     == {"transactions.v1", "fraud_predictions.v1", "fraud_alerts.v1"}

\* What the feature calculator may look at: the same user, strictly before t,
\* no older than the window, and never t itself.
Prior(x, t) ==
  /\ UserOf[x] = UserOf[t]
  /\ TimeOf[x] >= TimeOf[t] - HistoryDays
  /\ TimeOf[x] < TimeOf[t]
  /\ x # t

\* A prediction row: the decision and the history behind its feature snapshot.
PredictionOf(t, history) == [decision |-> Decide[<<t, history>>], history |-> history]

Predictions == [decision : Decisions, history : SUBSET Txns]

\* The rows a decision entails besides the transaction and its prediction.
AlertCount(d)    == IF d = "APPROVE" THEN 0 ELSE 1
EventCount(d, e) == IF e = "fraud_alerts.v1" THEN AlertCount(d) ELSE 1

\* What a scored transaction amounts to: its prediction, its alerts, its events.
Entries == [prediction : Predictions, alerts : Nat, events : [Topics -> Nat]]

ASSUME ScoringAssumption ==
  /\ UserOf     \in [Txns -> Users]
  /\ MerchantOf \in [Txns -> Merchants]
  /\ CategoryOf \in [Txns -> Categories]
  /\ TimeOf     \in [Txns -> Int]
  /\ HistoryDays \in Nat
  /\ Decide \in [Txns \X SUBSET Txns -> Decisions]
  /\ NoRow \notin Predictions \cup Categories \cup Entries
=============================================================================
