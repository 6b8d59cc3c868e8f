---------------------------- MODULE OnlineScoring ----------------------------
(***************************************************************************)
(* The scoring service over a stream of events: a session reads the        *)
(* history of its event among the transactions recorded by then, computes  *)
(* the features, a probability and a decision, and records them when it    *)
(* commits.  Several sessions are at it at once, and what one has not      *)
(* committed no other one reads.  Events come in any order, of whatever    *)
(* event time.  The model is any: it may give every event every            *)
(* probability.                                                            *)
(*                                                                         *)
(* The statements of a session and its conflicts over transaction ids are  *)
(* ScoringStore's.  The specification has names that leave room for        *)
(* TrainingRun's: one module of theorems extends both.                     *)
(***************************************************************************)
EXTENDS Features, DecisionPolicy

CONSTANTS
  Events,      \* what may come: [user, merchant, device, place, time, amount]
  Sessions,    \* database sessions of the API and of the stream worker
  NoRow,       \* a session that is not scoring
  MaxScored    \* bound on the rows recorded and in the making

ASSUME EventsAssumption ==
  /\ \A e \in Events : e.time \in Int /\ e.amount \in Nat
  /\ MaxScored \in Nat

VARIABLES
  archive,  \* the scored transactions, in the order of their commits
  open      \* session -> the row it will record

servingVars == <<archive, open>>

Recorded == [j \in DOMAIN archive |-> archive[j].event]

Scoring == {s \in Sessions : open[s] # NoRow}

\* What the decision engine reads of a feature vector.
SignalsOf(f) ==
  [impossibleTravel |-> f.impossibleTravel, newDevice |-> f.newDevice,
   last5m |-> f.velocity[FiveMinutes], amount |-> f.amount, mean |-> f.mean]

\* seen: how many transactions were recorded when the history was read.
Row(e, seen, f, p) ==
  [event |-> e, seen |-> seen, features |-> f, probability |-> p,
   decision |-> DecisionOf(p, SignalsOf(f))]

ServingInit == archive = <<>> /\ open = [s \in Sessions |-> NoRow]

\* The merges precede the history query: the row of a user or a merchant that
\* nobody has recorded yet is locked by the session that inserts it.  The lock on
\* a merchant's row that is updated, which keeps sessions further apart, is left
\* out.
Waits(e) ==
  \E s \in Scoring :
    \/ /\ open[s].event.user = e.user
       /\ \A j \in DOMAIN archive : archive[j].event.user # e.user
    \/ /\ open[s].event.merchant = e.merchant
       /\ \A j \in DOMAIN archive : archive[j].event.merchant # e.merchant

Score(s, e, p) ==
  LET a      == Append(Recorded, e)
      i      == Len(a)
      latest == {{j} : j \in Latest(a, History(a, i))}
  IN  /\ open[s] = NoRow /\ ~Waits(e)
      /\ Len(archive) + Cardinality(Scoring) < MaxScored
      /\ \E last \in IF latest = {} THEN {{}} ELSE latest :
           open' = [open EXCEPT ![s] = Row(e, Len(archive), Online(a, i, last), p)]
      /\ UNCHANGED archive

\* The caller of score_and_persist commits.
Record(s) ==
  /\ s \in Scoring
  /\ archive' = Append(archive, open[s])
  /\ open' = [open EXCEPT ![s] = NoRow]

\* Or rolls back.
Abandon(s) ==
  /\ s \in Scoring
  /\ open' = [open EXCEPT ![s] = NoRow]
  /\ UNCHANGED archive

ServingNext ==
  \E s \in Sessions :
    \/ \E e \in Events, p \in Probabilities : Score(s, e, p)
    \/ Record(s) \/ Abandon(s)

ServingSpec == ServingInit /\ [][ServingNext]_servingVars

-----------------------------------------------------------------------------
(* Properties                                                              *)

\* test_decision.py:15, "rules can escalate but not downgrade": whatever the
\* stream, no decision is milder than the thresholds alone would have it.
NeverDowngraded ==
  \A i \in DOMAIN archive :
    Severity[archive[i].decision] >= Severity[ByThreshold(archive[i].probability)]

\* The transactions of i's user that were among the first n and whose event time
\* is in the five minutes before i's.
Burst(a, i, n) ==
  {j \in SameUser(a, i) : /\ j <= n
                          /\ a[j].time < a[i].time
                          /\ a[j].time >= a[i].time - FiveMinutes}

\* README.md:70-71, escalation "for bursts": an event is held back, however
\* harmless the model finds it, if so many of its user's in the five minutes
\* before it were recorded when its history was read, and however many other
\* events are recorded in between or late.  Events that are still being scored
\* by other sessions do not count: requests at the same moment are no burst.
BurstIsHeld ==
  \A i \in DOMAIN archive :
    Cardinality(Burst(Recorded, i, archive[i].seen)) >= VelocityReviewCount
      => archive[i].decision # "APPROVE"

\* The columns a model is trained on, out of an online feature vector.
TrainedColumns(f) ==
  [amount |-> f.amount, mean |-> f.mean, median |-> f.median,
   velocity |-> [w \in Windows \ {OneMinute} |-> f.velocity[w]],
   newMerchant |-> f.newMerchant]

\* All earlier events of i's user were recorded when i's history was read, and
\* none has i's time.
InOrder(a, i, n) ==
  \A j \in SameUser(a, i) : a[j].time # a[i].time /\ (a[j].time < a[i].time => j <= n)

\* None of them is older than the history goes back.
Recalled(a, i) ==
  \A j \in SameUser(a, i) : a[j].time < a[i].time => a[j].time >= a[i].time - HistoryDays

\* Training and serving agree: if nothing of a user's came late or was still
\* being recorded, an event was scored with the velocities that the offline
\* pipeline (materialize_features) computes for it from the complete archive.
\* It was scored with all the trained columns only if its user has no event
\* older than the history query's days: the query forgets, training does not.
TrainedAsServed ==
  \A i \in DOMAIN archive :
    InOrder(Recorded, i, archive[i].seen) =>
      \A before \in Precedings(Recorded, i) :
        LET served  == TrainedColumns(archive[i].features)
            trained == Offline(Recorded, i, before)
        IN  /\ served.velocity = trained.velocity
            /\ Recalled(Recorded, i) => served = trained

\* Late events only hide: whatever the order in which events are recorded and
\* however ties are sorted, the velocity an event was scored with is at most the
\* velocity the offline pipeline finds for it, and a merchant known online is
\* known offline.
LateEventsOnlyHide ==
  \A i \in DOMAIN archive :
    \A before \in Precedings(Recorded, i) :
      LET online  == archive[i].features
          offline == Offline(Recorded, i, before)
      IN  /\ \A w \in DOMAIN offline.velocity : online.velocity[w] <= offline.velocity[w]
          /\ offline.newMerchant /\ online.velocity[OneDay] > 0 => online.newMerchant
=============================================================================
