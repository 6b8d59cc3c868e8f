---------------------- MODULE TrainingAndServing_proofs ----------------------
(***************************************************************************)
(* Theorems about the model's two lives.  Serving: the decision policy and *)
(* OnlineScoring, for any thresholds, windows, model and events in any     *)
(* order.  Training: TrainingRun, for any frame, any number of candidates, *)
(* trials and runs, and whatever models, metrics and costs come out.       *)
(***************************************************************************)
EXTENDS OnlineScoring, TrainingRun, TLAPS, FiniteSetTheorems, WellFoundedInduction

-----------------------------------------------------------------------------
(* The policy                                                              *)

\* The thresholds give a decision, and a higher probability no milder one.
LEMMA ThresholdsAreMonotone ==
  ASSUME NEW p \in Probabilities, NEW q \in Probabilities, p <= q
  PROVE  /\ ByThreshold(p) \in Decisions
         /\ Severity[ByThreshold(p)] <= Severity[ByThreshold(q)]
BY PolicyAssumption DEF PolicyAssumption, Probabilities, ByThreshold, Decisions, Severity

\* Rules escalate and never downgrade (DecisionEngine.decide): whatever the
\* features, the decision is at least as severe as the thresholds'.
THEOREM RulesOnlyEscalate ==
  ASSUME NEW p \in Probabilities, NEW f
  PROVE  /\ DecisionOf(p, f) \in Decisions
         /\ Severity[DecisionOf(p, f)] >= Severity[ByThreshold(p)]
<1>1. ByThreshold(p) \in Decisions
  BY ThresholdsAreMonotone DEF Probabilities
<1> QED
  BY <1>1 DEF DecisionOf, Decisions, Severity

\* With the features given, a higher probability never gives a milder decision:
\* the rules of DecisionEngine.decide keep the order of the thresholds.
THEOREM DecisionIsMonotone ==
  ASSUME NEW p \in Probabilities, NEW q \in Probabilities, p <= q, NEW f
  PROVE  Severity[DecisionOf(p, f)] <= Severity[DecisionOf(q, f)]
<1>1. Severity[ByThreshold(p)] <= Severity[ByThreshold(q)]
  BY ThresholdsAreMonotone
<1>2. ByThreshold(p) \in Decisions /\ ByThreshold(q) \in Decisions
  BY ThresholdsAreMonotone DEF Probabilities
<1> QED
  BY <1>1, <1>2 DEF DecisionOf, Decisions, Severity

-----------------------------------------------------------------------------
(* What an event was scored with                                           *)

\* The part of its history that was among the first n transactions.
Known(a, i, n) == {j \in History(a, i) : j <= n}

\* An event got the columns that the offline pipeline would compute from that
\* part, and the velocities of all windows.
ServedWith(a, i, n, f) ==
  /\ TrainedColumns(f) = Offline(a, i, Known(a, i, n))
  /\ \A w \in Windows : f.velocity[w] = Cardinality(Recent(a, i, Known(a, i, n), w))

\* The online path and the offline one agree on the same rows.
LEMMA OnlineServes ==
  ASSUME NEW S, NEW a \in Seq(S), a # <<>>, NEW last
  PROVE  ServedWith(a, Len(a), Len(a) - 1, Online(a, Len(a), last))
<1> DEFINE i     == Len(a)
           known == History(a, i)
           f     == Online(a, i, last)
<1>1. Known(a, i, i - 1) = known
  <2>1. \A j \in DOMAIN a : j # i => j <= i - 1
    OBVIOUS
  <2> QED
    BY <2>1 DEF Known, History, SameUser
<1>2. \A w \in Windows : f.velocity[w] = Cardinality(Recent(a, i, known, w))
  BY DEF Online
<1>3. [w \in Windows \ {OneMinute} |-> f.velocity[w]]
        = [w \in Windows \ {OneMinute} |-> Cardinality({j \in known : a[j].time >= a[i].time - w})]
  BY <1>2 DEF Recent
<1>4. /\ f.amount = a[i].amount
      /\ f.mean = IF known = {} THEN <<a[i].amount, 1>> ELSE Mean(a, known)
      /\ f.median = IF known = {} THEN <<a[i].amount, a[i].amount>> ELSE Median(a, known)
      /\ f.newMerchant = (known # {} /\ \A j \in known : a[j].merchant # a[i].merchant)
  BY DEF Online
<1>5. TrainedColumns(f) = Offline(a, i, known)
  <2> HIDE DEF f, known, i
  <2> QED
    BY <1>3, <1>4 DEF TrainedColumns, Offline
<1> QED
  BY <1>1, <1>2, <1>5 DEF ServedWith

\* The columns of an event depend on its own row and those it is compared with,
\* wherever in the archive it is.
LEMMA OfflineIsLocal ==
  ASSUME NEW a, NEW b, NEW i, NEW k, NEW rows, a[i] = b[k], \A j \in rows : a[j] = b[j]
  PROVE  /\ Offline(a, i, rows) = Offline(b, k, rows)
         /\ \A w : Recent(a, i, rows, w) = Recent(b, k, rows, w)
<1>1. Mean(a, rows) = Mean(b, rows)
  <2>1. [j \in rows |-> a[j].amount] = [j \in rows |-> b[j].amount]
    OBVIOUS
  <2> QED
    BY <2>1 DEF Mean
<1>2. Median(a, rows) = Median(b, rows)
  <2>1. {a[j].amount : j \in rows} = {b[j].amount : j \in rows}
    OBVIOUS
  <2>2. \A v : {j \in rows : a[j].amount <= v} = {j \in rows : b[j].amount <= v}
    OBVIOUS
  <2> QED
    BY <2>1, <2>2, Zenon DEF Median
<1>3. \A w : {j \in rows : a[j].time >= a[i].time - w} = {j \in rows : b[j].time >= b[k].time - w}
  OBVIOUS
<1>4. \A j \in rows : a[j].merchant = b[j].merchant
  OBVIOUS
<1>5. [w \in Windows \ {OneMinute} |-> Cardinality({j \in rows : a[j].time >= a[i].time - w})]
        = [w \in Windows \ {OneMinute} |-> Cardinality({j \in rows : b[j].time >= b[k].time - w})]
  BY <1>3
<1>6. (\A j \in rows : a[j].merchant # a[i].merchant) <=> \A j \in rows : b[j].merchant # b[k].merchant
  BY <1>4
<1> QED
  BY <1>1, <1>2, <1>3, <1>5, <1>6 DEF Offline, Recent

\* What is recorded after the first n, before the event or after it, changes
\* nothing of it.
LEMMA ServedStays ==
  ASSUME NEW n \in Nat, NEW a, NEW b,
         1 .. n \subseteq DOMAIN a, 1 .. n \subseteq DOMAIN b, \A j \in 1 .. n : a[j] = b[j],
         DOMAIN a \subseteq Nat \ {0}, DOMAIN b \subseteq Nat \ {0},
         NEW i \in Nat, NEW k \in Nat, n < i, n < k, a[i] = b[k], NEW f
  PROVE  ServedWith(a, i, n, f) <=> ServedWith(b, k, n, f)
<1>1. /\ \A j \in DOMAIN a : j <= n <=> j \in 1 .. n
      /\ \A j \in DOMAIN b : j <= n <=> j \in 1 .. n
      /\ \A j \in 1 .. n : j # i /\ j # k
  OBVIOUS
<1>2. Known(a, i, n) = Known(b, k, n)
  <2>1. Known(a, i, n) = {j \in 1 .. n : /\ a[j].user = a[i].user
                                         /\ a[j].time >= a[i].time - HistoryDays
                                         /\ a[j].time < a[i].time}
    BY <1>1 DEF Known, History, SameUser
  <2>2. Known(b, k, n) = {j \in 1 .. n : /\ b[j].user = b[k].user
                                         /\ b[j].time >= b[k].time - HistoryDays
                                         /\ b[j].time < b[k].time}
    BY <1>1 DEF Known, History, SameUser
  <2> QED
    BY <2>1, <2>2
<1>3. \A j \in Known(a, i, n) : a[j] = b[j]
  BY <1>1 DEF Known, History, SameUser
<1>4. /\ Offline(a, i, Known(a, i, n)) = Offline(b, k, Known(a, i, n))
      /\ \A w : Recent(a, i, Known(a, i, n), w) = Recent(b, k, Known(a, i, n), w)
  BY <1>3, OfflineIsLocal
<1> QED
  BY <1>2, <1>4 DEF ServedWith

\* The online window of an event is its burst: the history query looks back far
\* enough.
LEMMA WindowIsBurst ==
  ASSUME NEW a, NEW i, NEW n, a[i].time \in Int, \A j \in DOMAIN a : a[j].time \in Int
  PROVE  Recent(a, i, Known(a, i, n), FiveMinutes) = Burst(a, i, n)
BY WindowsAssumption DEF WindowsAssumption, Recent, Known, History, Burst, SameUser

\* All that was known of an event's history precedes it offline as well.  If its
\* user's events came in order, what precedes it offline and was not known is too
\* old for the history query; if that goes back far enough, there is no such event.
LEMMA KnownPrecedes ==
  ASSUME NEW a, NEW i, NEW n, NEW before \in Precedings(a, i)
  PROVE  /\ Known(a, i, n) \subseteq before
         /\ before \subseteq DOMAIN a
         /\ InOrder(a, i, n) =>
              \A j \in before : /\ j \in SameUser(a, i) /\ a[j].time < a[i].time
                                /\ a[j].time >= a[i].time - HistoryDays => j \in Known(a, i, n)
         /\ InOrder(a, i, n) /\ Recalled(a, i) => before = Known(a, i, n)
<1>1. PICK ties \in SUBSET {j \in SameUser(a, i) : a[j].time = a[i].time} :
        before = {j \in SameUser(a, i) : a[j].time < a[i].time} \cup ties
  BY DEF Precedings
<1>2. Known(a, i, n) \subseteq before
  BY <1>1 DEF Known, History
<1>3. ASSUME InOrder(a, i, n), NEW j \in before
      PROVE  /\ j \in SameUser(a, i) /\ a[j].time < a[i].time
             /\ a[j].time >= a[i].time - HistoryDays => j \in Known(a, i, n)
  <2>1. ties = {}
    BY <1>1, <1>3 DEF InOrder
  <2>2. j \in SameUser(a, i) /\ a[j].time < a[i].time /\ j <= n
    BY <1>1, <1>3, <2>1 DEF InOrder
  <2> QED
    BY <2>2 DEF Known, History
<1>4. ASSUME InOrder(a, i, n), Recalled(a, i) PROVE before \subseteq Known(a, i, n)
  BY <1>3, <1>4 DEF Recalled
<1> QED
  BY <1>1, <1>2, <1>3, <1>4 DEF SameUser

-----------------------------------------------------------------------------
(* The stream                                                              *)

\* What the archive holds, as a set: its rows need no other type here.
Contents == {archive[j] : j \in DOMAIN archive}

\* A row for the i-th event of a: its decision is the policy's, its features are
\* those of what its session saw.
Sound(a, i, r) ==
  /\ r.event = a[i] /\ r.event \in Events
  /\ r.probability \in Probabilities
  /\ r.decision = DecisionOf(r.probability, SignalsOf(r.features))
  /\ r.seen \in Nat /\ r.seen < i
  /\ ServedWith(a, i, r.seen, r.features)

\* The archive, if e were recorded next.
With(e) == Append(Recorded, e)

ServingInv ==
  /\ archive \in Seq(Contents)
  /\ \A i \in DOMAIN archive : Sound(Recorded, i, archive[i])
  /\ DOMAIN open = Sessions
  /\ \A s \in Scoring : Sound(With(open[s].event), Len(archive) + 1, open[s])

\* The recorded events, and one more.
LEMMA Lengths ==
  ASSUME ServingInv
  PROVE  /\ Len(archive) \in Nat /\ DOMAIN archive = 1 .. Len(archive)
         /\ Recorded \in Seq(Events) /\ Len(Recorded) = Len(archive)
         /\ DOMAIN Recorded = 1 .. Len(archive)
         /\ \A i \in 1 .. Len(archive) : Recorded[i] = archive[i].event
         /\ \A e \in Events :
              /\ With(e) \in Seq(Events) /\ With(e) # <<>> /\ Len(With(e)) = Len(archive) + 1
              /\ DOMAIN With(e) = 1 .. Len(archive) + 1
              /\ With(e)[Len(archive) + 1] = e
              /\ \A i \in 1 .. Len(archive) : With(e)[i] = Recorded[i]
<1>1. /\ Len(archive) \in Nat /\ DOMAIN archive = 1 .. Len(archive)
  BY DEF ServingInv
<1>2. Recorded \in [1 .. Len(archive) -> Events]
  BY <1>1 DEF Recorded, ServingInv, Sound
<1>3. Recorded \in Seq(Events) /\ Len(Recorded) = Len(archive) /\ DOMAIN Recorded = 1 .. Len(archive)
  BY <1>1, <1>2
<1>4. \A i \in 1 .. Len(archive) : Recorded[i] = archive[i].event
  BY <1>1 DEF Recorded
<1>5. ASSUME NEW e \in Events
      PROVE  /\ With(e) \in Seq(Events) /\ With(e) # <<>> /\ Len(With(e)) = Len(archive) + 1
             /\ DOMAIN With(e) = 1 .. Len(archive) + 1
             /\ With(e)[Len(archive) + 1] = e
             /\ \A i \in 1 .. Len(archive) : With(e)[i] = Recorded[i]
  BY <1>1, <1>3 DEF With
<1> QED
  BY <1>1, <1>3, <1>4, <1>5

\* A session reads its history and makes a sound row of it.
LEMMA ScoreStep ==
  ASSUME ServingInv, NEW s \in Sessions, NEW e \in Events, NEW p \in Probabilities, Score(s, e, p)
  PROVE  ServingInv'
<1> DEFINE a == With(e)
           n == Len(archive) + 1
<1>1. a \in Seq(Events) /\ a # <<>> /\ Len(a) = n /\ a[n] = e /\ n \in Nat /\ n - 1 = Len(archive)
  BY Lengths
<1>2. PICK last : open' = [open EXCEPT ![s] = Row(e, Len(archive), Online(a, n, last), p)]
  BY <1>1 DEF Score, With
<1>3. UNCHANGED archive /\ UNCHANGED Recorded
  BY DEF Score, Recorded
<1> DEFINE f == Online(a, n, last)
           r == Row(e, Len(archive), f, p)
<1>4. Sound(a, n, r)
  <2>1. ServedWith(a, n, Len(archive), f)
    BY <1>1, OnlineServes
  <2>2. /\ r.event = e /\ r.seen = Len(archive) /\ r.features = f /\ r.probability = p
        /\ r.decision = DecisionOf(p, SignalsOf(f))
    BY DEF Row
  <2> HIDE DEF r, f, a
  <2> QED
    BY <1>1, <2>1, <2>2 DEF Sound
<1>5. ASSUME NEW t \in Sessions, open'[t] # NoRow
      PROVE  Sound(With(open'[t].event), n, open'[t])
  <2>1. CASE t = s
    <3>1. open'[t] = r
      BY <1>2, <2>1 DEF ServingInv
    <3>2. r.event = e
      BY DEF Row
    <3> HIDE DEF r
    <3> QED
      BY <1>4, <3>1, <3>2
  <2>2. CASE t # s
    <3>1. open'[t] = open[t]
      BY <1>2, <2>2 DEF ServingInv
    <3> QED
      BY <1>5, <3>1 DEF ServingInv, Scoring
  <2> QED
    BY <2>1, <2>2
<1>6. DOMAIN open' = Sessions
  BY <1>2 DEF ServingInv
<1> QED
  BY <1>3, <1>5, <1>6 DEF ServingInv, Contents, Scoring, With

\* A session commits: its row is sound where it is recorded, and the rows recorded
\* or in the making are not disturbed.
LEMMA RecordStep ==
  ASSUME ServingInv, NEW s \in Sessions, Record(s)
  PROVE  ServingInv'
<1> DEFINE r == open[s]
           e == r.event
           m == Len(archive)
<1>1. /\ s \in Scoring /\ archive' = Append(archive, r)
      /\ open' = [open EXCEPT ![s] = NoRow]
  BY DEF Record
<1>2. Sound(With(e), m + 1, r) /\ e \in Events
  BY <1>1 DEF ServingInv, Sound
<1>3. /\ m \in Nat /\ archive \in Seq(Contents) /\ DOMAIN archive = 1 .. m
  BY Lengths DEF ServingInv
<1> HIDE DEF r
<1>4. /\ archive' \in Seq(Contents \cup {r}) /\ archive'[m + 1] = r
      /\ DOMAIN archive' = 1 .. m + 1 /\ Len(archive') = m + 1
      /\ \A j \in 1 .. m : archive'[j] = archive[j]
  BY <1>1, <1>3
<1>5. \A j \in 1 .. m + 1 : j \in 1 .. m \/ j = m + 1
  BY <1>3
<1>6. Recorded' = With(e)
  <2>1. Recorded' = [j \in 1 .. m + 1 |-> archive'[j].event]
    BY <1>4 DEF Recorded
  <2>2. \A j \in 1 .. m + 1 : archive'[j].event = With(e)[j]
    BY <1>2, <1>4, <1>5, Lengths
  <2>3. With(e) = [j \in 1 .. m + 1 |-> With(e)[j]]
    BY <1>2, Lengths
  <2> QED
    BY <2>1, <2>2, <2>3
<1>7. ASSUME NEW i \in DOMAIN archive' PROVE Sound(Recorded', i, archive'[i])
  <2>1. CASE i = m + 1
    BY <1>2, <1>4, <1>6, <2>1
  <2>2. CASE i \in 1 .. m
    <3> DEFINE seen == archive[i].seen
               f    == archive[i].features
    <3>1. Sound(Recorded, i, archive[i]) /\ archive'[i] = archive[i]
      BY <1>3, <1>4, <2>2 DEF ServingInv
    <3>2. seen \in Nat /\ seen < i /\ i \in Nat /\ 1 .. seen \subseteq 1 .. m
      BY <1>3, <2>2, <3>1 DEF Sound
    <3>3. /\ DOMAIN Recorded = 1 .. m /\ DOMAIN With(e) = 1 .. m + 1
          /\ \A j \in 1 .. m : With(e)[j] = Recorded[j]
      BY <1>2, Lengths
    <3>4. ServedWith(Recorded, i, seen, f) <=> ServedWith(With(e), i, seen, f)
      <4>1. /\ 1 .. seen \subseteq DOMAIN Recorded /\ 1 .. seen \subseteq DOMAIN With(e)
            /\ \A j \in 1 .. seen : Recorded[j] = With(e)[j]
            /\ DOMAIN Recorded \subseteq Nat \ {0} /\ DOMAIN With(e) \subseteq Nat \ {0}
            /\ Recorded[i] = With(e)[i]
        BY <1>3, <2>2, <3>2, <3>3
      <4> HIDE DEF seen, f
      <4> QED
        BY <3>2, <4>1, ServedStays
    <3> QED
      BY <1>6, <2>2, <3>1, <3>3, <3>4 DEF Sound
  <2> QED
    BY <1>4, <1>5, <2>1, <2>2
<1>8. ASSUME NEW t \in Sessions, open'[t] # NoRow
      PROVE  Sound(Append(Recorded', open'[t].event), Len(archive') + 1, open'[t])
  <2> DEFINE q == open[t]
             b == Append(With(e), q.event)
  <2>1. t \in Scoring /\ open'[t] = q
    BY <1>1, <1>8 DEF ServingInv, Scoring
  <2>2. Sound(With(q.event), m + 1, q) /\ q.event \in Events
    BY <2>1 DEF ServingInv, Sound
  <2> HIDE DEF q
  <2>3. /\ With(e) \in Seq(Events) /\ Len(With(e)) = m + 1
        /\ \A j \in 1 .. m : With(e)[j] = Recorded[j]
    BY <1>2, Lengths
  <2>4. /\ DOMAIN b = 1 .. m + 2 /\ b[m + 2] = q.event
        /\ \A j \in 1 .. m + 1 : b[j] = With(e)[j]
    BY <1>3, <2>2, <2>3
  <2>5. /\ DOMAIN With(q.event) = 1 .. m + 1 /\ With(q.event)[m + 1] = q.event
        /\ \A j \in 1 .. m : With(q.event)[j] = Recorded[j]
    BY <2>2, Lengths
  <2> HIDE DEF b
  <2>6. q.seen \in Nat /\ q.seen < m + 1 /\ 1 .. q.seen \subseteq 1 .. m
    BY <1>3, <2>2 DEF Sound
  <2>7. /\ 1 .. q.seen \subseteq DOMAIN With(q.event) /\ 1 .. q.seen \subseteq DOMAIN b
        /\ \A j \in 1 .. q.seen : With(q.event)[j] = b[j]
        /\ DOMAIN With(q.event) \subseteq Nat \ {0} /\ DOMAIN b \subseteq Nat \ {0}
        /\ m + 1 \in Nat /\ m + 2 \in Nat /\ q.seen < m + 2
    BY <1>3, <2>3, <2>4, <2>5, <2>6
  <2>8. ServedWith(With(q.event), m + 1, q.seen, q.features) <=> ServedWith(b, m + 2, q.seen, q.features)
    <3> DEFINE x == With(q.event)
               i == m + 1
               k == m + 2
    <3>1. /\ i \in Nat /\ k \in Nat /\ q.seen \in Nat /\ q.seen < i /\ q.seen < k
          /\ x[i] = b[k]
      BY <2>4, <2>5, <2>6, <2>7
    <3> HIDE DEF x, i, k
    <3>2. ServedWith(x, i, q.seen, q.features) <=> ServedWith(b, k, q.seen, q.features)
      <4>1. /\ 1 .. q.seen \subseteq DOMAIN x /\ 1 .. q.seen \subseteq DOMAIN b
            /\ \A j \in 1 .. q.seen : x[j] = b[j]
            /\ DOMAIN x \subseteq Nat \ {0} /\ DOMAIN b \subseteq Nat \ {0}
        BY <2>7 DEF x
      <4> QED
        BY <3>1, <4>1, ServedStays
    <3> QED
      BY <3>2 DEF x, i, k
  <2>9. Sound(b, m + 2, q)
    BY <1>3, <2>2, <2>4, <2>6, <2>8 DEF Sound
  <2>10. Append(Recorded', open'[t].event) = b /\ Len(archive') + 1 = m + 2
    BY <1>3, <1>4, <1>6, <2>1 DEF b
  <2> QED
    BY <2>1, <2>9, <2>10
<1>9. archive' \in Seq(Contents')
  <2>1. Contents' = Contents \cup {r}
    BY <1>3, <1>4, <1>5 DEF Contents
  <2> QED
    BY <1>4, <2>1
<1>10. DOMAIN open' = Sessions
  BY <1>1 DEF ServingInv
<1> QED
  BY <1>7, <1>8, <1>9, <1>10 DEF ServingInv, Scoring, With

\* A session rolls back, and nobody notices.
LEMMA AbandonStep ==
  ASSUME ServingInv, NEW s \in Sessions, Abandon(s)
  PROVE  ServingInv'
<1>1. UNCHANGED archive /\ UNCHANGED Recorded /\ open' = [open EXCEPT ![s] = NoRow]
  BY DEF Abandon, Recorded
<1>2. ASSUME NEW t \in Sessions, open'[t] # NoRow PROVE t \in Scoring /\ open'[t] = open[t]
  BY <1>1, <1>2 DEF ServingInv, Scoring
<1> QED
  BY <1>1, <1>2 DEF ServingInv, Contents, Scoring, With

LEMMA ServingInvariance == ServingSpec => []ServingInv
<1>1. ServingInit => ServingInv
  BY DEF ServingInit, ServingInv, Contents, Scoring
<1>2. ServingInv /\ [ServingNext]_servingVars => ServingInv'
  <2>1. ASSUME ServingInv, ServingNext PROVE ServingInv'
    BY <2>1, ScoreStep, RecordStep, AbandonStep DEF ServingNext
  <2>2. ASSUME ServingInv, UNCHANGED servingVars PROVE ServingInv'
    BY <2>2 DEF servingVars, ServingInv, Contents, Recorded, Scoring, With
  <2> QED
    BY <2>1, <2>2
<1> QED
  BY <1>1, <1>2, PTL DEF ServingSpec

\* No archived decision is milder than the thresholds alone would have it.
THEOREM DecisionsAreNotDowngraded == ServingSpec => []NeverDowngraded
<1>1. ServingInv => NeverDowngraded
  BY RulesOnlyEscalate DEF ServingInv, Sound, NeverDowngraded
<1> QED
  BY <1>1, ServingInvariance, PTL

\* An event whose session has read a burst of its user's is not approved, whatever
\* the windows (the burst's within the history), the model, the number of sessions
\* and the order in which all events are read and recorded.
THEOREM BurstsAreHeld == ServingSpec => []BurstIsHeld
<1>1. ASSUME ServingInv PROVE BurstIsHeld
  <2> SUFFICES ASSUME NEW i \in DOMAIN archive,
                      Cardinality(Burst(Recorded, i, archive[i].seen)) >= VelocityReviewCount
               PROVE  archive[i].decision # "APPROVE"
    BY DEF BurstIsHeld
  <2> DEFINE n == archive[i].seen
  <2>1. \A j \in DOMAIN Recorded : Recorded[j].time \in Int
    BY <1>1, Lengths, EventsAssumption DEF EventsAssumption
  <2>2. DOMAIN Recorded = DOMAIN archive
    BY DEF Recorded
  <2>3. archive[i].features.velocity[FiveMinutes] = Cardinality(Burst(Recorded, i, n))
    <3>1. Recent(Recorded, i, Known(Recorded, i, n), FiveMinutes) = Burst(Recorded, i, n)
      BY <2>1, <2>2, WindowIsBurst
    <3> QED
      BY <1>1, <3>1 DEF ServingInv, Sound, ServedWith, Windows
  <2>4. Escalates(SignalsOf(archive[i].features))
    BY <2>3 DEF Escalates, RapidBurst, SignalsOf
  <2> QED
    BY <1>1, <2>4 DEF ServingInv, Sound, DecisionOf
<1> QED
  BY <1>1, ServingInvariance, PTL

\* If nothing of its user's came late or was still being recorded when its history
\* was read, an event was scored with the velocities that training computes for it,
\* however much is recorded after it.  With all the trained columns it was scored
\* if, besides, its user has no event older than the history query's days.
THEOREM TrainingAgreesWithServing == ServingSpec => []TrainedAsServed
<1>1. ASSUME ServingInv PROVE TrainedAsServed
  <2> SUFFICES ASSUME NEW i \in DOMAIN archive, InOrder(Recorded, i, archive[i].seen),
                      NEW before \in Precedings(Recorded, i)
               PROVE  LET served  == TrainedColumns(archive[i].features)
                          trained == Offline(Recorded, i, before)
                      IN  /\ served.velocity = trained.velocity
                          /\ Recalled(Recorded, i) => served = trained
    BY DEF TrainedAsServed
  <2> DEFINE n       == archive[i].seen
             known   == Known(Recorded, i, n)
             served  == TrainedColumns(archive[i].features)
             trained == Offline(Recorded, i, before)
             InWindow(rows, w) == {j \in rows : Recorded[j].time >= Recorded[i].time - w}
  <2>1. served = Offline(Recorded, i, known)
    BY <1>1 DEF ServingInv, Sound, ServedWith
  <2>2. Recalled(Recorded, i) => served = trained
    BY <2>1, KnownPrecedes
  <2>3. /\ served.velocity = [w \in Windows \ {OneMinute} |-> Cardinality(InWindow(known, w))]
        /\ trained.velocity = [w \in Windows \ {OneMinute} |-> Cardinality(InWindow(before, w))]
    <3> HIDE DEF served
    <3> QED
      BY <2>1 DEF Offline
  <2>4. ASSUME NEW w \in Windows PROVE InWindow(known, w) = InWindow(before, w)
    <3>1. \A j \in DOMAIN Recorded : Recorded[j].time \in Int
      BY <1>1, Lengths, EventsAssumption DEF EventsAssumption
    <3>2. /\ known \subseteq before /\ before \subseteq DOMAIN Recorded
          /\ \A j \in before : Recorded[j].time >= Recorded[i].time - HistoryDays => j \in known
      BY KnownPrecedes
    <3>3. w \in Int /\ HistoryDays \in Int /\ w <= HistoryDays
      <4>1. HistoryDays \in Nat /\ w \in 0 .. HistoryDays
        BY WindowsAssumption DEF WindowsAssumption, Windows
      <4> QED
        BY <4>1
    <3>4. Recorded[i].time \in Int
      BY <3>1 DEF Recorded
    <3>5. \A j \in before : Recorded[j].time >= Recorded[i].time - w =>
                              Recorded[j].time >= Recorded[i].time - HistoryDays
      BY <3>1, <3>2, <3>3, <3>4
    <3> QED
      BY <3>2, <3>5
  <2>5. served.velocity = trained.velocity
    <3> HIDE DEF served, trained, known, InWindow
    <3> QED
      BY <2>3, <2>4
  <2> QED
    BY <2>2, <2>5
<1> QED
  BY <1>1, ServingInvariance, PTL

\* Late events only hide: in whatever order events are recorded, serving counts no more in
\* a window than training will, and a merchant that is new to training was new when
\* the event was scored, if the user had any history in the day before.
THEOREM LatenessOnlyHides == ServingSpec => []LateEventsOnlyHide
<1>1. ASSUME ServingInv PROVE LateEventsOnlyHide
  <2> SUFFICES ASSUME NEW i \in DOMAIN archive, NEW before \in Precedings(Recorded, i)
               PROVE  LET online  == archive[i].features
                          offline == Offline(Recorded, i, before)
                      IN  /\ \A w \in DOMAIN offline.velocity : online.velocity[w] <= offline.velocity[w]
                          /\ offline.newMerchant /\ online.velocity[OneDay] > 0 => online.newMerchant
    BY DEF LateEventsOnlyHide
  <2> DEFINE online  == archive[i].features
             offline == Offline(Recorded, i, before)
             known   == Known(Recorded, i, archive[i].seen)
             InWindow(rows, w) == {j \in rows : Recorded[j].time >= Recorded[i].time - w}
  <2>1. known \subseteq before /\ before \subseteq DOMAIN Recorded
    BY KnownPrecedes
  <2>2. IsFiniteSet(before)
    <3>1. DOMAIN Recorded = 1 .. Len(archive) /\ Len(archive) \in Nat
      BY <1>1 DEF ServingInv, Recorded
    <3>2. IsFiniteSet(1 .. Len(archive))
      BY <3>1, FS_Interval
    <3> QED
      BY <2>1, <3>1, <3>2, FS_Subset
  <2>3. /\ \A w \in Windows : online.velocity[w] = Cardinality(InWindow(known, w))
        /\ TrainedColumns(online) = Offline(Recorded, i, known)
    BY <1>1 DEF ServingInv, Sound, ServedWith, Recent
  <2>4. /\ DOMAIN offline.velocity = Windows \ {OneMinute}
        /\ \A w \in Windows \ {OneMinute} : offline.velocity[w] = Cardinality(InWindow(before, w))
        /\ offline.newMerchant <=> before # {} /\ \A j \in before : Recorded[j].merchant # Recorded[i].merchant
    BY DEF Offline
  <2>5. online.newMerchant = (known # {} /\ \A j \in known : Recorded[j].merchant # Recorded[i].merchant)
    BY <2>3, Zenon DEF TrainedColumns, Offline
  <2>6. ASSUME NEW w \in Windows \ {OneMinute} PROVE online.velocity[w] <= offline.velocity[w]
    <3>1. InWindow(known, w) \subseteq InWindow(before, w) /\ InWindow(before, w) \subseteq before
      BY <2>1
    <3>2. Cardinality(InWindow(known, w)) <= Cardinality(InWindow(before, w))
      BY <2>2, <3>1, FS_Subset
    <3> QED
      BY <2>3, <2>4, <3>2
  <2>7. ASSUME offline.newMerchant, online.velocity[OneDay] > 0 PROVE online.newMerchant
    <3>1. known # {}
      <4>1. Cardinality(InWindow(known, OneDay)) > 0
        BY <2>3, <2>7 DEF Windows
      <4> QED
        BY <4>1, FS_EmptySet
    <3> QED
      BY <2>1, <2>4, <2>5, <2>7, <3>1
  <2> QED
    BY <2>4, <2>6, <2>7
<1> QED
  BY <1>1, ServingInvariance, PTL

-----------------------------------------------------------------------------
(* Least elements and sums                                                 *)

\* A set of natural numbers has a least element: what can go wrong goes wrong for
\* the first time somewhere.
LEMMA LeastExists ==
  ASSUME NEW T \in SUBSET Nat, T # {}
  PROVE  \E n \in T : \A m \in T : n <= m
<1>1. \E n \in T : \A m \in T : <<m, n>> \notin OpToRel(<, Nat)
  BY NatLessThanWellFounded, WFMin
<1>2. PICK n \in T : \A m \in T : <<m, n>> \notin OpToRel(<, Nat)
  BY <1>1
<1>3. \A m \in T : ~(m < n)
  BY <1>2 DEF OpToRel
<1> QED
  BY <1>3

LEMMA MinExists ==
  ASSUME NEW T \in SUBSET Nat, T # {}
  PROVE  Min(T) \in T /\ \A m \in T : Min(T) <= m
BY LeastExists DEF Min

\* What the sum of f comes to for a set, given the sums for smaller sets.
Partial(f, g, s) ==
  IF s = {} THEN 0
  ELSE LET x == CHOOSE x \in s : TRUE IN f[x] + g[s \ {x}]

\* There are such sums for the sets of up to any size, hence for all of them.
LEMMA PartialSumsExist ==
  ASSUME NEW S, IsFiniteSet(S), NEW f \in [S -> Nat]
  PROVE  \E g : g = [s \in SUBSET S |-> Partial(f, g, s)]
<1> DEFINE Upto(n) == {s \in SUBSET S : Cardinality(s) <= n}
           Good(n) == \E g \in [Upto(n) -> Nat] : \A s \in Upto(n) : g[s] = Partial(f, g, s)
           bad == {n \in Nat : ~Good(n)}
<1>1. \A s \in SUBSET S : IsFiniteSet(s) /\ Cardinality(s) \in Nat
  BY FS_Subset, FS_CardinalityType
<1>2. ASSUME NEW s \in SUBSET S, s # {}
      PROVE  LET x == CHOOSE x \in s : TRUE
             IN  /\ x \in S /\ f[x] \in Nat /\ s \ {x} \in SUBSET S
                 /\ Cardinality(s \ {x}) = Cardinality(s) - 1
  <2>1. (CHOOSE x \in s : TRUE) \in s
    BY <1>2
  <2> QED
    BY <1>1, <2>1, FS_RemoveElement
<1>3. bad = {}
  <2> SUFFICES ASSUME bad # {} PROVE FALSE
    OBVIOUS
  <2>1. PICK n \in bad : \A m \in bad : n <= m
    <3>1. bad \in SUBSET Nat
      OBVIOUS
    <3> HIDE DEF bad
    <3> QED
      BY <3>1, LeastExists
  <2>2. CASE n = 0
    <3>1. \A s \in Upto(0) : s = {}
      BY <1>1, FS_EmptySet
    <3> DEFINE g == [s \in Upto(0) |-> 0]
    <3>2. g \in [Upto(0) -> Nat] /\ \A s \in Upto(0) : g[s] = Partial(f, g, s)
      BY <3>1 DEF Partial
    <3>3. Good(0)
      BY <3>2
    <3> QED
      BY <2>2, <3>3
  <2>3. CASE n # 0
    <3>1. n - 1 \in Nat /\ Good(n - 1)
      <4> HIDE DEF Good
      <4> QED
        BY <2>1, <2>3
    <3>2. PICK g \in [Upto(n - 1) -> Nat] : \A s \in Upto(n - 1) : g[s] = Partial(f, g, s)
      BY <3>1
    <3> DEFINE h == [s \in Upto(n) |-> Partial(f, g, s)]
    <3>3. ASSUME NEW s \in Upto(n), s # {}
          PROVE  s \ {CHOOSE x \in s : TRUE} \in Upto(n - 1) /\ f[CHOOSE x \in s : TRUE] \in Nat
      BY <1>1, <1>2, <3>3
    <3>4. \A s \in Upto(n - 1) : s \in Upto(n) /\ h[s] = g[s]
      BY <1>1, <3>2
    <3>5. ASSUME NEW s \in Upto(n) PROVE Partial(f, g, s) \in Nat /\ h[s] = Partial(f, h, s)
      <4>1. CASE s = {}
        BY <4>1 DEF Partial
      <4>2. CASE s # {}
        <5> DEFINE x == CHOOSE x \in s : TRUE
        <5>1. s \ {x} \in Upto(n - 1) /\ f[x] \in Nat
          BY <3>3, <4>2
        <5>2. Partial(f, g, s) = f[x] + g[s \ {x}] /\ Partial(f, h, s) = f[x] + h[s \ {x}]
          BY <4>2 DEF Partial
        <5>3. h[s] = Partial(f, g, s)
          OBVIOUS
        <5> HIDE DEF x, h, Upto
        <5>4. g[s \ {x}] \in Nat /\ h[s \ {x}] = g[s \ {x}]
          BY <3>4, <5>1
        <5> QED
          BY <5>1, <5>2, <5>3, <5>4
      <4> QED
        BY <4>1, <4>2
    <3>6. h \in [Upto(n) -> Nat] /\ \A s \in Upto(n) : h[s] = Partial(f, h, s)
      BY <3>5
    <3>7. Good(n)
      <4> HIDE DEF h, Upto
      <4> QED
        BY <3>6
    <3> QED
      BY <3>7
  <2> QED
    BY <2>2, <2>3
<1>4. Cardinality(S) \in Nat /\ Upto(Cardinality(S)) = SUBSET S
  BY <1>1, FS_Subset
<1>5. PICK g \in [SUBSET S -> Nat] : \A s \in SUBSET S : g[s] = Partial(f, g, s)
  <2>1. Good(Cardinality(S))
    BY <1>3, <1>4
  <2> QED
    BY <1>4, <2>1
<1>6. g = [s \in SUBSET S |-> Partial(f, g, s)]
  BY <1>5
<1> QED
  BY <1>6

\* A finite sum of natural numbers is one.
LEMMA SumIsNatural ==
  ASSUME NEW S, IsFiniteSet(S), NEW f \in [S -> Nat]
  PROVE  SumFunction(f) \in Nat
<1> DEFINE sums == CHOOSE g : g = [s \in SUBSET S |-> Partial(f, g, s)]
           bad  == {n \in Nat : \E s \in SUBSET S : Cardinality(s) = n /\ sums[s] \notin Nat}
<1>1. SumFunction(f) = sums[S]
  BY DEF SumFunction, SumFunctionOnSet, FoldFunctionOnSet, MapThenFoldSet, Partial
<1>2. sums = [s \in SUBSET S |-> Partial(f, sums, s)]
  BY PartialSumsExist
<1> HIDE DEF sums
<1>3. \A s \in SUBSET S : IsFiniteSet(s) /\ Cardinality(s) \in Nat
  BY FS_Subset, FS_CardinalityType
<1>4. bad = {}
  <2> SUFFICES ASSUME bad # {} PROVE FALSE
    OBVIOUS
  <2>1. PICK n \in bad : \A m \in bad : n <= m
    <3>1. bad \in SUBSET Nat
      OBVIOUS
    <3> HIDE DEF bad
    <3> QED
      BY <3>1, LeastExists
  <2>2. PICK s \in SUBSET S : Cardinality(s) = n /\ sums[s] \notin Nat
    OBVIOUS
  <2>3. sums[s] = Partial(f, sums, s)
    BY <1>2
  <2>4. s # {}
    BY <2>2, <2>3 DEF Partial
  <2> DEFINE x == CHOOSE x \in s : TRUE
  <2>5. x \in s
    BY <2>4
  <2> HIDE DEF x
  <2>6. Cardinality(s \ {x}) = n - 1 /\ n - 1 \in Nat
    BY <1>3, <2>2, <2>5, FS_RemoveElement
  <2>7. sums[s \ {x}] \in Nat
    BY <2>1, <2>6
  <2>8. sums[s] = f[x] + sums[s \ {x}] /\ f[x] \in Nat
    BY <2>3, <2>4, <2>5 DEF Partial, x
  <2> QED
    BY <2>2, <2>7, <2>8
<1>5. sums[S] \in Nat
  BY <1>3, <1>4
<1> QED
  BY <1>1, <1>5

-----------------------------------------------------------------------------
(* Costs and choices                                                       *)

\* Finitely many rows with labels, amounts and probabilities.
Labels(rows) ==
  /\ IsFiniteSet(DOMAIN rows)
  /\ \A i \in DOMAIN rows : rows[i] \in [fraud : BOOLEAN, amount : Nat, p : Int]

LEMMA CostIsNatural ==
  ASSUME NEW rows, Labels(rows), NEW review \in Int, NEW block \in Int
  PROVE  ExpectedCost(rows, review, block) \in Nat
<1> DEFINE Reviewed(r) == r.p >= review /\ r.p < block
           Missed(r)   == IF r.fraud /\ r.p < review THEN 100 * r.amount ELSE 0
           Loss(r)     == IF r.fraud /\ Reviewed(r) THEN MissRate * r.amount ELSE 0
           Friction(r) == IF ~r.fraud /\ r.p >= block THEN FalsePositiveCost ELSE 0
           Handling(r) == IF Reviewed(r) THEN ReviewCost ELSE 0
           Terms(i)    == Missed(rows[i]) + Loss(rows[i]) + Friction(rows[i]) + Handling(rows[i])
           costs       == [i \in DOMAIN rows |-> Terms(i)]
<1>1. ASSUME NEW i \in DOMAIN rows PROVE Terms(i) \in Nat
  <2>1. rows[i].fraud \in BOOLEAN /\ rows[i].amount \in Nat /\ rows[i].p \in Int
    BY DEF Labels
  <2>2. FalsePositiveCost \in Nat /\ ReviewCost \in Nat /\ MissRate \in Nat
    BY CostAssumption
  <2>3. MissRate * rows[i].amount \in Nat /\ 100 * rows[i].amount \in Nat
    BY <2>1, <2>2
  <2>4. /\ Missed(rows[i]) \in Nat /\ Loss(rows[i]) \in Nat
        /\ Friction(rows[i]) \in Nat /\ Handling(rows[i]) \in Nat
    BY <2>2, <2>3
  <2> HIDE DEF Missed, Loss, Friction, Handling
  <2> QED
    BY <2>4
<1>2. costs \in [DOMAIN rows -> Nat]
  BY <1>1
<1>3. SumFunction(costs) \in Nat
  <2> HIDE DEF costs
  <2> QED
    BY <1>2, SumIsNatural DEF Labels
<1> QED
  BY <1>3 DEF ExpectedCost

\* optimize_thresholds: whatever the rows, the pair that comes out is one of the
\* grid's that can be afforded, at its own cost, and none of those is cheaper; only
\* if there is none does the default come out, at an infinite cost.
THEOREM ThresholdsAreOptimal ==
  ASSUME NEW rows, Labels(rows)
  PROVE  LET best == OptimalThresholds(rows)
             Can(g) == Affordable(rows, g[1], g[2])
         IN  /\ best \in [review : Int, block : Int, cost : Nat \cup {Infinite}]
             /\ best.review < best.block
             /\ (\A g \in Grid : ~Can(g)) => best = Default
             /\ (\E g \in Grid : Can(g)) =>
                  /\ <<best.review, best.block>> \in Grid /\ Can(<<best.review, best.block>>)
                  /\ best.cost = ExpectedCost(rows, best.review, best.block)
                  /\ \A g \in Grid : Can(g) => best.cost <= ExpectedCost(rows, g[1], g[2])
<1> DEFINE Can(g) == Affordable(rows, g[1], g[2])
           Of(g) == [review |-> g[1], block |-> g[2], cost |-> ExpectedCost(rows, g[1], g[2])]
           feasible == {Of(g) : g \in {g \in Grid : Can(g)}}
           lowest   == Min({t.cost : t \in feasible})
           best     == {t \in feasible : t.cost = lowest}
           review   == Min({t.review : t \in best})
           block    == Min({t.block : t \in {t \in best : t.review = review}})
           chosen   == [review |-> review, block |-> block, cost |-> lowest]
<1>1. OptimalThresholds(rows) = IF feasible = {} THEN Default ELSE chosen
  BY DEF OptimalThresholds
<1>2. \A g \in Grid : g = <<g[1], g[2]>> /\ g[1] \in Nat /\ g[2] \in Nat /\ g[1] < g[2]
  BY DEF Grid
<1>3. \A g \in Grid : ExpectedCost(rows, g[1], g[2]) \in Nat
  BY <1>2, CostIsNatural
<1> HIDE DEF Can
<1>4. \A t \in feasible : /\ t.review \in Nat /\ t.block \in Nat /\ t.cost \in Nat
                          /\ t.review < t.block
                          /\ <<t.review, t.block>> \in Grid /\ Can(<<t.review, t.block>>)
                          /\ t.cost = ExpectedCost(rows, t.review, t.block)
  BY <1>2, <1>3
<1>5. CASE feasible = {}
  <2>1. \A g \in Grid : ~Can(g)
    BY <1>5
  <2>2. OptimalThresholds(rows) = Default
    BY <1>1, <1>5
  <2> QED
    BY <2>1, <2>2 DEF Default, Infinite, Can
<1>6. CASE feasible # {}
  <2>0. \A g \in Grid : Can(g) => Of(g) \in feasible /\ Of(g).cost = ExpectedCost(rows, g[1], g[2])
    OBVIOUS
  <2> HIDE DEF feasible, Of
  <2>1. lowest \in {t.cost : t \in feasible} /\ \A t \in feasible : lowest <= t.cost
    <3>1. {t.cost : t \in feasible} \in SUBSET Nat /\ {t.cost : t \in feasible} # {}
      BY <1>4, <1>6
    <3>2. \A t \in feasible : t.cost \in {u.cost : u \in feasible}
      OBVIOUS
    <3> HIDE DEF lowest
    <3> QED
      BY <3>1, <3>2, MinExists DEF lowest
  <2> HIDE DEF lowest
  <2>2. best # {} /\ \A t \in best : t \in feasible
    BY <2>1
  <2> HIDE DEF best
  <2>3. review \in {t.review : t \in best}
    <3>1. {t.review : t \in best} \in SUBSET Nat /\ {t.review : t \in best} # {}
      BY <1>4, <2>2
    <3> QED
      BY <3>1, MinExists
  <2> HIDE DEF review
  <2>4. block \in {t.block : t \in {t \in best : t.review = review}}
    <3>1. /\ {t.block : t \in {t \in best : t.review = review}} \in SUBSET Nat
          /\ {t.block : t \in {t \in best : t.review = review}} # {}
      BY <1>4, <2>2, <2>3
    <3> QED
      BY <3>1, MinExists
  <2>5. PICK t \in best : t.review = review /\ t.block = block
    BY <2>4
  <2> HIDE DEF block
  <2>6. t.cost = lowest /\ t \in feasible
    BY <2>2 DEF best
  <2>7. OptimalThresholds(rows) = chosen
    BY <1>1, <1>6 DEF feasible, Of, lowest, best, review, block
  <2>8. /\ review \in Nat /\ block \in Nat /\ lowest \in Nat /\ review < block
        /\ <<review, block>> \in Grid /\ Can(<<review, block>>)
        /\ lowest = ExpectedCost(rows, review, block)
    BY <1>4, <2>5, <2>6
  <2>9. \A g \in Grid : Can(g) => lowest <= ExpectedCost(rows, g[1], g[2])
    BY <2>0, <2>1
  <2>10. /\ chosen \in [review : Int, block : Int, cost : Nat \cup {Infinite}]
         /\ chosen.review = review /\ chosen.block = block /\ chosen.cost = lowest
    BY <2>8
  <2>11. \E g \in Grid : Can(g)
    BY <2>8
  <2> HIDE DEF chosen
  <2> QED
    BY <2>7, <2>8, <2>9, <2>10, <2>11 DEF Can
<1> QED
  BY <1>5, <1>6

\* The order of the candidates: nothing is better than itself, nor than what is
\* better than it.
LEMMA BetterIsAnOrder ==
  /\ \A x \in Results : ~Better(x, x)
  /\ \A x, y, z \in Results : Better(x, y) /\ Better(y, z) => Better(x, z)
<1>1. \A x \in Results : /\ x.cost \in Nat \/ x.cost = Infinite
                         /\ x.cost \in Int /\ x.prAuc \in Int
  <2>1. PrAucs \subseteq Nat
    BY TrainingAssumption DEF TrainingAssumption
  <2>2. Infinite \in Int
    BY DEF Infinite
  <2>3. \A x \in Results : x.cost \in Nat \cup {Infinite} /\ x.prAuc \in PrAucs
    BY DEF Results
  <2>4. ASSUME NEW x \in Results
        PROVE  (x.cost \in Nat \/ x.cost = Infinite) /\ x.cost \in Int
    BY <2>2, <2>3
  <2>5. ASSUME NEW x \in Results
        PROVE  x.prAuc \in Int
    <3>1. x.prAuc \in Nat
      BY <2>1, <2>3
    <3> QED
      BY <3>1
  <2> QED
    BY <2>4, <2>5
<1>2. \A x \in Results : ~Better(x, x)
  BY <1>1 DEF Better, Cheaper
<1>3. ASSUME NEW x \in Results, NEW y \in Results, NEW z \in Results, Better(x, y), Better(y, z)
      PROVE  Better(x, z)
  <2>1. /\ x.cost \in Int /\ y.cost \in Int /\ z.cost \in Int
        /\ x.prAuc \in Int /\ y.prAuc \in Int /\ z.prAuc \in Int
    BY <1>1
  <2> QED
    BY <1>3, <2>1 DEF Better, Cheaper
<1> QED
  BY <1>2, <1>3

\* train.py:317-323: min() takes the first of the best candidates, by cost and then
\* PR-AUC: there is one, no candidate is better, and each before it has a better one.
THEOREM FirstBestIsBest ==
  ASSUME NEW candidates \in Seq(Results), candidates # <<>>
  PROVE  LET best == FirstBest(candidates)
         IN  /\ best \in DOMAIN candidates
             /\ \A j \in DOMAIN candidates : ~Better(candidates[j], candidates[best])
             /\ \A i \in DOMAIN candidates :
                  i < best => \E j \in DOMAIN candidates : Better(candidates[j], candidates[i])
<1> DEFINE n == Len(candidates)
           Best(k, i) == \A j \in 1 .. k : ~Better(candidates[j], candidates[i])
           bad == {k \in Nat : k # 0 /\ k <= n /\ \A i \in 1 .. k : ~Best(k, i)}
           firsts == {i \in DOMAIN candidates :
                        \A j \in DOMAIN candidates : ~Better(candidates[j], candidates[i])}
<1>1. n \in Nat \ {0} /\ DOMAIN candidates = 1 .. n /\ \A i \in 1 .. n : candidates[i] \in Results
  OBVIOUS
<1> HIDE DEF n
<1>2. bad = {}
  <2> SUFFICES ASSUME bad # {} PROVE FALSE
    OBVIOUS
  <2>1. PICK k \in bad : \A m \in bad : k <= m
    <3>1. bad \in SUBSET Nat
      OBVIOUS
    <3> HIDE DEF bad
    <3> QED
      BY <3>1, LeastExists
  <2>2. k \in 1 .. n /\ \A i \in 1 .. k : ~Best(k, i)
    BY <1>1
  <2>3. CASE k = 1
    <3>1. Best(1, 1)
      BY <1>1, BetterIsAnOrder
    <3> QED
      BY <2>2, <2>3, <3>1
  <2>4. CASE k # 1
    <3>1. k - 1 \in Nat /\ k - 1 # 0 /\ k - 1 <= n
      BY <1>1, <2>2, <2>4
    <3>2. PICK i \in 1 .. k - 1 : Best(k - 1, i)
      <4> HIDE DEF Best
      <4> QED
        BY <2>1, <3>1
    <3>3. i \in 1 .. k /\ k \in 1 .. k /\ \A j \in 1 .. k : j \in 1 .. k - 1 \/ j = k
      BY <2>2
    <3>4. \A j \in 1 .. k : candidates[j] \in Results
      BY <1>1, <2>2
    <3>5. CASE Better(candidates[k], candidates[i])
      <4>1. Best(k, k)
        BY <3>2, <3>3, <3>4, <3>5, BetterIsAnOrder
      <4> QED
        BY <2>2, <3>3, <4>1
    <3>6. CASE ~Better(candidates[k], candidates[i])
      <4>1. Best(k, i)
        BY <3>2, <3>3, <3>6
      <4> QED
        BY <2>2, <3>3, <4>1
    <3> QED
      BY <3>5, <3>6
  <2> QED
    BY <2>3, <2>4
<1>3. PICK i \in 1 .. n : Best(n, i)
  <2> HIDE DEF Best
  <2>1. n \notin bad
    BY <1>2
  <2>2. n \in Nat /\ n # 0 /\ n <= n
    BY <1>1
  <2> QED
    BY <2>1, <2>2
<1>4. firsts # {} /\ firsts \in SUBSET Nat
  BY <1>1, <1>3
<1>5. Min(firsts) \in firsts /\ \A x \in firsts : Min(firsts) <= x
  BY <1>4, MinExists
<1>6. FirstBest(candidates) = Min(firsts)
  BY DEF FirstBest
<1>7. \A x \in DOMAIN candidates : x < Min(firsts) => x \notin firsts
  <2> HIDE DEF firsts
  <2>1. \A x \in firsts : x \in Nat /\ Min(firsts) \in Nat /\ Min(firsts) <= x
    BY <1>4, <1>5
  <2>2. \A x \in firsts : ~(x < Min(firsts))
    BY <2>1
  <2> QED
    BY <2>2
<1> QED
  BY <1>5, <1>6, <1>7

-----------------------------------------------------------------------------
(* The slices                                                              *)

\* Where each slice begins and ends.
LEMMA SliceBounds ==
  ASSUME NEW size \in Nat
  PROVE  /\ Slice(size, "train")       = (size * 0) \div 100 .. (size * 50) \div 100 - 1
         /\ Slice(size, "selection")   = (size * 50) \div 100 .. (size * 65) \div 100 - 1
         /\ Slice(size, "calibration") = (size * 65) \div 100 .. (size * 75) \div 100 - 1
         /\ Slice(size, "threshold")   = (size * 75) \div 100 .. (size * 85) \div 100 - 1
         /\ Slice(size, "test")        = (size * 85) \div 100 .. (size * 100) \div 100 - 1
<1>1. /\ (CHOOSE i \in 1 .. 5 : SliceNames[i] = "train") = 1
      /\ (CHOOSE i \in 1 .. 5 : SliceNames[i] = "selection") = 2
      /\ (CHOOSE i \in 1 .. 5 : SliceNames[i] = "calibration") = 3
      /\ (CHOOSE i \in 1 .. 5 : SliceNames[i] = "threshold") = 4
      /\ (CHOOSE i \in 1 .. 5 : SliceNames[i] = "test") = 5
  BY DEF SliceNames
<1>2. /\ Boundary(size, 1) = (size * 0) \div 100 /\ Boundary(size, 1 + 1) = (size * 50) \div 100
      /\ Boundary(size, 2) = (size * 50) \div 100 /\ Boundary(size, 2 + 1) = (size * 65) \div 100
      /\ Boundary(size, 3) = (size * 65) \div 100 /\ Boundary(size, 3 + 1) = (size * 75) \div 100
      /\ Boundary(size, 4) = (size * 75) \div 100 /\ Boundary(size, 4 + 1) = (size * 85) \div 100
      /\ Boundary(size, 5) = (size * 85) \div 100 /\ Boundary(size, 5 + 1) = (size * 100) \div 100
  BY DEF Boundary
<1> QED
  BY <1>1, <1>2 DEF Slice

Earlier(S, T) == \A i \in S, j \in T : i < j

\* Every row of a slice is earlier than every row of a later one.
LEMMA SlicesAreChronological ==
  /\ Earlier(Rows("train"), Rows("selection"))
  /\ Earlier(Rows("train") \cup Rows("selection"), Rows("calibration"))
  /\ Earlier(Rows("train") \cup Rows("selection") \cup Rows("calibration"),
             Rows("threshold") \cup Rows("test"))
  /\ Rows("threshold") \cap Rows("test") = {}
  /\ (Rows("train") \cup Rows("selection") \cup Rows("calibration")) \cap Rows("test") = {}
<1> DEFINE at(percent) == (Size * percent) \div 100
<1>1. Size \in Nat
  BY TrainingAssumption DEF TrainingAssumption, Size
<1>2. /\ at(0) \in Int /\ at(50) \in Int /\ at(65) \in Int /\ at(75) \in Int /\ at(85) \in Int
      /\ at(0) <= at(50) /\ at(50) <= at(65) /\ at(65) <= at(75) /\ at(75) <= at(85)
  BY <1>1
<1>3. /\ Rows("train") = at(0) .. at(50) - 1 /\ Rows("selection") = at(50) .. at(65) - 1
      /\ Rows("calibration") = at(65) .. at(75) - 1 /\ Rows("threshold") = at(75) .. at(85) - 1
      /\ Rows("test") = at(85) .. at(100) - 1
  BY <1>1, SliceBounds DEF Rows
<1>4. at(100) \in Int
  BY <1>1
<1> HIDE DEF at
<1>5. Earlier(Rows("train"), Rows("selection"))
  BY <1>2, <1>3 DEF Earlier
<1>6. \A i \in Rows("train") \cup Rows("selection") : i \in Int /\ i < at(65)
  BY <1>2, <1>3
<1>7. \A i \in Rows("calibration") : i \in Int /\ at(65) <= i /\ i < at(75)
  BY <1>2, <1>3
<1>8. \A i \in Rows("threshold") : i \in Int /\ at(75) <= i /\ i < at(85)
  BY <1>2, <1>3
<1>9. \A i \in Rows("test") : i \in Int /\ at(85) <= i
  BY <1>2, <1>3, <1>4
<1>10. Earlier(Rows("train") \cup Rows("selection"), Rows("calibration"))
  BY <1>2, <1>6, <1>7 DEF Earlier
<1>11. Earlier(Rows("train") \cup Rows("selection") \cup Rows("calibration"),
               Rows("threshold") \cup Rows("test"))
  <2>1. \A i \in Rows("train") \cup Rows("selection") \cup Rows("calibration") : i \in Int /\ i < at(75)
    BY <1>2, <1>6, <1>7
  <2>2. \A j \in Rows("threshold") \cup Rows("test") : j \in Int /\ at(75) <= j
    BY <1>2, <1>8, <1>9
  <2> QED
    BY <1>2, <2>1, <2>2 DEF Earlier
<1>12. \A j \in Rows("test") :
         j \notin Rows("train") \cup Rows("selection") \cup Rows("calibration") \cup Rows("threshold")
  BY <1>2, <1>6, <1>7, <1>8, <1>9
<1> QED
  BY <1>5, <1>10, <1>11, <1>12

\* And they are rows of the frame.
LEMMA SlicesAreRows ==
  ASSUME NEW name \in {"train", "selection", "calibration", "threshold", "test"}
  PROVE  Rows(name) \subseteq 0 .. Size - 1
<1> DEFINE at(percent) == (Size * percent) \div 100
<1>1. Size \in Nat
  BY TrainingAssumption DEF TrainingAssumption, Size
<1>2. /\ at(0) = 0 /\ at(100) = Size
      /\ at(50) \in Nat /\ at(65) \in Nat /\ at(75) \in Nat /\ at(85) \in Nat
      /\ at(50) <= Size /\ at(65) <= Size /\ at(75) <= Size /\ at(85) <= Size
  BY <1>1
<1>3. /\ Rows("train") = at(0) .. at(50) - 1 /\ Rows("selection") = at(50) .. at(65) - 1
      /\ Rows("calibration") = at(65) .. at(75) - 1 /\ Rows("threshold") = at(75) .. at(85) - 1
      /\ Rows("test") = at(85) .. at(100) - 1
  BY <1>1, SliceBounds DEF Rows
<1> HIDE DEF at
<1>4. CASE name = "train"
  BY <1>1, <1>2, <1>3, <1>4
<1>5. CASE name = "selection"
  BY <1>1, <1>2, <1>3, <1>5
<1>6. CASE name = "calibration"
  BY <1>1, <1>2, <1>3, <1>6
<1>7. CASE name = "threshold"
  BY <1>1, <1>2, <1>3, <1>7
<1>8. CASE name = "test"
  BY <1>1, <1>2, <1>3, <1>8
<1> QED
  BY <1>4, <1>5, <1>6, <1>7, <1>8

-----------------------------------------------------------------------------
(* The invariant                                                           *)

Fitting     == Rows("train") \cup Rows("selection")
Calibrating == Fitting \cup Rows("calibration")

\* What the model in hand has seen, phase by phase.
FittedInv ==
  /\ fitted \in {{}, Fitting, Calibrating}
  /\ phase = "calibrate" => fitted = Fitting
  /\ phase \in {"threshold", "test"} => fitted = Calibrating

\* What models are evaluated for, and on which rows.
UsesInv ==
  uses \subseteq {Use("select", Rows("train"), "selection"), Use("tune", Rows("train"), "selection"),
                  Use("calibrate", Fitting, "calibration"), Use("threshold", Calibrating, "threshold"),
                  Use("test", Calibrating, "test")}

\* The files of a run are written in the order artifact, report, alias.
FilesInv ==
  /\ {run, artifact, report, alias} \subseteq Nat
  /\ alias <= report /\ report <= artifact /\ artifact <= run
  /\ phase \in {"report", "register", "done"} => artifact = run
  /\ phase \in {"register", "done"} => report = run
  /\ phase = "done" => alias = run

\* The rows of the test slice, with a probability each.
TestedInv == Labels(tested)

\* How far the run is with its candidates, and that its thresholds are a pair.
ProgressInv ==
  /\ run \in 0 .. MaxRuns /\ phase \in Phases
  /\ results \in Seq(Results) /\ trials \in Seq(Results)
  /\ Len(results) <= Candidates /\ Len(trials) <= Trials
  /\ phase = "baseline" => Len(results) < Baselines
  /\ phase = "tune" => Len(results) < Candidates
  /\ thresholds \in [review : Int, block : Int, cost : Nat \cup {Infinite}]
  /\ thresholds.review < thresholds.block

TrainingInv == FittedInv /\ UsesInv /\ FilesInv /\ TestedInv /\ ProgressInv

LEMMA Parameters ==
  /\ Baselines \in Nat \ {0} /\ Families \in Nat \ {0} /\ Trials \in Nat \ {0} /\ MaxRuns \in Nat
  /\ Baselines < Candidates /\ Candidates \in Nat
  /\ Outputs \subseteq Int
BY TrainingAssumption DEF TrainingAssumption, Candidates

\* Before anything is chosen, the default stands.
LEMMA DefaultIsPair ==
  /\ Default \in [review : Int, block : Int, cost : Nat \cup {Infinite}]
  /\ Default.review < Default.block
BY DEF Default, Infinite

\* Initially there is nothing.
LEMMA TrainingInitInv == Init => TrainingInv
<1> SUFFICES ASSUME Init PROVE TrainingInv
  OBVIOUS
<1>1. FittedInv /\ UsesInv /\ FilesInv
  BY DEF Init, FittedInv, UsesInv, FilesInv
<1>2. TestedInv
  BY FS_EmptySet DEF Init, TestedInv, Labels
<1>3. ProgressInv
  BY Parameters, DefaultIsPair DEF Init, ProgressInv, Phases
<1> QED
  BY <1>1, <1>2, <1>3 DEF TrainingInv

\* Rows are labelled with any probabilities.
LEMMA LabelledRows ==
  ASSUME NEW name \in {"selection", "threshold", "test"}, NEW p \in [Rows(name) -> Outputs]
  PROVE  Labels(Labelled(name, p))
<1> DEFINE Labelling == [fraud : BOOLEAN, amount : Nat]
           rows == Labelled(name, p)
<1>1. Size \in Nat /\ Frame \in Seq(Labelling) /\ Size = Len(Frame)
  BY TrainingAssumption DEF TrainingAssumption, Size
<1>2. Rows(name) \subseteq 0 .. Size - 1
  BY SlicesAreRows
<1>3. DOMAIN rows = Rows(name) /\ IsFiniteSet(Rows(name))
  <2>1. IsFiniteSet(0 .. Size - 1)
    BY <1>1, FS_Interval
  <2> QED
    BY <1>2, <2>1, FS_Subset DEF Labelled
<1>4. ASSUME NEW i \in Rows(name)
      PROVE  rows[i] \in [fraud : BOOLEAN, amount : Nat, p : Int]
  <2>1. i + 1 \in 1 .. Len(Frame)
    BY <1>1, <1>2
  <2>2. Frame[i + 1] \in Labelling
    <3> HIDE DEF Labelling
    <3> QED
      BY <1>1, <2>1
  <2>3. rows[i] = [fraud |-> Frame[i + 1].fraud, amount |-> Frame[i + 1].amount, p |-> p[i]]
    BY DEF Labelled
  <2>4. p[i] \in Int
    BY Parameters
  <2> HIDE DEF rows
  <2> QED
    BY <2>2, <2>3, <2>4
<1> QED
  BY <1>3, <1>4 DEF Labels

\* An evaluation is of the type of one.
LEMMA EvaluationsAreResults == Evaluations("selection") \subseteq Results
<1> SUFFICES ASSUME NEW p \in [Rows("selection") -> Outputs], NEW a \in PrAucs
             PROVE  [cost |-> OptimalThresholds(Labelled("selection", p)).cost, prAuc |-> a] \in Results
  BY DEF Evaluations
<1>1. OptimalThresholds(Labelled("selection", p)).cost \in Nat \cup {Infinite}
  BY LabelledRows, ThresholdsAreOptimal
<1> QED
  BY <1>1 DEF Results

\* The order of the files survives every step.
LEMMA FilesStep == ASSUME FilesInv, [Next]_vars PROVE FilesInv'
<1> USE DEF FilesInv
<1>1. CASE Start
  BY <1>1 DEF Start, disk
<1>2. CASE Baseline \/ Trial \/ Tuned \/ Refit \/ Calibrate \/ Threshold \/ Test
  BY <1>2 DEF Baseline, Trial, Tuned, Refit, Calibrate, Threshold, Test, disk
<1>3. CASE Dump
  BY <1>3 DEF Dump
<1>4. CASE WriteReport
  BY <1>4 DEF WriteReport
<1>5. CASE Register \/ RegisterCutOff
  BY <1>5 DEF Register, RegisterCutOff
<1>6. CASE Fail \/ UNCHANGED vars
  BY <1>6 DEF Fail, vars, memory, disk
<1> QED
  BY <1>1, <1>2, <1>3, <1>4, <1>5, <1>6 DEF Next

\* And so does what each model has seen and was used for.
LEMMA UsesStep == ASSUME FittedInv, UsesInv, [Next]_vars PROVE FittedInv' /\ UsesInv'
<1> USE DEF FittedInv, UsesInv
<1>1. CASE Start \/ Fail \/ RegisterCutOff
  BY <1>1 DEF Start, Fail, RegisterCutOff, Fresh
<1>2. CASE Baseline
  BY <1>2 DEF Baseline
<1>3. CASE Trial
  BY <1>3 DEF Trial
<1>4. CASE Tuned
  BY <1>4 DEF Tuned
<1>5. CASE Refit
  BY <1>5 DEF Refit, Fitting
<1>6. CASE Calibrate
  BY <1>6 DEF Calibrate, Calibrating
<1>7. CASE Threshold
  BY <1>7 DEF Threshold
<1>8. CASE Test
  BY <1>8 DEF Test
<1>9. CASE Dump \/ WriteReport \/ Register \/ UNCHANGED vars
  BY <1>9 DEF Dump, WriteReport, Register, vars, memory
<1> QED
  BY <1>1, <1>2, <1>3, <1>4, <1>5, <1>6, <1>7, <1>8, <1>9 DEF Next

\* Only the test changes the rows that are measured.
LEMMA TestedStep == ASSUME TestedInv, [Next]_vars PROVE TestedInv'
<1>1. CASE Test
  <2>1. PICK p \in [Rows("test") -> Outputs] : tested' = Labelled("test", p)
    BY <1>1 DEF Test
  <2> QED
    BY <2>1, LabelledRows DEF TestedInv
<1>2. CASE Start \/ Fail \/ RegisterCutOff
  BY <1>2, FS_EmptySet DEF Start, Fail, RegisterCutOff, Fresh, TestedInv, Labels
<1>3. CASE UNCHANGED tested
  BY <1>3 DEF TestedInv
<1> QED
  BY <1>1, <1>2, <1>3
  DEF Next, Baseline, Trial, Tuned, Refit, Calibrate, Threshold, Dump, WriteReport, Register, vars, memory

\* One candidate after the other, one trial after the other, and thresholds that
\* are the best pair or the default.
LEMMA ProgressStep == ASSUME ProgressInv, [Next]_vars PROVE ProgressInv'
<1> USE DEF ProgressInv
<1>1. CASE Start \/ Fail \/ RegisterCutOff
  <2>1. results' = <<>> /\ trials' = <<>> /\ thresholds' = Default
    BY <1>1 DEF Start, Fail, RegisterCutOff, Fresh
  <2>2. <<>> \in Seq(Results) /\ Len(<<>>) = 0
    OBVIOUS
  <2>3. run' \in 0 .. MaxRuns /\ phase' \in {"baseline", "failed"}
    BY <1>1, Parameters DEF Start, Fail, RegisterCutOff
  <2> QED
    BY <2>1, <2>2, <2>3, Parameters, DefaultIsPair DEF Phases
<1>2. CASE Baseline
  <2>1. PICK r \in Evaluations("selection") : results' = Append(results, r)
    BY <1>2 DEF Baseline
  <2>2. r \in Results
    BY EvaluationsAreResults
  <2>3. results' \in Seq(Results) /\ Len(results') = Len(results) + 1
    BY <2>1, <2>2
  <2> QED
    BY <1>2, <2>3, Parameters DEF Baseline, Phases
<1>3. CASE Trial
  <2>1. PICK r \in Evaluations("selection") : trials' = Append(trials, r)
    BY <1>3 DEF Trial
  <2>2. r \in Results
    BY EvaluationsAreResults
  <2>3. trials' \in Seq(Results) /\ Len(trials') = Len(trials) + 1
    BY <2>1, <2>2
  <2> QED
    BY <1>3, <2>3, Parameters DEF Trial
<1>4. CASE Tuned
  <2>1. trials # <<>>
    BY <1>4, Parameters DEF Tuned
  <2>2. FirstBest(trials) \in DOMAIN trials
    BY <2>1, FirstBestIsBest
  <2>3. trials[FirstBest(trials)] \in Results
    BY <2>2
  <2>4. results' \in Seq(Results) /\ Len(results') = Len(results) + 1
    BY <1>4, <2>3 DEF Tuned
  <2> QED
    BY <1>4, <2>4, Parameters DEF Tuned, Phases
<1>5. CASE Threshold
  <2>1. PICK p \in [Rows("threshold") -> Outputs] :
          thresholds' = OptimalThresholds(Labelled("threshold", p))
    BY <1>5 DEF Threshold
  <2>2. /\ thresholds' \in [review : Int, block : Int, cost : Nat \cup {Infinite}]
        /\ thresholds'.review < thresholds'.block
    BY <2>1, LabelledRows, ThresholdsAreOptimal
  <2> QED
    BY <1>5, <2>2 DEF Threshold, Phases
<1>6. CASE Refit \/ Calibrate \/ Test \/ Dump \/ WriteReport \/ Register
  BY <1>6 DEF Refit, Calibrate, Test, Dump, WriteReport, Register, Phases
<1>7. CASE UNCHANGED vars
  BY <1>7 DEF vars, memory
<1> QED
  BY <1>1, <1>2, <1>3, <1>4, <1>5, <1>6, <1>7 DEF Next

-----------------------------------------------------------------------------
(* The monitor's reckoning                                                 *)

\* The costs of the program's configuration.
Production == FalsePositiveCost = 2500 /\ ReviewCost = 500 /\ MissRate = 20

Decided(rows, review, block) ==
  [i \in DOMAIN rows |-> CASE rows[i].p >= block -> "BLOCK"
                           [] rows[i].p < review -> "APPROVE"
                           [] OTHER -> "MANUAL_REVIEW"]

\* expected_cost adds four terms for each row, the monitor goes through a chain
\* of cases: row by row they come to the same.
LEMMA CostsAgree ==
  ASSUME Production, NEW rows, NEW review \in Int, NEW block \in Int, review < block,
         \A i \in DOMAIN rows : rows[i] \in [fraud : BOOLEAN, amount : Nat, p : Int]
  PROVE  ExpectedCost(rows, review, block) = DelayedCost(rows, Decided(rows, review, block))
<1> DEFINE Reviewed(r) == r.p >= review /\ r.p < block
           Missed(r)   == IF r.fraud /\ r.p < review THEN 100 * r.amount ELSE 0
           Loss(r)     == IF r.fraud /\ Reviewed(r) THEN MissRate * r.amount ELSE 0
           Friction(r) == IF ~r.fraud /\ r.p >= block THEN FalsePositiveCost ELSE 0
           Handling(r) == IF Reviewed(r) THEN ReviewCost ELSE 0
           Cost(r, decision) ==
             CASE r.fraud /\ decision = "APPROVE"        -> 100 * r.amount
               [] r.fraud /\ decision = "MANUAL_REVIEW"  -> 20 * r.amount + 500
               [] ~r.fraud /\ decision = "BLOCK"         -> 2500
               [] ~r.fraud /\ decision = "MANUAL_REVIEW" -> 500
               [] OTHER -> 0
           decisions == Decided(rows, review, block)
           Terms(i)  == Missed(rows[i]) + Loss(rows[i]) + Friction(rows[i]) + Handling(rows[i])
           Cases(i)  == Cost(rows[i], decisions[i])
<1>1. ASSUME NEW i \in DOMAIN rows PROVE Terms(i) = Cases(i)
  <2>1. /\ rows[i].fraud \in BOOLEAN /\ rows[i].amount \in Nat /\ rows[i].p \in Int
    OBVIOUS
  <2>2. decisions[i] = IF rows[i].p >= block THEN "BLOCK"
                       ELSE IF rows[i].p < review THEN "APPROVE" ELSE "MANUAL_REVIEW"
    BY <2>1 DEF Decided
  <2>3. CASE rows[i].p >= block
    BY <2>1, <2>2, <2>3 DEF Production
  <2>4. CASE rows[i].p < review
    BY <2>1, <2>2, <2>4 DEF Production
  <2>5. CASE rows[i].p >= review /\ rows[i].p < block
    BY <2>1, <2>2, <2>5 DEF Production
  <2> QED
    BY <2>1, <2>3, <2>4, <2>5
<1>2. [i \in DOMAIN rows |-> Terms(i)] = [i \in DOMAIN rows |-> Cases(i)]
  BY <1>1
<1>3. ExpectedCost(rows, review, block) = SumFunction([i \in DOMAIN rows |-> Terms(i)])
  BY DEF ExpectedCost
<1>4. DelayedCost(rows, decisions) = SumFunction([i \in DOMAIN rows |-> Cases(i)])
  BY DEF DelayedCost
<1> QED
  BY <1>2, <1>3, <1>4

-----------------------------------------------------------------------------
(* Theorems                                                                *)

\* The invariant holds of every behaviour.
THEOREM TrainingInvariance == Spec => []TrainingInv
<1>1. TrainingInv /\ [Next]_vars => TrainingInv'
  BY FilesStep, UsesStep, TestedStep, ProgressStep DEF TrainingInv
<1> QED
  BY <1>1, TrainingInitInv, PTL DEF Spec

\* Every variable stays in its type: the candidates and trials are as many as the
\* run has so far, the review threshold is below the block threshold, and no file
\* is of a run to come.
THEOREM TrainingTypeCorrect == Spec => []TypeOK
<1>1. ASSUME TrainingInv PROVE TypeOK
  <2>1. fitted \subseteq 0 .. Size - 1
    BY <1>1, SlicesAreRows DEF TrainingInv, FittedInv, Fitting, Calibrating
  <2>2. {artifact, report, alias} \subseteq 0 .. run
    BY <1>1 DEF TrainingInv, FilesInv
  <2> QED
    BY <1>1, <2>1, <2>2 DEF TrainingInv, ProgressInv, TypeOK
<1> QED
  BY <1>1, TrainingInvariance, PTL

\* README.md:68, train.py:323: whatever frame is sliced, and however often a run
\* is cut off and repeated, no model is evaluated, calibrated or tuned on a row
\* that is not later than all it has seen, and the test slice is for the test.
THEOREM NothingLooksAhead == Spec => []NoLookAhead
<1>1. TrainingInv => NoLookAhead
  <2> SUFFICES ASSUME TrainingInv PROVE NoLookAhead
    OBVIOUS
  <2>1. ASSUME NEW u \in uses PROVE Earlier(u.fitted, u.on)
    BY SlicesAreChronological DEF TrainingInv, UsesInv, Use, Earlier, Fitting, Calibrating
  <2>2. fitted \cap Rows("test") = {}
    BY SlicesAreChronological DEF TrainingInv, FittedInv, Fitting, Calibrating
  <2>3. ASSUME NEW u \in uses, u.on \cap Rows("test") # {} PROVE u.for = "test"
    BY <2>3, SlicesAreChronological DEF TrainingInv, UsesInv, Use
  <2> QED
    BY <2>1, <2>2, <2>3 DEF NoLookAhead, Earlier
<1> QED
  BY <1>1, TrainingInvariance, PTL

\* train.py:355-411: a registered challenger has its report and artifact, or newer
\* ones, wherever runs were cut off.
THEOREM FilesAreOrdered == Spec => []FilesBeforeAlias
<1>1. TrainingInv => FilesBeforeAlias
  BY DEF TrainingInv, FilesInv, FilesBeforeAlias
<1> QED
  BY <1>1, TrainingInvariance, PTL

\* lifecycle.py:116-125: with the costs of the configuration, the delayed
\* assessment of the test slice comes to the cost the report gives, for any
\* frame and any models.
THEOREM MonitorReckonsAlike ==
  ASSUME Production
  PROVE  Spec => []MonitorAgreesWithTrainer
<1>1. TrainingInv => MonitorAgreesWithTrainer
  <2> SUFFICES ASSUME TrainingInv PROVE MonitorAgreesWithTrainer
    OBVIOUS
  <2>1. /\ thresholds.review \in Int /\ thresholds.block \in Int
        /\ thresholds.review < thresholds.block
    BY DEF TrainingInv, ProgressInv
  <2>2. ExpectedCost(tested, thresholds.review, thresholds.block)
          = DelayedCost(tested, Decided(tested, thresholds.review, thresholds.block))
    BY <2>1, CostsAgree DEF TrainingInv, TestedInv, Labels
  <2> QED
    BY <2>2 DEF MonitorAgreesWithTrainer, Decided
<1> QED
  BY <1>1, TrainingInvariance, PTL
=============================================================================
