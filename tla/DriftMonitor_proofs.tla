------------------------ MODULE DriftMonitor_proofs ------------------------
(***************************************************************************)
(* Theorems about DriftMonitor, for any segments, metrics, labels and      *)
(* versions, and cycles that fail or are committed at any point.           *)
(***************************************************************************)
EXTENDS DriftMonitor, TLAPS, SequenceTheorems, FiniteSetTheorems,
        WellFoundedInduction

-----------------------------------------------------------------------------
(* The newest report                                                       *)

\* A set of natural numbers has a least element.
LEMMA LeastExists ==
  ASSUME NEW T \in SUBSET Nat, T # {}
  PROVE  \E n \in T : \A m \in T : n <= m
<1>1. \E n \in T : \A m \in T : <<m, n>> \notin OpToRel(<, Nat)
  BY NatLessThanWellFounded, WFMin
<1>2. PICK n \in T : \A m \in T : <<m, n>> \notin OpToRel(<, Nat)
  BY <1>1
<1>3. \A m \in T : ~(m < n)
  BY <1>2 DEF OpToRel
<1> QED
  BY <1>3

\* A bounded one has a greatest, which is its Max.
LEMMA MaxExists ==
  ASSUME NEW n \in Nat, NEW S \in SUBSET (1 .. n), S # {}
  PROVE  Max(S) \in S /\ \A x \in S : x <= Max(S)
<1> DEFINE T == {m \in 0 .. n : n - m \in S}
<1>1. \A x \in S : n - x \in T
  <2>1. ASSUME NEW x \in S PROVE n - x \in T
    <3>1. x \in Int /\ 0 <= n - x /\ n - x <= n /\ n - (n - x) = x
      OBVIOUS
    <3> QED
      BY <3>1
  <2> QED
    BY <2>1
<1>2. PICK m \in T : \A k \in T : m <= k
  <2>1. T \subseteq Nat
    OBVIOUS
  <2>2. T # {}
    BY <1>1
  <2> HIDE DEF T
  <2> QED
    BY <2>1, <2>2, LeastExists
<1>3. n - m \in S /\ m \in Int
  OBVIOUS
<1>4. \A x \in S : n - m >= x
  <2>1. ASSUME NEW x \in S PROVE n - m >= x
    <3>1. m <= n - x /\ x \in Int
      BY <1>1, <1>2
    <3> QED
      BY <1>3, <3>1
  <2> QED
    BY <2>1
<1>5. Max(S) \in S /\ \A x \in S : Max(S) >= x
  BY <1>3, <1>4 DEF Max
<1> QED
  BY <1>5

-----------------------------------------------------------------------------
(* What is true of the tables, as committed and as the session sees them   *)

\* Two reports on one segment and version with no other of theirs in between.
Follows(rs, i, j) ==
  /\ {i, j} \subseteq DOMAIN rs /\ i < j
  /\ rs[i].segment = rs[j].segment /\ rs[i].version = rs[j].version
  /\ \A k \in Of(rs[j].segment, rs[j].version, rs) : ~(i < k /\ k < j)

Evidence(job, rs, ls) ==
  IF job.trigger = "PERFORMANCE"
  THEN MinimumLabels <= job.labels /\ job.labels <= ls[job.version]
  ELSE /\ Follows(rs, job.previous, job.current)
       /\ rs[job.current].segment = job.segment /\ rs[job.current].version = job.version
       /\ rs[job.current].drift /\ rs[job.previous].drift

DriftJob(js, v) == \E n \in DOMAIN js : js[n].trigger = "DRIFT" /\ js[n].version = v

\* Every job has its evidence; every pair of reports in breach, not only the
\* latest, has a job of its model's; a model has one job for each trigger, but
\* for failed ones.
EvidenceIn(rs, js, ls) == \A n \in DOMAIN js : Evidence(js[n], rs, ls)

QueuedIn(rs, js) ==
  \A i, j \in DOMAIN rs : Follows(rs, i, j) /\ rs[i].drift /\ rs[j].drift => DriftJob(js, rs[j].version)

OnceIn(js) ==
  \A m, n \in DOMAIN js :
    /\ js[m].trigger = js[n].trigger /\ js[m].version = js[n].version
    /\ js[m].status # "FAILED" /\ js[n].status # "FAILED"
    => m = n

Tables(rs, js, ls) ==
  /\ rs \in Seq(Reports) /\ js \in Seq(Jobs) /\ ls \in [Versions -> Nat]
  /\ EvidenceIn(rs, js, ls) /\ QueuedIn(rs, js) /\ OnceIn(js)

\* A failed cycle leaves the committed tables, a committed one the session's.
IInv == TypeOK /\ Tables(reports, jobs, labels) /\ Tables(AllReports, AllJobs, labels)

\* A job's trigger says which fields it has.
LEMMA JobFields ==
  ASSUME NEW job \in Jobs
  PROVE  /\ job.trigger \in {"DRIFT", "PERFORMANCE"}
         /\ job.version \in Versions /\ job.status \in Statuses
         /\ job.trigger = "DRIFT" => job.segment \in Reported /\ job.current \in Nat /\ job.previous \in Nat
         /\ job.trigger = "PERFORMANCE" => job.labels \in Nat
BY DEF Jobs

\* A new status leaves the rest of a job alone.
LEMMA JobWithStatus ==
  ASSUME NEW job \in Jobs, NEW status \in Statuses
  PROVE  LET new == [job EXCEPT !.status = status]
         IN  /\ new \in Jobs /\ new.status = status
             /\ new.trigger = job.trigger /\ new.version = job.version
             /\ \A rs, ls : Evidence(new, rs, ls) <=> Evidence(job, rs, ls)
<1>1. CASE job \in [trigger : {"DRIFT"}, version : Versions, status : Statuses,
                    segment : Reported, current : Nat, previous : Nat]
  BY <1>1 DEF Jobs, Evidence
<1>2. CASE job \in [trigger : {"PERFORMANCE"}, version : Versions, status : Statuses, labels : Nat]
  BY <1>2 DEF Jobs, Evidence
<1> QED
  BY <1>1, <1>2 DEF Jobs

\* A further report parts no pair of reports that there was.
LEMMA FollowsStays ==
  ASSUME NEW rs \in Seq(Reports), NEW r \in Reports, NEW i \in DOMAIN rs, NEW j \in DOMAIN rs
  PROVE  /\ Append(rs, r)[i] = rs[i] /\ Append(rs, r)[j] = rs[j]
         /\ Follows(Append(rs, r), i, j) <=> Follows(rs, i, j)
<1> DEFINE new == Append(rs, r)
<1>1. /\ DOMAIN rs = 1 .. Len(rs) /\ DOMAIN new = 1 .. Len(rs) + 1 /\ Len(rs) \in Nat
      /\ \A k \in 1 .. Len(rs) : new[k] = rs[k]
  BY AppendProperties
<1> HIDE DEF new
<1>2. \A k \in DOMAIN new : k < j => k \in DOMAIN rs
  BY <1>1
<1>3. \A k \in DOMAIN rs : k \in Of(rs[j].segment, rs[j].version, new) <=> k \in Of(rs[j].segment, rs[j].version, rs)
  BY <1>1 DEF Of
<1> QED
  BY <1>1, <1>2, <1>3 DEF Follows, Of, new

\* The evidence stays when reports and labels are added.
LEMMA EvidenceStays ==
  ASSUME NEW rs \in Seq(Reports), NEW r \in Reports, NEW ls, NEW job \in Jobs, Evidence(job, rs, ls)
  PROVE  Evidence(job, Append(rs, r), ls)
<1>1. CASE job.trigger = "PERFORMANCE"
  BY <1>1 DEF Evidence
<1>2. CASE job.trigger # "PERFORMANCE"
  <2>1. {job.previous, job.current} \subseteq DOMAIN rs
    BY <1>2 DEF Evidence, Follows
  <2> QED
    BY <1>2, <2>1, FollowsStays DEF Evidence
<1> QED
  BY <1>1, <1>2

\* The report a new one is compared with is the one it follows.
Newest(rs, segment, v) ==
  LET s == Of(segment, v, rs) IN IF s = {} THEN {} ELSE {Max(s)}

LEMMA NewestIsFollowed ==
  ASSUME NEW rs \in Seq(Reports), NEW r \in Reports, NEW i \in DOMAIN rs
  PROVE  Follows(Append(rs, r), i, Len(rs) + 1) <=> i \in Newest(rs, r.segment, r.version)
<1> DEFINE new == Append(rs, r)
           own == Of(r.segment, r.version, rs)
           n   == Len(rs)
<1>1. /\ n \in Nat /\ DOMAIN rs = 1 .. n /\ DOMAIN new = 1 .. n + 1
      /\ \A k \in 1 .. n : new[k] = rs[k]
      /\ new[n + 1] = r
  BY AppendProperties
<1>2. own \in SUBSET (1 .. n)
  BY <1>1 DEF Of
<1>3. Of(r.segment, r.version, new) = own \cup {n + 1}
  <2> HIDE DEF new
  <2> QED
    BY <1>1 DEF Of
<1>4. own # {} => Max(own) \in own /\ \A k \in own : k <= Max(own)
  BY <1>1, <1>2, MaxExists
<1>5. i \in own <=> new[i].segment = r.segment /\ new[i].version = r.version
  BY <1>1 DEF Of
<1> HIDE DEF new, own, n
<1>6. Follows(new, i, n + 1) <=> i \in own /\ \A k \in own : ~(i < k)
  <2>1. i \in DOMAIN new /\ n + 1 \in DOMAIN new /\ i < n + 1
    BY <1>1
  <2>2. \A k \in own : k \in 1 .. n /\ k < n + 1
    BY <1>1, <1>2
  <2>3. ~(n + 1 < n + 1)
    BY <1>1
  <2>4. (\A k \in own \cup {n + 1} : ~(i < k /\ k < n + 1)) <=> \A k \in own : ~(i < k)
    BY <2>2, <2>3
  <2> QED
    BY <1>1, <1>3, <1>5, <2>1, <2>4 DEF Follows
<1>7. i \in own /\ (\A k \in own : ~(i < k)) <=> own # {} /\ i = Max(own)
  <2>1. \A k \in own : k \in Int
    BY <1>1, <1>2
  <2>2. ASSUME i \in own, \A k \in own : ~(i < k) PROVE i = Max(own)
    BY <1>4, <2>1, <2>2
  <2>3. ASSUME own # {}, i = Max(own) PROVE i \in own /\ \A k \in own : ~(i < k)
    BY <1>4, <2>1, <2>3
  <2> QED
    BY <2>2, <2>3
<1> QED
  BY <1>6, <1>7 DEF Newest, new, own, n

HasRun(js, trigger, v) ==
  \E i \in DOMAIN js : /\ js[i].trigger = trigger /\ js[i].version = v
                       /\ js[i].status \in Deduplicated

\* Without a run, a new job is its model's only one of its trigger.
LEMMA NewJobIsOnce ==
  ASSUME NEW js \in Seq(Jobs), NEW job \in Jobs, OnceIn(js), ~HasRun(js, job.trigger, job.version)
  PROVE  OnceIn(Append(js, job))
<1> DEFINE new == Append(js, job)
<1>1. /\ DOMAIN js = 1 .. Len(js) /\ DOMAIN new = 1 .. Len(js) + 1 /\ Len(js) \in Nat
      /\ \A k \in 1 .. Len(js) : new[k] = js[k]
      /\ new[Len(js) + 1] = job
  BY AppendProperties
<1>2. \A k \in DOMAIN js : js[k].status \in Statuses
  BY JobFields
<1>3. \A k \in DOMAIN js : js[k].trigger = job.trigger /\ js[k].version = job.version
                           => js[k].status = "FAILED"
  BY <1>2 DEF HasRun, Deduplicated
<1> HIDE DEF new
<1>4. \A k \in DOMAIN new : k \in DOMAIN js \/ k = Len(js) + 1
  BY <1>1
<1>5. OnceIn(new)
  BY <1>1, <1>3, <1>4 DEF OnceIn
<1> QED
  BY <1>5 DEF new

\* Jobs are only added to: those that were have their evidence, and the models
\* that had a drift job have it.
LEMMA NewJobKeeps ==
  ASSUME NEW rs \in Seq(Reports), NEW ls, NEW js \in Seq(Jobs), NEW job \in Jobs,
         EvidenceIn(rs, js, ls), Evidence(job, rs, ls)
  PROVE  /\ EvidenceIn(rs, Append(js, job), ls)
         /\ \A v : DriftJob(js, v) => DriftJob(Append(js, job), v)
         /\ job.trigger = "DRIFT" => DriftJob(Append(js, job), job.version)
<1> DEFINE new == Append(js, job)
<1>1. /\ DOMAIN js = 1 .. Len(js) /\ DOMAIN new = 1 .. Len(js) + 1 /\ Len(js) \in Nat
      /\ \A k \in 1 .. Len(js) : new[k] = js[k]
      /\ new[Len(js) + 1] = job
  BY AppendProperties
<1> HIDE DEF new
<1>2. DOMAIN js \subseteq DOMAIN new /\ Len(js) + 1 \in DOMAIN new
  BY <1>1
<1>3. \A k \in DOMAIN new : k \in DOMAIN js \/ k = Len(js) + 1
  BY <1>1
<1>4. EvidenceIn(rs, new, ls)
  BY <1>1, <1>3 DEF EvidenceIn
<1>5. \A v : DriftJob(js, v) => DriftJob(new, v)
  BY <1>1, <1>2 DEF DriftJob
<1>6. job.trigger = "DRIFT" => DriftJob(new, job.version)
  BY <1>1, <1>2 DEF DriftJob
<1> QED
  BY <1>4, <1>5, <1>6 DEF new

\* The job that a report may give rise to.
DriftJobOf(r, current, previous) ==
  [trigger |-> "DRIFT", version |-> r.version, status |-> "QUEUED",
   segment |-> r.segment, current |-> current, previous |-> previous]

\* A report and the job, if there is cause and no run yet, that goes with it.
LEMMA ReportKeeps ==
  ASSUME NEW rs, NEW js, NEW ls, Tables(rs, js, ls), NEW r \in Reports,
         NEW previous, previous = {i \in Newest(rs, r.segment, r.version) : rs[i].drift},
         NEW more,
         IF r.drift /\ previous # {} /\ ~HasRun(js, "DRIFT", r.version)
         THEN \E i \in previous : more = Append(js, DriftJobOf(r, Len(rs) + 1, i))
         ELSE more = js
  PROVE  Tables(Append(rs, r), more, ls)
<1> DEFINE new == Append(rs, r)
           n   == Len(rs)
<1>1. rs \in Seq(Reports) /\ js \in Seq(Jobs) /\ ls \in [Versions -> Nat]
  BY DEF Tables
<1>2. /\ n \in Nat /\ DOMAIN rs = 1 .. n /\ DOMAIN new = 1 .. n + 1 /\ new \in Seq(Reports)
      /\ new[n + 1] = r
  BY <1>1, AppendProperties
<1>3. EvidenceIn(new, js, ls)
  <2>1. \A k \in DOMAIN js : js[k] \in Jobs
    BY <1>1
  <2> QED
    BY <1>1, <2>1, EvidenceStays DEF Tables, EvidenceIn
<1>4. \A i \in previous : i \in DOMAIN rs /\ rs[i].drift /\ Follows(new, i, n + 1)
  <2>1. \A i \in Newest(rs, r.segment, r.version) : i \in DOMAIN rs
    <3>1. Of(r.segment, r.version, rs) \in SUBSET (1 .. n)
      BY <1>2 DEF Of
    <3> QED
      BY <1>2, <3>1, MaxExists DEF Newest
  <2> QED
    BY <1>1, <2>1, NewestIsFollowed
<1>5. \A i \in DOMAIN rs : Follows(new, i, n + 1) /\ rs[i].drift => i \in previous
  BY <1>1, NewestIsFollowed
<1> HIDE DEF new
<1>6. /\ more \in Seq(Jobs) /\ EvidenceIn(new, more, ls) /\ OnceIn(more)
      /\ \A v : DriftJob(js, v) => DriftJob(more, v)
      /\ r.drift /\ previous # {} => DriftJob(more, r.version)
  <2>1. CASE r.drift /\ previous # {} /\ ~HasRun(js, "DRIFT", r.version)
    <3>1. PICK i \in previous : more = Append(js, DriftJobOf(r, n + 1, i))
      BY <2>1
    <3> DEFINE job == DriftJobOf(r, n + 1, i)
    <3>2. i \in Nat /\ n + 1 \in Nat
      BY <1>2, <1>4
    <3>3. job \in Jobs /\ job.trigger = "DRIFT" /\ job.version = r.version
      BY <3>2 DEF DriftJobOf, Jobs, Reports, Statuses
    <3>4. Evidence(job, new, ls)
      <4>1. Follows(new, i, n + 1) /\ new[i] = rs[i] /\ rs[i].drift
        BY <1>1, <1>2, <1>4, AppendProperties DEF new
      <4> QED
        BY <1>2, <2>1, <4>1 DEF DriftJobOf, Evidence
    <3> HIDE DEF job
    <3>5. OnceIn(more)
      BY <1>1, <2>1, <3>1, <3>3, NewJobIsOnce DEF Tables, job
    <3>6. /\ EvidenceIn(new, more, ls) /\ DriftJob(more, r.version)
          /\ \A v : DriftJob(js, v) => DriftJob(more, v)
      BY <1>1, <1>2, <1>3, <3>1, <3>3, <3>4, NewJobKeeps DEF job
    <3>7. more \in Seq(Jobs)
      BY <1>1, <3>1, <3>3, AppendProperties DEF job
    <3> QED
      BY <3>5, <3>6, <3>7
  <2>2. CASE ~(r.drift /\ previous # {} /\ ~HasRun(js, "DRIFT", r.version))
    <3>1. more = js
      BY <2>2
    <3>2. HasRun(js, "DRIFT", r.version) => DriftJob(js, r.version)
      BY DEF HasRun, DriftJob
    <3> QED
      BY <1>1, <1>3, <2>2, <3>1, <3>2 DEF Tables
  <2> QED
    BY <2>1, <2>2
<1>7. QueuedIn(new, more)
  <2> SUFFICES ASSUME NEW i \in DOMAIN new, NEW j \in DOMAIN new,
                      Follows(new, i, j), new[i].drift, new[j].drift
               PROVE  DriftJob(more, new[j].version)
    BY DEF QueuedIn
  <2>1. i < j /\ i \in 1 .. n
    BY <1>2 DEF Follows
  <2>2. CASE j = n + 1
    <3>1. rs[i] = new[i]
      BY <1>1, <1>2, <2>1, AppendProperties DEF new
    <3> QED
      BY <1>2, <1>5, <1>6, <2>1, <2>2, <3>1
  <2>3. CASE j \in 1 .. n
    <3>1. new[i] = rs[i] /\ new[j] = rs[j] /\ Follows(rs, i, j)
      BY <1>1, <1>2, <2>1, <2>3, FollowsStays DEF new
    <3> QED
      BY <1>2, <1>6, <2>1, <2>3, <3>1 DEF Tables, QueuedIn
  <2> QED
    BY <1>2, <2>2, <2>3
<1> QED
  BY <1>1, <1>2, <1>6, <1>7 DEF Tables, new

\* The job that degraded performance gives rise to.
PerformanceJob(v, count) ==
  [trigger |-> "PERFORMANCE", version |-> v, status |-> "QUEUED", labels |-> count]

LEMMA DegradationKeeps ==
  ASSUME NEW rs, NEW js, NEW ls, Tables(rs, js, ls), NEW v \in Versions,
         MinimumLabels <= ls[v], ~HasRun(js, "PERFORMANCE", v)
  PROVE  Tables(rs, Append(js, PerformanceJob(v, ls[v])), ls)
<1> DEFINE job == PerformanceJob(v, ls[v])
<1>1. rs \in Seq(Reports) /\ js \in Seq(Jobs) /\ ls \in [Versions -> Nat]
  BY DEF Tables
<1>2. job \in Jobs /\ job.trigger = "PERFORMANCE" /\ job.version = v
  BY <1>1 DEF PerformanceJob, Jobs, Statuses
<1>3. Evidence(job, rs, ls)
  BY <1>1 DEF PerformanceJob, Evidence
<1> HIDE DEF job
<1>4. OnceIn(Append(js, job)) /\ Append(js, job) \in Seq(Jobs)
  BY <1>1, <1>2, NewJobIsOnce, AppendProperties DEF Tables
<1>5. EvidenceIn(rs, Append(js, job), ls) /\ \A u : DriftJob(js, u) => DriftJob(Append(js, job), u)
  BY <1>1, <1>2, <1>3, NewJobKeeps DEF Tables
<1>6. QueuedIn(rs, Append(js, job))
  BY <1>5 DEF Tables, QueuedIn
<1> QED
  BY <1>1, <1>4, <1>5, <1>6 DEF Tables, job

\* A job's progress: none leaves FAILED, so none comes to count as a second run.
LEMMA ProgressKeeps ==
  ASSUME NEW rs, NEW js, NEW ls, Tables(rs, js, ls),
         NEW i \in DOMAIN js, NEW status \in Becomes(js[i].status)
  PROVE  Tables(rs, [js EXCEPT ![i].status = status], ls)
<1> DEFINE new == [js EXCEPT ![i].status = status]
<1>1. rs \in Seq(Reports) /\ js \in Seq(Jobs) /\ ls \in [Versions -> Nat]
  BY DEF Tables
<1>2. status \in Statuses /\ js[i].status # "FAILED"
  BY DEF Becomes, Statuses
<1>3. js[i] \in Jobs
  BY <1>1
<1>4. \A n \in DOMAIN js : new[n] = IF n = i THEN [js[i] EXCEPT !.status = status] ELSE js[n]
  BY <1>1
<1>5. DOMAIN new = DOMAIN js
  OBVIOUS
<1>6. \A n \in DOMAIN js : new[n].trigger = js[n].trigger /\ new[n].version = js[n].version
  BY <1>2, <1>3, <1>4, JobWithStatus
<1>7. \A n \in DOMAIN js : new[n].status # "FAILED" => js[n].status # "FAILED"
  BY <1>2, <1>4
<1>8. \A n \in DOMAIN js : Evidence(new[n], rs, ls)
  <2>1. \A n \in DOMAIN js : Evidence(js[n], rs, ls)
    BY DEF Tables, EvidenceIn
  <2> QED
    BY <1>2, <1>3, <1>4, <2>1, JobWithStatus
<1>9. new \in Seq(Jobs)
  <2>1. [js[i] EXCEPT !.status = status] \in Jobs
    BY <1>2, <1>3, JobWithStatus
  <2> QED
    BY <1>1, <2>1, ExceptSeq
<1> HIDE DEF new
<1>10. EvidenceIn(rs, new, ls) /\ OnceIn(new)
  BY <1>5, <1>6, <1>7, <1>8 DEF Tables, EvidenceIn, OnceIn
<1>11. QueuedIn(rs, new)
  BY <1>5, <1>6 DEF Tables, QueuedIn, DriftJob
<1> QED
  BY <1>1, <1>9, <1>10, <1>11 DEF Tables, new

\* A further label takes no evidence away.
LEMMA LabelKeeps ==
  ASSUME NEW rs, NEW js, NEW ls, Tables(rs, js, ls), NEW v \in Versions
  PROVE  Tables(rs, js, [ls EXCEPT ![v] = @ + 1])
<1> DEFINE new == [ls EXCEPT ![v] = @ + 1]
<1>1. js \in Seq(Jobs) /\ ls \in [Versions -> Nat]
  BY DEF Tables
<1>2. new \in [Versions -> Nat] /\ \A u \in Versions : new[u] \in Nat /\ ls[u] \in Nat /\ ls[u] <= new[u]
  BY <1>1
<1> HIDE DEF new
<1>3. ASSUME NEW n \in DOMAIN js PROVE Evidence(js[n], rs, new)
  <2>1. Evidence(js[n], rs, ls) /\ js[n] \in Jobs
    BY <1>1 DEF Tables, EvidenceIn
  <2>2. CASE js[n].trigger = "PERFORMANCE"
    <3>1. js[n].labels \in Nat /\ js[n].version \in Versions
      BY <2>1, <2>2, JobFields
    <3>2. MinimumLabels <= js[n].labels /\ js[n].labels <= ls[js[n].version]
      BY <2>1, <2>2 DEF Evidence
    <3>3. js[n].labels <= new[js[n].version]
      BY <1>2, <3>1, <3>2
    <3> QED
      BY <2>2, <3>2, <3>3 DEF Evidence
  <2>3. CASE js[n].trigger # "PERFORMANCE"
    BY <2>1, <2>3 DEF Evidence
  <2> QED
    BY <2>2, <2>3
<1> QED
  BY <1>2, <1>3 DEF Tables, EvidenceIn, new

-----------------------------------------------------------------------------
(* The invariant                                                           *)

\* What a session adds at the end is at the end of what it sees; what changes in
\* a committed row changes in what it sees.
LEMMA SeenAppend ==
  ASSUME NEW S, NEW s \in Seq(S), NEW t \in Seq(S), NEW x \in S
  PROVE  s \o Append(t, x) = Append(s \o t, x)
<1>1. <<x>> \in Seq(S)
  OBVIOUS
<1>2. Append(t, x) = t \o <<x>> /\ Append(s \o t, x) = (s \o t) \o <<x>>
  BY AppendIsConcat, ConcatProperties
<1> QED
  BY <1>1, <1>2, ConcatAssociative

WithStatus(s, i, status) == [s EXCEPT ![i].status = status]

LEMMA SeenExcept ==
  ASSUME NEW s \in Seq(Jobs), NEW t \in Seq(Jobs), NEW i \in DOMAIN s, NEW status \in Statuses
  PROVE  WithStatus(s, i, status) \o t = WithStatus(s \o t, i, status)
<1> DEFINE new == [s EXCEPT ![i].status = status]
           seen == [s \o t EXCEPT ![i].status = status]
<1>1. s[i] \in Jobs /\ i \in 1 .. Len(s)
  OBVIOUS
<1>2. [s[i] EXCEPT !.status = status] \in Jobs
  BY <1>1, JobWithStatus
<1>3. new \in Seq(Jobs) /\ Len(new) = Len(s)
  BY <1>2, ExceptSeq
<1>4. /\ s \o t \in Seq(Jobs) /\ Len(s \o t) = Len(s) + Len(t)
      /\ \A k \in 1 .. Len(s) + Len(t) : (s \o t)[k] = IF k <= Len(s) THEN s[k] ELSE t[k - Len(s)]
  BY ConcatProperties
<1>5. (s \o t)[i] = s[i] /\ i \in DOMAIN (s \o t)
  BY <1>1, <1>4
<1>6. seen \in Seq(Jobs) /\ Len(seen) = Len(s) + Len(t)
  BY <1>2, <1>4, <1>5, ExceptSeq
<1>7. /\ new \o t \in Seq(Jobs) /\ Len(new \o t) = Len(s) + Len(t)
      /\ \A k \in 1 .. Len(s) + Len(t) : (new \o t)[k] = IF k <= Len(s) THEN new[k] ELSE t[k - Len(s)]
  BY <1>3, ConcatProperties
<1>8. ASSUME NEW k \in 1 .. Len(s) + Len(t) PROVE (new \o t)[k] = seen[k]
  <2>1. seen[k] = IF k = i THEN [s[i] EXCEPT !.status = status] ELSE (s \o t)[k]
    <3> DEFINE x == [s[i] EXCEPT !.status = status]
               st == s \o t
    <3>1. seen = [st EXCEPT ![i] = x]
      BY <1>5
    <3>2. k \in 1 .. Len(st) /\ i \in 1 .. Len(st)
      BY <1>4, <1>5
    <3>3. x \in Jobs /\ st \in Seq(Jobs)
      BY <1>2, <1>4
    <3> HIDE DEF x, st, seen
    <3>4. [st EXCEPT ![i] = x][k] = IF k = i THEN x ELSE st[k]
      BY <3>2, <3>3, ExceptSeq
    <3> QED
      BY <3>1, <3>4 DEF x, st
  <2>2. k <= Len(s) => new[k] = IF k = i THEN [s[i] EXCEPT !.status = status] ELSE s[k]
    OBVIOUS
  <2>3. k = i => k <= Len(s)
    BY <1>1
  <2> HIDE DEF new, seen
  <2> QED
    BY <1>4, <1>7, <2>1, <2>2, <2>3
<1> HIDE DEF new, seen
<1>9. new \o t = seen
  BY <1>6, <1>7, <1>8, SeqEqual
<1> QED
  BY <1>9 DEF new, seen, WithStatus

LEMMA InitIInv ==
  ASSUME Init
  PROVE  IInv
<1> USE MonitorAssumption DEF Init, Versions
<1>1. TypeOK
  BY DEF TypeOK
<1>2. AllReports = <<>> /\ AllJobs = <<>>
  BY ConcatEmptySeq DEF AllReports, AllJobs
<1>3. Tables(<<>>, <<>>, labels)
  BY DEF Tables, EvidenceIn, QueuedIn, OnceIn
<1> QED
  BY <1>1, <1>2, <1>3 DEF IInv

LEMMA ReportStep ==
  ASSUME IInv, NEW segment \in Reported, NEW over \in Shifts, Report(segment, over)
  PROVE  IInv'
<1> USE DEF Versions
<1> DEFINE r == [segment |-> segment, version |-> version, over |-> over,
                 drift |-> Breached(segment, over)]
           previous == {i \in Newest(AllReports, segment, version) : AllReports[i].drift}
           Job(i) == DriftJobOf(r, Len(AllReports) + 1, i)
<1>1. r \in Reports
  BY DEF IInv, TypeOK, Reports, Breached
<1>2. /\ reports \in Seq(Reports) /\ newReports \in Seq(Reports)
      /\ jobs \in Seq(Jobs) /\ newJobs \in Seq(Jobs)
      /\ AllReports \in Seq(Reports) /\ AllJobs \in Seq(Jobs)
  BY DEF IInv, TypeOK, Tables
<1>3. /\ newReports' = Append(newReports, r) /\ UNCHANGED <<served, labels, reports, jobs, version>>
      /\ todo' = todo \ {segment} /\ pc' = IF todo' = {} THEN "assess" ELSE "report"
  BY DEF Report, database
<1>4. AllReports' = Append(AllReports, r)
  BY <1>1, <1>2, <1>3, SeenAppend DEF AllReports
<1>5. IF r.drift /\ previous # {} /\ ~HasRun(AllJobs, "DRIFT", version)
      THEN \E i \in previous : newJobs' = Append(newJobs, Job(i))
      ELSE newJobs' = newJobs
  BY DEF Report, Previous, Newest, Episode, HasRun, DriftJobOf
<1>6. \A i \in previous : i \in Nat
  <2>1. Of(segment, version, AllReports) \in SUBSET (1 .. Len(AllReports)) /\ Len(AllReports) \in Nat
    BY <1>2 DEF Of
  <2> QED
    <3>1. Of(segment, version, AllReports) # {} => Max(Of(segment, version, AllReports)) \in Nat
      BY <2>1, MaxExists
    <3> HIDE DEF r, Job
    <3> QED
      BY <3>1 DEF Newest
<1>7. \A i \in previous : Job(i) \in Jobs
  <2>1. Len(AllReports) + 1 \in Nat
    BY <1>2
  <2> QED
    BY <1>1, <1>6, <2>1 DEF DriftJobOf, Jobs, Reports, Statuses
<1>8. \A i \in previous : newJobs' = Append(newJobs, Job(i))
                          => newJobs' \in Seq(Jobs) /\ AllJobs' = Append(AllJobs, Job(i))
  <2> HIDE DEF Job, previous
  <2> QED
    BY <1>2, <1>3, <1>7, SeenAppend, AppendProperties DEF AllJobs
<1>9. newJobs' = newJobs => AllJobs' = AllJobs
  BY <1>3 DEF AllJobs
<1>10. IF r.drift /\ previous # {} /\ ~HasRun(AllJobs, "DRIFT", version)
       THEN \E i \in previous : AllJobs' = Append(AllJobs, Job(i))
       ELSE AllJobs' = AllJobs
  BY <1>5, <1>8, <1>9
<1>11. r.segment = segment /\ r.version = version
  OBVIOUS
<1> HIDE DEF r, previous
<1>12. Tables(Append(AllReports, r), AllJobs', labels)
  BY <1>1, <1>10, <1>11, ReportKeeps DEF IInv, previous
<1>13. Tables(AllReports, AllJobs, labels)' /\ Tables(reports, jobs, labels)'
  BY <1>3, <1>4, <1>12 DEF IInv
<1>14. newReports' \in Seq(Reports) /\ newJobs' \in Seq(Jobs)
  BY <1>1, <1>2, <1>3, <1>5, <1>8, AppendProperties
<1>15. TypeOK'
  BY <1>3, <1>14 DEF IInv, TypeOK
<1> QED
  BY <1>13, <1>15 DEF IInv

LEMMA AssessDegradedStep ==
  ASSUME IInv, AssessDegraded
  PROVE  IInv'
<1> DEFINE job == PerformanceJob(version, labels[version])
<1>1. /\ reports \in Seq(Reports) /\ jobs \in Seq(Jobs) /\ newJobs \in Seq(Jobs)
      /\ version \in Versions /\ labels \in [Versions -> Nat] /\ MinimumLabels <= labels[version]
  BY MonitorAssumption DEF IInv, TypeOK, Tables, AssessDegraded
<1>2. /\ UNCHANGED <<served, labels, reports, jobs, version, todo, newReports>>
      /\ pc' = "commit"
  BY DEF AssessDegraded, database
<1>3. job \in Jobs
  BY <1>1 DEF PerformanceJob, Jobs, Statuses
<1>4. IF HasRun(AllJobs, "PERFORMANCE", version)
      THEN newJobs' = newJobs ELSE newJobs' = Append(newJobs, job)
  BY DEF AssessDegraded, Episode, HasRun, PerformanceJob
<1> HIDE DEF job
<1>5. newJobs' \in Seq(Jobs)
  <2>1. Append(newJobs, job) \in Seq(Jobs)
    BY <1>1, <1>3, AppendProperties
  <2> QED
    BY <1>1, <1>4, <2>1
<1>6. IF HasRun(AllJobs, "PERFORMANCE", version)
      THEN AllJobs' = AllJobs ELSE AllJobs' = Append(AllJobs, job)
  <2>1. jobs \o Append(newJobs, job) = Append(jobs \o newJobs, job)
    BY <1>1, <1>3, SeenAppend
  <2> QED
    BY <1>2, <1>4, <2>1 DEF AllJobs
<1>7. Tables(AllReports, AllJobs', labels)
  BY <1>1, <1>6, DegradationKeeps DEF IInv, job
<1>8. AllReports' = AllReports
  BY <1>2 DEF AllReports
<1>9. TypeOK'
  BY <1>2, <1>5 DEF IInv, TypeOK
<1> QED
  BY <1>2, <1>7, <1>8, <1>9 DEF IInv

LEMMA EndStep ==
  ASSUME IInv, EndCycle, UNCHANGED <<served, labels, version>>,
         \/ reports' = reports /\ jobs' = jobs
         \/ reports' = AllReports /\ jobs' = AllJobs
  PROVE  IInv'
<1>1. newReports' = <<>> /\ newJobs' = <<>> /\ pc' = "idle" /\ todo' = {}
  BY DEF EndCycle
<1>2. Tables(reports', jobs', labels')
  BY DEF IInv
<1>3. reports' \in Seq(Reports) /\ jobs' \in Seq(Jobs)
  BY <1>2 DEF Tables
<1>4. AllReports' = reports' /\ AllJobs' = jobs'
  BY <1>1, <1>3, ConcatEmptySeq DEF AllReports, AllJobs
<1>5. TypeOK'
  BY <1>1, <1>3 DEF IInv, TypeOK
<1> QED
  BY <1>2, <1>4, <1>5 DEF IInv

LEMMA ProgressStep ==
  ASSUME IInv, NEW i \in DOMAIN jobs, NEW status \in Becomes(jobs[i].status), Progress(i, status)
  PROVE  IInv'
<1>1. jobs \in Seq(Jobs) /\ newJobs \in Seq(Jobs) /\ status \in Statuses
  BY DEF IInv, TypeOK, Becomes, Statuses
<1>2. jobs' = [jobs EXCEPT ![i].status = status]
  BY DEF Progress
<1>3. UNCHANGED <<served, labels, reports, cycle>>
  BY DEF Progress
<1>4. AllJobs' = [AllJobs EXCEPT ![i].status = status]
  <2>1. WithStatus(jobs, i, status) \o newJobs = WithStatus(jobs \o newJobs, i, status)
    BY <1>1, SeenExcept
  <2>2. jobs' = WithStatus(jobs, i, status) /\ newJobs' = newJobs
    BY <1>2, <1>3 DEF WithStatus, cycle
  <2> QED
    BY <2>1, <2>2 DEF AllJobs, WithStatus
<1>5. Tables(reports, jobs', labels)
  BY <1>2, ProgressKeeps DEF IInv
<1>6. i \in DOMAIN AllJobs /\ AllJobs[i] = jobs[i]
  BY <1>1, ConcatProperties DEF AllJobs
<1>7. Tables(AllReports, AllJobs', labels)
  BY <1>4, <1>6, ProgressKeeps DEF IInv
<1>8. AllReports' = AllReports
  BY <1>3 DEF AllReports, cycle
<1>9. TypeOK'
  BY <1>3, <1>5 DEF IInv, TypeOK, Tables, cycle
<1> QED
  BY <1>3, <1>5, <1>7, <1>8, <1>9 DEF IInv, cycle

LEMMA ConfirmStep ==
  ASSUME IInv, NEW v \in Versions, Confirm(v)
  PROVE  IInv'
<1>1. labels' = [labels EXCEPT ![v] = @ + 1] /\ UNCHANGED <<served, database, cycle>>
  BY DEF Confirm
<1>2. AllReports' = AllReports /\ AllJobs' = AllJobs
  BY <1>1 DEF AllReports, AllJobs, database, cycle
<1>3. Tables(reports, jobs, labels') /\ Tables(AllReports, AllJobs, labels')
  BY <1>1, LabelKeeps DEF IInv
<1>4. TypeOK'
  <2>1. labels[v] < MaxLabels /\ labels \in [Versions -> 0 .. MaxLabels]
    BY DEF IInv, TypeOK, Confirm
  <2>2. labels' \in [Versions -> 0 .. MaxLabels]
    BY <1>1, <2>1, MonitorAssumption
  <2> QED
    BY <1>1, <2>2 DEF IInv, TypeOK, database, cycle
<1> QED
  BY <1>1, <1>2, <1>3, <1>4 DEF IInv, database

LEMMA NextIInv ==
  ASSUME IInv, [Next]_vars
  PROVE  IInv'
<1>1. ASSUME StartCycle PROVE IInv'
  <2>1. /\ UNCHANGED <<served, labels, reports, jobs, newReports, newJobs>>
        /\ pc' = "report" /\ version' = served /\ todo' \subseteq Reported
    BY <1>1 DEF StartCycle, database, Reported
  <2>2. AllReports' = AllReports /\ AllJobs' = AllJobs
    BY <2>1 DEF AllReports, AllJobs
  <2> QED
    BY <2>1, <2>2 DEF IInv, TypeOK
<1>2. ASSUME NEW segment \in Reported, NEW over \in Shifts, Report(segment, over) PROVE IInv'
  BY <1>2, ReportStep
<1>3. ASSUME AssessWell PROVE IInv'
  <2>1. UNCHANGED <<served, labels, reports, jobs, version, todo, newReports, newJobs>> /\ pc' = "commit"
    BY <1>3 DEF AssessWell, database
  <2>2. AllReports' = AllReports /\ AllJobs' = AllJobs
    BY <2>1 DEF AllReports, AllJobs
  <2> QED
    BY <2>1, <2>2 DEF IInv, TypeOK
<1>4. ASSUME AssessDegraded PROVE IInv'
  BY <1>4, AssessDegradedStep
<1>5. ASSUME CommitCycle PROVE IInv'
  BY <1>5, EndStep DEF CommitCycle
<1>6. ASSUME FailCycle PROVE IInv'
  BY <1>6, EndStep DEF FailCycle, database
<1>7. ASSUME NEW v \in Versions, Confirm(v) PROVE IInv'
  BY <1>7, ConfirmStep
<1>8. ASSUME NEW i \in DOMAIN jobs, NEW status \in Becomes(jobs[i].status), Progress(i, status)
      PROVE  IInv'
  BY <1>8, ProgressStep
<1>9. ASSUME Deploy PROVE IInv'
  <2>1. UNCHANGED <<labels, reports, jobs, pc, version, todo, newReports, newJobs>>
    BY <1>9 DEF Deploy, database, cycle
  <2>2. AllReports' = AllReports /\ AllJobs' = AllJobs
    BY <2>1 DEF AllReports, AllJobs
  <2>3. served' \in Versions
    BY <1>9, MonitorAssumption DEF Deploy, IInv, TypeOK, Versions
  <2> QED
    BY <2>1, <2>2, <2>3 DEF IInv, TypeOK
<1>10. ASSUME UNCHANGED vars PROVE IInv'
  <2>1. UNCHANGED <<served, labels, reports, jobs, pc, version, todo, newReports, newJobs>>
    BY <1>10 DEF vars, database, cycle
  <2>2. AllReports' = AllReports /\ AllJobs' = AllJobs
    BY <2>1 DEF AllReports, AllJobs
  <2> QED
    BY <2>1, <2>2 DEF IInv, TypeOK
<1> QED
  BY <1>1, <1>2, <1>3, <1>4, <1>5, <1>6, <1>7, <1>8, <1>9, <1>10 DEF Next

THEOREM Invariance == Spec => []IInv
<1>1. Init => IInv
  BY InitIInv
<1>2. IInv /\ [Next]_vars => IInv'
  BY NextIInv
<1> QED
  BY <1>1, <1>2, PTL DEF Spec

-----------------------------------------------------------------------------
(* What the drift monitor promises                                         *)

\* Every variable stays in its type: jobs have the statuses of the model, and the
\* fields their trigger calls for.
THEOREM TypeCorrect == Spec => []TypeOK
<1>1. IInv => TypeOK
  BY DEF IInv
<1> QED
  BY <1>1, Invariance, PTL

\* Every job rests on evidence that is stored with it: two consecutive reports in
\* breach, or enough labels, of the model it is to replace, whichever cycles have
\* failed.
THEOREM JobsHaveEvidence == Spec => []JobHasEvidence
<1>1. ASSUME IInv PROVE JobHasEvidence
  <2> SUFFICES ASSUME NEW n \in DOMAIN jobs,
                      jobs[n].trigger # "PERFORMANCE"
               PROVE  LET job == jobs[n]
                          own == Of(job.segment, job.version, reports)
                      IN  /\ {job.current, job.previous} \subseteq own
                          /\ job.previous < job.current
                          /\ reports[job.current].drift /\ reports[job.previous].drift
                          /\ \A i \in own : ~(job.previous < i /\ i < job.current)
    BY <1>1 DEF JobHasEvidence, IInv, Tables, EvidenceIn, Evidence
  <2>1. Evidence(jobs[n], reports, labels)
    BY <1>1 DEF IInv, Tables, EvidenceIn
  <2> QED
    BY <2>1 DEF Evidence, Follows, Of
<1> QED
  BY <1>1, Invariance, PTL

\* Two breaches in a row leave a job of that model behind.
THEOREM SustainedDriftQueues == Spec => []SustainedDriftIsQueued
<1>1. ASSUME IInv PROVE SustainedDriftIsQueued
  <2> SUFFICES ASSUME NEW segment \in Reported, NEW v \in Versions,
                      Cardinality(Of(segment, v, reports)) > 1,
                      reports[Max(Of(segment, v, reports))].drift,
                      reports[Max(Of(segment, v, reports) \ {Max(Of(segment, v, reports))})].drift
               PROVE  DriftJob(jobs, v)
    BY DEF SustainedDriftIsQueued, DriftJob
  <2> DEFINE own  == Of(segment, v, reports)
             last == Max(own)
             prev == Max(own \ {last})
  <2>1. own \in SUBSET (1 .. Len(reports)) /\ Len(reports) \in Nat
    BY <1>1 DEF IInv, TypeOK, Of
  <2>2. own # {}
    BY FS_EmptySet
  <2>3. own \ {last} # {}
    <3>1. own # {last}
      BY FS_Singleton
    <3> QED
      BY <2>2, <3>1
  <2>4. last \in own /\ \A x \in own : x <= last
    BY <2>1, <2>2, MaxExists
  <2>5. prev \in own \ {last} /\ \A x \in own \ {last} : x <= prev
    <3>1. own \ {last} \in SUBSET (1 .. Len(reports))
      BY <2>1
    <3> QED
      BY <2>1, <2>3, <3>1, MaxExists
  <2>6. \A x \in own : /\ x \in DOMAIN reports /\ x \in Int
                       /\ reports[x].segment = segment /\ reports[x].version = v
    BY <2>1 DEF Of
  <2> HIDE DEF own, last, prev
  <2>7. prev < last /\ \A x \in own : ~(prev < x /\ x < last)
    BY <2>4, <2>5, <2>6
  <2>8. Follows(reports, prev, last)
    BY <2>4, <2>5, <2>6, <2>7 DEF Follows, own
  <2>9. reports[last].drift /\ reports[prev].drift
    BY DEF own, last, prev
  <2> QED
    BY <1>1, <2>4, <2>5, <2>6, <2>8, <2>9 DEF IInv, Tables, QueuedIn
<1> QED
  BY <1>1, Invariance, PTL

\* A model has at most one job of each trigger, not counting the failed ones.
THEOREM OneJob == Spec => []OneJobPerEpisode
<1>1. IInv => OneJobPerEpisode
  BY DEF IInv, Tables, OnceIn, OneJobPerEpisode
<1> QED
  BY <1>1, Invariance, PTL
=============================================================================
