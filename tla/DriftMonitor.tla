----------------------------- MODULE DriftMonitor -----------------------------
(***************************************************************************)
(* The drift monitor: every five minutes it reports on the transactions of *)
(* the last day, for all of them and for each segment that is large        *)
(* enough, compares each report with the segment's previous one, assesses  *)
(* the labelled predictions, and queues retraining jobs, all in one        *)
(* database transaction.  Meanwhile labels arrive, workers train the jobs  *)
(* and an operator replaces the artifact.                                  *)
(*                                                                         *)
(* The statistics are left out: what a window looks like is the set of     *)
(* metrics that are beyond their thresholds (PSI 0.20, Jensen-Shannon      *)
(* 0.10), any of Shifts.                                                   *)
(***************************************************************************)
EXTENDS Integers, Sequences, FiniteSets, FiniteSetsExt

CONSTANTS
  Segments,       \* values of country, merchant category and channel
  Shifts,         \* sets of metrics that may be beyond their thresholds
  MinimumLabels,  \* labelled predictions that are enough to assess a model
  MaxLabels, MaxVersion, MaxReports  \* bounds on the state space

ASSUME MonitorAssumption ==
  /\ MinimumLabels \in Nat /\ MaxLabels \in Nat
  /\ MaxVersion \in Nat \ {0} /\ MaxReports \in Nat
  /\ "all" \notin Segments

VARIABLES
  \* the rest of the system
  served,   \* version of the artifact at MODEL_PATH
  labels,   \* labelled predictions of each version
  \* database
  reports,  \* drift_reports, by window_end
  jobs,     \* retraining_jobs, in the order of their creation
  \* the monitor's transaction
  pc, version, todo,
  newReports, newJobs

database == <<reports, jobs>>
cycle    == <<pc, version, todo, newReports, newJobs>>
vars     == <<served, labels, database, cycle>>

Versions == 1 .. MaxVersion
Reported == {"all"} \cup Segments

\* The metrics of a report, in the order in which they are looked at.
MetricsOf(segment) ==
  IF segment = "all"
  THEN <<"amount", "fraud_probability", "country_js", "velocity",
         "merchant_category_js", "channel_js">>
  ELSE <<"amount", "fraud_probability">>

Distances == {"country_js", "merchant_category_js", "channel_js"}

ASSUME ShiftsAssumption == Shifts \subseteq SUBSET {MetricsOf("all")[i] : i \in 1 .. 6}

Reports == [segment : Reported, version : Versions, over : SUBSET UNION Shifts,
            drift : BOOLEAN]

Statuses == {"QUEUED", "RUNNING", "COMPLETED", "FAILED", "PROMOTED"}

\* A job and what triggered it: two reports, or a number of labels.
Jobs == [trigger : {"DRIFT"}, version : Versions, status : Statuses,
         segment : Reported, current : Nat, previous : Nat]
          \cup [trigger : {"PERFORMANCE"}, version : Versions, status : Statuses,
                labels : Nat]

TypeOK ==
  /\ served \in Versions
  /\ labels \in [Versions -> 0 .. MaxLabels]
  /\ reports \in Seq(Reports) /\ newReports \in Seq(Reports)
  /\ jobs \in Seq(Jobs) /\ newJobs \in Seq(Jobs)
  /\ pc \in {"idle", "report", "assess", "commit"}
  /\ version \in Versions
  /\ todo \subseteq Reported

Init ==
  /\ served = 1
  /\ labels = [v \in Versions |-> 0]
  /\ reports = <<>> /\ jobs = <<>>
  /\ pc = "idle" /\ version = 1 /\ todo = {}
  /\ newReports = <<>> /\ newJobs = <<>>

-----------------------------------------------------------------------------
(* One cycle                                                               *)

\* The metrics are looked at up to the first distance, whose comparison is the
\* answer (the function returns it); before that, a large PSI is.
Decisive(ms) == Min({i \in DOMAIN ms : ms[i] \in Distances} \cup {Len(ms)})

Breached(segment, over) ==
  LET ms == MetricsOf(segment)
  IN  \E i \in 1 .. Decisive(ms) : ms[i] \in over

\* What the session sees of the tables.
AllReports == reports \o newReports
AllJobs    == jobs \o newJobs

Of(segment, v, rs) == {i \in DOMAIN rs : rs[i].segment = segment /\ rs[i].version = v}

\* Mutant of Previous: the newest report of any segment.
PreviousOfAny(segment, v) ==
  LET s == {i \in DOMAIN AllReports : AllReports[i].version = v}
  IN  IF s = {} THEN {} ELSE {Max(s)}

\* The newest report of the segment and version, if there is one.
Previous(segment, v) ==
  LET s == Of(segment, v, AllReports) IN IF s = {} THEN {} ELSE {Max(s)}

\* Mutant of Deduplicated: a job that has ended opens a new episode.
DeduplicatedActive == {"QUEUED", "RUNNING"}

\* Automatic triggers fire once per champion, unless the job failed.
Deduplicated == Statuses \ {"FAILED"}

Episode(trigger, v) ==
  \E i \in DOMAIN AllJobs : /\ AllJobs[i].trigger = trigger /\ AllJobs[i].version = v
                            /\ AllJobs[i].status \in Deduplicated

\* The rows are selected; the report of a segment needs thirty of them, any
\* report a hundred.
StartCycle ==
  /\ pc = "idle" /\ Len(reports) < MaxReports
  /\ \E large \in SUBSET Segments : todo' = {"all"} \cup large
  /\ pc' = "report" /\ version' = served
  /\ UNCHANGED <<served, labels, database, newReports, newJobs>>

\* One report: it is flushed, and if it and the previous one are in breach a
\* job is queued, unless the champion's episode has one.
Report(segment, over) ==
  LET drift    == Breached(segment, over)
      previous == {i \in Previous(segment, version) : AllReports[i].drift}
      Job(i)   == [trigger |-> "DRIFT", version |-> version, status |-> "QUEUED",
                   segment |-> segment, current |-> Len(AllReports) + 1, previous |-> i]
  IN  /\ pc = "report" /\ segment \in todo
      /\ todo' = todo \ {segment}
      /\ pc' = IF todo' = {} THEN "assess" ELSE "report"
      /\ newReports' = Append(newReports, [segment |-> segment, version |-> version,
                                           over |-> over, drift |-> drift])
      /\ IF drift /\ previous # {} /\ ~Episode("DRIFT", version)
         THEN \E i \in previous : newJobs' = Append(newJobs, Job(i))
         ELSE UNCHANGED newJobs
      /\ UNCHANGED <<served, labels, database, version>>

\* Too few labels, or a performance within bounds.
AssessWell ==
  /\ pc = "assess" /\ pc' = "commit"
  /\ UNCHANGED <<served, labels, database, version, todo, newReports, newJobs>>

\* PR-AUC dropped by a tenth, or the expected cost rose by 15 percent.
AssessDegraded ==
  LET job == [trigger |-> "PERFORMANCE", version |-> version, status |-> "QUEUED",
              labels |-> labels[version]]
  IN  /\ pc = "assess" /\ labels[version] >= MinimumLabels
      /\ newJobs' = IF Episode("PERFORMANCE", version) THEN newJobs ELSE Append(newJobs, job)
      /\ pc' = "commit"
      /\ UNCHANGED <<served, labels, database, version, todo, newReports>>

EndCycle == pc' = "idle" /\ todo' = {} /\ newReports' = <<>> /\ newJobs' = <<>>

CommitCycle ==
  /\ pc = "commit"
  /\ reports' = AllReports /\ jobs' = AllJobs
  /\ EndCycle
  /\ UNCHANGED <<served, labels, version>>

\* Mutant of FailCycle: the jobs were queued in transactions of their own.
FailCycleKeepsJobs ==
  /\ pc # "idle"
  /\ jobs' = AllJobs
  /\ EndCycle
  /\ UNCHANGED <<served, labels, reports, version>>

\* Anything raises, the champion's report cannot be read, the process dies: the
\* reports go with the jobs.
FailCycle ==
  /\ pc # "idle"
  /\ EndCycle
  /\ UNCHANGED <<served, labels, database, version>>

-----------------------------------------------------------------------------
(* The rest of the system                                                  *)

Confirm(v) ==
  /\ v <= served /\ labels[v] < MaxLabels
  /\ labels' = [labels EXCEPT ![v] = @ + 1]
  /\ UNCHANGED <<served, database, cycle>>

\* Mutant of Becomes: recovery gives the job a status of its own.
BecomesInterrupted(from) ==
  CASE from = "QUEUED" -> {"RUNNING"}
    [] from = "RUNNING" -> {"INTERRUPTED", "COMPLETED", "FAILED"}
    [] from = "COMPLETED" -> {"PROMOTED"}
    [] OTHER -> {}

\* What a worker and an administrator make of a job.
Becomes(from) ==
  CASE from = "QUEUED" -> {"RUNNING"}
    [] from = "RUNNING" -> {"QUEUED", "COMPLETED", "FAILED"}
    [] from = "COMPLETED" -> {"PROMOTED"}
    [] OTHER -> {}

Progress(i, status) ==
  /\ jobs' = [jobs EXCEPT ![i].status = status]
  /\ UNCHANGED <<served, labels, reports, cycle>>

\* The operator replaces the artifact.
Deploy ==
  /\ served < MaxVersion
  /\ served' = served + 1
  /\ UNCHANGED <<labels, database, cycle>>

Next ==
  \/ StartCycle
  \/ \E segment \in Reported, over \in Shifts :
       (segment # "all" => over \subseteq {"amount", "fraud_probability"})
         /\ Report(segment, over)
  \/ AssessWell \/ AssessDegraded \/ CommitCycle \/ FailCycle
  \/ \E v \in Versions : Confirm(v)
  \/ \E i \in DOMAIN jobs : \E status \in Becomes(jobs[i].status) : Progress(i, status)
  \/ Deploy

Spec == Init /\ [][Next]_vars

-----------------------------------------------------------------------------
(* Properties                                                              *)

\* README.md:74, "Two-window segment drift and 200-label delayed-performance
\* triggers": every drift job names two stored reports of one segment of the
\* model it is to replace, both in breach, with no other report of that segment
\* between them, and every performance job rests on enough labels of that model,
\* whatever cycle was rolled back.
JobHasEvidence ==
  \A n \in DOMAIN jobs :
    LET job == jobs[n] IN
    IF job.trigger = "PERFORMANCE"
    THEN MinimumLabels <= job.labels /\ job.labels <= labels[job.version]
    ELSE LET own == Of(job.segment, job.version, reports) IN
         /\ {job.current, job.previous} \subseteq own
         /\ job.previous < job.current
         /\ reports[job.current].drift /\ reports[job.previous].drift
         /\ \A i \in own : ~(job.previous < i /\ i < job.current)

\* The other way round: if a segment's two latest reports on a model are both in
\* breach, then the model has a drift job, and still has one if some cycle since
\* has failed.
SustainedDriftIsQueued ==
  \A segment \in Reported, v \in Versions :
    LET own  == Of(segment, v, reports)
        last == Max(own)
    IN  /\ Cardinality(own) > 1
        /\ reports[last].drift /\ reports[Max(own \ {last})].drift
        => \E n \in DOMAIN jobs : jobs[n].trigger = "DRIFT" /\ jobs[n].version = v

\* README.md:75, "idempotent retraining jobs" (lifecycle.py:37-41): an episode of
\* one champion and one trigger starts at most one run that does not fail, through
\* restarts of the job, its completion and its promotion.
OneJobPerEpisode ==
  \A m, n \in DOMAIN jobs :
    /\ jobs[m].trigger = jobs[n].trigger /\ jobs[m].version = jobs[n].version
    /\ jobs[m].status # "FAILED" /\ jobs[n].status # "FAILED"
    => m = n

\* test_retraining.py:148, "drift policy uses psi and js thresholds": a report is
\* in breach when any of its metrics is beyond its threshold.
BreachIsNoticed ==
  \A i \in DOMAIN reports : reports[i].over # {} => reports[i].drift
=============================================================================
