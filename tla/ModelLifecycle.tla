--------------------------- MODULE ModelLifecycle ---------------------------
(***************************************************************************)
(* The life of a challenger model: the drift monitor and the API queue     *)
(* retraining jobs, workers claim and train them, and an administrator     *)
(* promotes a challenger that passed its gates.  A promotion changes two   *)
(* stores that share no transaction: the champion alias of the model       *)
(* registry and the database.                                              *)
(*                                                                         *)
(* One action is one database transaction, one registry call or one read   *)
(* that a later write depends on.  Jobs are numbered as they are created,  *)
(* versions as the registry numbers them.                                  *)
(***************************************************************************)
EXTENDS Integers, FiniteSets

CONSTANTS
  MaxJobs,    \* bound on the jobs that are created
  Workers,    \* retraining workers
  Promoters,  \* API sessions that promote
  Requesters, \* API sessions that request a retraining
  Monitor,    \* the drift monitor, which queues as well
  MaxVersion, \* bound on the versions that training registers
  Faults,     \* the kinds of fault that occur
  MaxFaults,  \* and how many of them
  None        \* NULL

Jobs       == 1 .. MaxJobs
Versions   == 1 .. MaxVersion
Base       == 0   \* the version the system started with
Models     == Versions \cup {Base}
Automatic  == {"DRIFT", "PERFORMANCE"}
Types      == Automatic \cup {"MANUAL"}
Statuses   == {"QUEUED", "RUNNING", "COMPLETED", "FAILED", "PROMOTED"}
Stages     == {"challenger", "champion", "archived"}
FaultKinds == {"worker_crash", "db_commit", "complete_answer_lost", "failure_commit",
               "promote_commit", "api_crash", "alias_answer_lost"}

JobRows == [type : Types, champion : Models, status : Statuses,
            version : Versions \cup {None}, recommended : BOOLEAN]
Audits  == [previous : Models, promoted : Versions]

ASSUME LifecycleAssumption ==
  /\ Monitor \notin Requesters
  /\ MaxJobs \in Nat /\ MaxVersion \in Nat
  /\ Faults \subseteq FaultKinds
  /\ MaxFaults \in Nat
  /\ None \notin Jobs \cup Models \cup JobRows \cup Audits \cup Types \cup Stages

VARIABLES
  \* database
  jobs,      \* job -> its row, or None
  stages,    \* version -> the stage of its model_versions row, or None
  audits,    \* job -> its model_promotions row, or None
  \* registry and deployment
  registry,  \* the last version registered
  alias,     \* the champion alias
  served,    \* version of the artifact at MODEL_PATH
  loaded,    \* API session -> the version its process loaded when it started
  \* processes: where each one is and what it has read
  requester, worker, promoter,
  faults     \* faults so far

database == <<jobs, stages, audits>>
models   == <<registry, alias, served, loaded>>
vars     == <<database, models, requester, worker, promoter, faults>>

RSessions   == Requesters \cup {Monitor}
RequesterSt == [pc : {"idle", "insert"}, type : Types \cup {None},
                champion : Models \cup {None}]
WorkerSt    == [pc : {"down", "requeue", "claim", "train", "finish", "fail"},
                job : Jobs \cup {None}, version : Versions \cup {None}, found : SUBSET Jobs]
PromoterSt  == [pc : {"idle", "read_alias", "set_alias", "query", "commit", "undo"},
                job : Jobs \cup {None}, version : Versions \cup {None},
                previous : Models \cup {None}, champions : SUBSET Versions]

NoRequest   == [pc |-> "idle", type |-> None, champion |-> None]
Down        == [pc |-> "down", job |-> None, version |-> None, found |-> {}]
Ready       == [Down EXCEPT !.pc = "claim"]
NoPromotion == [pc |-> "idle", job |-> None, version |-> None,
                previous |-> None, champions |-> {}]

TypeOK ==
  /\ jobs \in [Jobs -> JobRows \cup {None}]
  /\ stages \in [Versions -> Stages \cup {None}]
  /\ audits \in [Jobs -> Audits \cup {None}]
  /\ registry \in Models /\ alias \in Models /\ served \in Models
  /\ loaded \in [Requesters -> Models]
  /\ requester \in [RSessions -> RequesterSt]
  /\ worker \in [Workers -> WorkerSt]
  /\ promoter \in [Promoters -> PromoterSt]
  /\ faults \in 0 .. MaxFaults

Init ==
  /\ jobs = [j \in Jobs |-> None]
  /\ stages = [v \in Versions |-> None]
  /\ audits = [j \in Jobs |-> None]
  /\ registry = Base /\ alias = Base /\ served = Base
  /\ loaded = [r \in Requesters |-> Base]
  /\ requester = [r \in RSessions |-> NoRequest]
  /\ worker = [w \in Workers |-> Down]
  /\ promoter = [p \in Promoters |-> NoPromotion]
  /\ faults = 0

Fault(kind) == kind \in Faults /\ faults < MaxFaults /\ faults' = faults + 1

\* The jobs with a row, and those in one of the given statuses.
Rows           == {j \in Jobs : jobs[j] # None}
InStatus(some) == {j \in Rows : jobs[j].status \in some}

-----------------------------------------------------------------------------
(* Queueing a job (queue_retraining_job)                                   *)

\* Mutant of Deduplicated: a finished run does not count for any trigger.
DeduplicatedActive(type) == {"QUEUED", "RUNNING"}

\* The statuses in which a job stands for further triggers of its kind.
Deduplicated(type) ==
  {"QUEUED", "RUNNING"} \cup (IF type \in Automatic THEN {"COMPLETED", "PROMOTED"} ELSE {})

Active(type, champion) ==
  {j \in InStatus(Deduplicated(type)) : jobs[j].type = type /\ jobs[j].champion = champion}

TypesOf(r) == IF r = Monitor THEN Automatic ELSE {"MANUAL"}

\* The monitor reads the artifact in every cycle, the API at its start.
Champion(r) == IF r = Monitor THEN served ELSE loaded[r]

\* The SELECT finds nothing.  If it finds a job, the request is answered with
\* that and changes nothing.
SelectActive(r, type) ==
  /\ requester[r].pc = "idle" /\ type \in TypesOf(r)
  /\ Active(type, Champion(r)) = {}
  /\ requester' = [requester EXCEPT ![r] =
                     [pc |-> "insert", type |-> type, champion |-> Champion(r)]]
  /\ UNCHANGED <<database, models, worker, promoter, faults>>

InsertJob(r, j) ==
  /\ requester[r].pc = "insert" /\ Rows = 1 .. j - 1
  /\ jobs' = [jobs EXCEPT ![j] =
       [type |-> requester[r].type, champion |-> requester[r].champion,
        status |-> "QUEUED", version |-> None, recommended |-> FALSE]]
  /\ requester' = [requester EXCEPT ![r] = NoRequest]
  /\ UNCHANGED <<stages, audits, models, worker, promoter, faults>>

\* The rest of the monitor's report fails, or the connection does.
RequestRollsBack(r) ==
  /\ requester[r].pc = "insert"
  /\ requester' = [requester EXCEPT ![r] = NoRequest]
  /\ UNCHANGED <<database, models, worker, promoter, faults>>

\* An API process is started again, between two requests.
ApiRestarts(r) ==
  /\ r \in Requesters /\ requester[r].pc = "idle" /\ loaded[r] # served
  /\ loaded' = [loaded EXCEPT ![r] = served]
  /\ UNCHANGED <<database, registry, alias, served, requester, worker, promoter, faults>>

-----------------------------------------------------------------------------
(* A worker                                                                *)

SetStatus(j, status) == jobs' = [jobs EXCEPT ![j].status = status]
SetWorker(w, state)  == worker' = [worker EXCEPT ![w] = state]

\* Mutant of Start: every job is taken for an interrupted one.
StartUnfiltered(w) ==
  /\ worker[w].pc = "down"
  /\ SetWorker(w, [Down EXCEPT !.pc = "requeue", !.found = Rows])
  /\ UNCHANGED <<database, models, requester, promoter, faults>>

\* A starting worker takes every RUNNING job for an interrupted one.
Start(w) ==
  /\ worker[w].pc = "down"
  /\ SetWorker(w, [Down EXCEPT !.pc = "requeue", !.found = InStatus({"RUNNING"})])
  /\ UNCHANGED <<database, models, requester, promoter, faults>>

\* Mutant of Requeue: interrupted jobs are left as they are.
RequeueNothing(w) ==
  /\ worker[w].pc = "requeue"
  /\ SetWorker(w, Ready)
  /\ UNCHANGED <<database, models, requester, promoter, faults>>

Requeue(w) ==
  /\ worker[w].pc = "requeue"
  /\ jobs' = [j \in Jobs |-> IF j \in worker[w].found
                             THEN [jobs[j] EXCEPT !.status = "QUEUED"] ELSE jobs[j]]
  /\ SetWorker(w, Ready)
  /\ UNCHANGED <<stages, audits, models, requester, promoter, faults>>

\* The oldest queued job; FOR UPDATE: no two workers claim one job.
Claim(w, j) ==
  /\ worker[w].pc = "claim"
  /\ j \in InStatus({"QUEUED"})
  /\ \A i \in InStatus({"QUEUED"}) : j <= i
  /\ SetStatus(j, "RUNNING")
  /\ SetWorker(w, [Ready EXCEPT !.pc = "train", !.job = j])
  /\ UNCHANGED <<stages, audits, models, requester, promoter, faults>>

\* Mutant of Train: the trained model becomes the champion at once.
TrainPromotes(w, v) ==
  /\ worker[w].pc = "train" /\ v = registry + 1
  /\ registry' = v
  /\ alias' = v
  /\ SetWorker(w, [worker[w] EXCEPT !.pc = "finish", !.version = v])
  /\ UNCHANGED <<database, served, loaded, requester, promoter, faults>>

\* Training registers the challenger at its end.
Train(w, v) ==
  /\ worker[w].pc = "train" /\ v = registry + 1
  /\ registry' = v
  /\ SetWorker(w, [worker[w] EXCEPT !.pc = "finish", !.version = v])
  /\ UNCHANGED <<database, alias, served, loaded, requester, promoter, faults>>

\* No data, no registry, or any other exception before there is a version.
TrainFails(w) ==
  /\ worker[w].pc = "train"
  /\ SetWorker(w, [worker[w] EXCEPT !.pc = "fail"])
  /\ UNCHANGED <<database, models, requester, promoter, faults>>

\* The job and the model_versions row of its challenger, in one commit.  The
\* gates compare two reports: whether they pass is left open.
StoreChallenger(w, passed) ==
  LET v == worker[w].version
  IN  /\ jobs' = [jobs EXCEPT ![worker[w].job] =
           [@ EXCEPT !.status = "COMPLETED", !.version = v, !.recommended = passed]]
      /\ stages' = [stages EXCEPT ![v] = "challenger"]

Complete(w, passed) ==
  /\ worker[w].pc = "finish"
  /\ StoreChallenger(w, passed)
  /\ SetWorker(w, Ready)
  /\ UNCHANGED <<audits, models, requester, promoter, faults>>

\* The database has committed, but the commit raises: the handler takes the
\* job for a failed one.
CompleteAnswerLost(w, passed) ==
  /\ worker[w].pc = "finish" /\ Fault("complete_answer_lost")
  /\ StoreChallenger(w, passed)
  /\ SetWorker(w, [worker[w] EXCEPT !.pc = "fail"])
  /\ UNCHANGED <<audits, models, requester, promoter>>

\* A report is missing or malformed, or the commit fails.
CompleteFails(w) ==
  /\ worker[w].pc = "finish" /\ Fault("db_commit")
  /\ SetWorker(w, [worker[w] EXCEPT !.pc = "fail"])
  /\ UNCHANGED <<database, models, requester, promoter>>

RecordFailure(w) ==
  /\ worker[w].pc = "fail"
  /\ SetStatus(worker[w].job, "FAILED")
  /\ SetWorker(w, Ready)
  /\ UNCHANGED <<stages, audits, models, requester, promoter, faults>>

\* The handler's own commit fails: the loop goes on, the job stays RUNNING.
RecordFailureFails(w) ==
  /\ worker[w].pc = "fail" /\ Fault("failure_commit")
  /\ SetWorker(w, Ready)
  /\ UNCHANGED <<database, models, requester, promoter>>

WorkerCrash(w) ==
  /\ worker[w].pc # "down" /\ Fault("worker_crash")
  /\ SetWorker(w, Down)
  /\ UNCHANGED <<database, models, requester, promoter>>

-----------------------------------------------------------------------------
(* A promotion (promote_completed_job)                                     *)

SetPromoter(p, state) == promoter' = [promoter EXCEPT ![p] = state]

\* A retry of what was done: the audit row is the answer.
PromotedBefore(p, j) ==
  /\ promoter[p].pc = "idle" /\ j \in Rows /\ audits[j] # None
  /\ jobs[j].status # "PROMOTED"
  /\ SetStatus(j, "PROMOTED")
  /\ UNCHANGED <<stages, audits, models, requester, worker, promoter, faults>>

\* Mutant of Promotable: the gates are not looked at.
PromotableUngated(j) == j \in InStatus({"COMPLETED"})

Promotable(j) == j \in InStatus({"COMPLETED"}) /\ jobs[j].recommended

CheckJob(p, j) ==
  /\ promoter[p].pc = "idle" /\ audits[j] = None /\ Promotable(j)
  /\ SetPromoter(p, [NoPromotion EXCEPT !.pc = "read_alias", !.job = j,
                                        !.version = jobs[j].version])
  /\ UNCHANGED <<database, models, requester, worker, faults>>

\* Mutant of ReadAlias: the alias to go back to is not remembered.
ReadAliasForgotten(p) ==
  /\ promoter[p].pc = "read_alias"
  /\ SetPromoter(p, [promoter[p] EXCEPT !.pc = "set_alias"])
  /\ UNCHANGED <<database, models, requester, worker, faults>>

ReadAlias(p) ==
  /\ promoter[p].pc = "read_alias"
  /\ SetPromoter(p, [promoter[p] EXCEPT !.pc = "set_alias", !.previous = alias])
  /\ UNCHANGED <<database, models, requester, worker, faults>>

SetAlias(p) ==
  /\ promoter[p].pc = "set_alias"
  /\ alias' = promoter[p].version
  /\ SetPromoter(p, [promoter[p] EXCEPT !.pc = "query"])
  /\ UNCHANGED <<database, registry, served, loaded, requester, worker, faults>>

\* The call raises, outside the try, although the registry has obeyed.
SetAliasAnswerLost(p) ==
  /\ promoter[p].pc = "set_alias" /\ Fault("alias_answer_lost")
  /\ alias' = promoter[p].version
  /\ SetPromoter(p, NoPromotion)
  /\ UNCHANGED <<database, registry, served, loaded, requester, worker>>

QueryChampions(p) ==
  /\ promoter[p].pc = "query"
  /\ SetPromoter(p, [promoter[p] EXCEPT !.pc = "commit",
                       !.champions = {v \in Versions : stages[v] = "champion"}])
  /\ UNCHANGED <<database, models, requester, worker, faults>>

CommitPromotion(p) ==
  LET q == promoter[p]
  IN  /\ q.pc = "commit" /\ audits[q.job] = None
      /\ stages' = [v \in Versions |-> IF v = q.version THEN "champion"
                                       ELSE IF v \in q.champions THEN "archived"
                                       ELSE stages[v]]
      /\ audits' = [audits EXCEPT ![q.job] =
                      [previous |-> q.previous, promoted |-> q.version]]
      /\ SetStatus(q.job, "PROMOTED")
      /\ SetPromoter(p, NoPromotion)
      /\ UNCHANGED <<models, requester, worker, faults>>

\* The job has an audit row by now (job_id is unique), or the commit fails.
CommitRaises(p) ==
  /\ promoter[p].pc = "commit"
  /\ IF audits[promoter[p].job] # None THEN UNCHANGED faults ELSE Fault("promote_commit")
  /\ SetPromoter(p, [promoter[p] EXCEPT !.pc = "undo"])
  /\ UNCHANGED <<database, models, requester, worker>>

Undo(p) ==
  /\ promoter[p].pc = "undo"
  /\ alias' = promoter[p].previous
  /\ SetPromoter(p, NoPromotion)
  /\ UNCHANGED <<database, registry, served, loaded, requester, worker, faults>>

\* The API process dies, or the registry does not answer.
PromoterCrash(p) ==
  /\ promoter[p].pc # "idle" /\ Fault("api_crash")
  /\ SetPromoter(p, NoPromotion)
  /\ UNCHANGED <<database, models, requester, worker>>

\* Somebody puts the champion's artifact at MODEL_PATH.
Deploy ==
  /\ served # alias
  /\ served' = alias
  /\ UNCHANGED <<database, registry, alias, loaded, requester, worker, promoter, faults>>

-----------------------------------------------------------------------------
Request(r) ==
  \/ \E type \in Types : SelectActive(r, type)
  \/ \E j \in Jobs : InsertJob(r, j)
  \/ RequestRollsBack(r) \/ ApiRestarts(r)

WorkerStep(w) ==
  \/ Start(w) \/ Requeue(w) \/ \E j \in Jobs : Claim(w, j)
  \/ \E v \in Versions : Train(w, v)
  \/ TrainFails(w)
  \/ \E passed \in BOOLEAN : Complete(w, passed) \/ CompleteAnswerLost(w, passed)
  \/ CompleteFails(w) \/ RecordFailure(w) \/ RecordFailureFails(w)

Promote(p) ==
  \/ \E j \in Jobs : PromotedBefore(p, j) \/ CheckJob(p, j)
  \/ ReadAlias(p) \/ SetAlias(p) \/ SetAliasAnswerLost(p)
  \/ QueryChampions(p) \/ CommitPromotion(p) \/ CommitRaises(p) \/ Undo(p)
  \/ PromoterCrash(p)

Next ==
  \/ \E r \in RSessions : Request(r)
  \/ \E w \in Workers : WorkerStep(w) \/ WorkerCrash(w)
  \/ \E p \in Promoters : Promote(p)
  \/ Deploy

Spec == Init /\ [][Next]_vars

\* A worker that runs gets on, training ends, and one that is down is started
\* again.  Nobody need request or promote anything.
FairSpec == Spec /\ \A w \in Workers : WF_vars(WorkerStep(w))

-----------------------------------------------------------------------------
(* Properties                                                              *)

StatusOf(j) == IF jobs[j] = None THEN "absent" ELSE jobs[j].status

Moves == {<<"absent", "QUEUED">>, <<"QUEUED", "RUNNING">>, <<"RUNNING", "QUEUED">>,
          <<"RUNNING", "COMPLETED">>, <<"RUNNING", "FAILED">>, <<"COMPLETED", "PROMOTED">>}

\* What the requeueing of interrupted jobs puts at risk: a job that is finished
\* is never trained again, and a promoted one stays promoted, unless the answer
\* to the commit that completed it was lost.
FinishedStaysFinished ==
  [][\A j \in Jobs : StatusOf(j)' # StatusOf(j) => <<StatusOf(j), StatusOf(j)'>> \in Moves]_vars

\* lifecycle.py:37-41, "repeated monitor windows must not start the same
\* expensive training run again": per champion and automatic trigger there is
\* one job that has not failed.
OneRunPerEpisode ==
  \A i, j \in Rows \ InStatus({"FAILED"}) :
    jobs[i].type \in Automatic /\ jobs[i].type = jobs[j].type
      /\ jobs[i].champion = jobs[j].champion => i = j

\* README.md:75, "passing challengers still require explicit, audited manual
\* promotion": what the audit says was promoted is what its job trained, and
\* had passed the gates.
AuditIsTrue ==
  \A j \in Jobs : audits[j] # None =>
    /\ StatusOf(j) = "PROMOTED" /\ jobs[j].recommended
    /\ audits[j].promoted = jobs[j].version

\* set_model_alias.py:10, "training never promotes production": whatever fails
\* or is retried, the champion is the first model or a challenger whose job
\* passed its gates.
ChampionPassedGates ==
  alias = Base \/ \E j \in Rows : jobs[j].version = alias /\ jobs[j].recommended

\* A queued job is trained to an end, a worker's crash or not.
QueuedJobFinishes ==
  \A j \in Jobs : StatusOf(j) = "QUEUED" ~> StatusOf(j) \in {"COMPLETED", "FAILED", "PROMOTED"}
=============================================================================
