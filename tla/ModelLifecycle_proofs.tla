----------------------- MODULE ModelLifecycle_proofs -----------------------
(***************************************************************************)
(* Theorems about ModelLifecycle, for any number of jobs, versions,        *)
(* requesters, promoting sessions and faults, and, where a starting worker *)
(* must not find another at work, for one worker, the answers to whose     *)
(* commits arrive.                                                         *)
(***************************************************************************)
EXTENDS ModelLifecycle, TLAPS

-----------------------------------------------------------------------------
(* Types                                                                   *)

\* What a requester has read, by the time it inserts.
RequesterShape == \A r \in RSessions : requester[r].pc = "insert" =>
  requester[r].type \in TypesOf(r) /\ requester[r].champion \in Models

\* The job a worker is at, and the jobs it has found, exist.
WorkerShape == \A w \in Workers :
  /\ worker[w].pc \in {"train", "finish", "fail"} => worker[w].job \in Rows
  /\ worker[w].pc = "finish" => worker[w].version \in Versions
  /\ worker[w].found \subseteq Rows

\* So does the job of a promotion; from set_alias on, so does a way back.
PromoterShape == \A p \in Promoters : promoter[p].pc # "idle" =>
  /\ promoter[p].job \in Rows /\ promoter[p].version \in Versions
  /\ promoter[p].pc # "read_alias" => promoter[p].previous \in Models

JobShape == \A j \in Rows : jobs[j].recommended => jobs[j].version \in Versions

TypeInv == TypeOK /\ RequesterShape /\ WorkerShape /\ PromoterShape /\ JobShape

\* A row is a row, and keeps its place.
LEMMA RowTypes ==
  ASSUME TypeInv, NEW j \in Rows
  PROVE  j \in Jobs /\ jobs[j] \in JobRows /\ jobs[j] # None
BY DEF TypeInv, TypeOK, Rows

LEMMA RequestTypes == ASSUME TypeInv, NEW r \in RSessions, Request(r) PROVE TypeInv'
<1> USE DEF TypeInv
<1>0. Champion(r) \in Models
  BY DEF Champion, RSessions, TypeOK
<1>1. CASE \E type \in Types : SelectActive(r, type)
  <2>1. PICK type \in Types : SelectActive(r, type)
    BY <1>1
  <2>2. /\ requester' = [requester EXCEPT ![r] = [pc |-> "insert", type |-> type, champion |-> Champion(r)]]
        /\ UNCHANGED <<jobs, stages, audits, registry, alias, served, loaded, worker, promoter, faults>>
        /\ type \in TypesOf(r)
    BY <2>1 DEF SelectActive, database, models
  <2>3. requester' \in [RSessions -> RequesterSt]
    BY <1>0, <2>2 DEF TypeOK, RequesterSt
  <2>4. RequesterShape'
    BY <1>0, <2>2 DEF TypeOK, RequesterShape, TypesOf
  <2> QED
    BY <2>2, <2>3, <2>4 DEF TypeOK, WorkerShape, PromoterShape, JobShape, Rows
<1>2. CASE \E j \in Jobs : InsertJob(r, j)
  <2>1. PICK j \in Jobs : InsertJob(r, j)
    BY <1>2
  <2> DEFINE new == [type |-> requester[r].type, champion |-> requester[r].champion,
                     status |-> "QUEUED", version |-> None, recommended |-> FALSE]
  <2>2. /\ jobs' = [jobs EXCEPT ![j] = new]
        /\ requester' = [requester EXCEPT ![r] = NoRequest]
        /\ UNCHANGED <<stages, audits, registry, alias, served, loaded, worker, promoter, faults>>
        /\ requester[r].pc = "insert"
    BY <2>1 DEF InsertJob, models
  <2>3. new \in JobRows /\ new # None
    <3>1. requester[r].type \in Types /\ requester[r].champion \in Models
      BY <2>2 DEF RequesterShape, TypesOf, Types, Automatic
    <3>2. new \in JobRows
      BY <3>1 DEF JobRows, Statuses
    <3> QED
      BY <3>2, LifecycleAssumption DEF LifecycleAssumption
  <2>4. ~new.recommended
    OBVIOUS
  <2> HIDE DEF new
  <2>5. jobs' \in [Jobs -> JobRows \cup {None}] /\ Rows \subseteq Rows'
    BY <2>2, <2>3 DEF TypeOK, Rows
  <2>6. JobShape'
    BY <2>2, <2>3, <2>4 DEF TypeOK, JobShape, Rows
  <2>7. requester' \in [RSessions -> RequesterSt] /\ RequesterShape'
    BY <2>2 DEF TypeOK, RequesterShape, RequesterSt, NoRequest, TypesOf
  <2> QED
    BY <2>2, <2>5, <2>6, <2>7 DEF TypeOK, WorkerShape, PromoterShape
<1>3. CASE RequestRollsBack(r)
  <2>1. /\ requester' = [requester EXCEPT ![r] = NoRequest]
        /\ UNCHANGED <<jobs, stages, audits, registry, alias, served, loaded, worker, promoter, faults>>
    BY <1>3 DEF RequestRollsBack, database, models
  <2>2. requester' \in [RSessions -> RequesterSt] /\ RequesterShape'
    BY <2>1 DEF TypeOK, RequesterShape, RequesterSt, NoRequest, TypesOf
  <2> QED
    BY <2>1, <2>2 DEF TypeOK, WorkerShape, PromoterShape, JobShape, Rows
<1>4. CASE ApiRestarts(r)
  <2>1. /\ loaded' = [loaded EXCEPT ![r] = served] /\ r \in Requesters
        /\ UNCHANGED <<jobs, stages, audits, registry, alias, served, requester, worker, promoter, faults>>
    BY <1>4 DEF ApiRestarts, database
  <2>2. loaded' \in [Requesters -> Models]
    BY <2>1 DEF TypeOK
  <2> QED
    BY <2>1, <2>2 DEF TypeOK, RequesterShape, WorkerShape, PromoterShape, JobShape, Rows
<1> QED
  BY <1>1, <1>2, <1>3, <1>4 DEF Request

\* Jobs get another status.
LEMMA StatusTypes ==
  ASSUME TypeInv, NEW some \in SUBSET Rows, NEW status \in Statuses,
         jobs' = [j \in Jobs |-> IF j \in some THEN [jobs[j] EXCEPT !.status = status] ELSE jobs[j]]
  PROVE  /\ jobs' \in [Jobs -> JobRows \cup {None}] /\ JobShape' /\ Rows' = Rows
         /\ \A j \in some : jobs'[j] = [jobs[j] EXCEPT !.status = status] /\ jobs'[j] \in JobRows
         /\ \A j \in Jobs : j \notin some => jobs'[j] = jobs[j]
<1>1. None \notin JobRows
  BY LifecycleAssumption DEF LifecycleAssumption
<1>2. ASSUME NEW j \in some
      PROVE  /\ j \in Jobs /\ jobs'[j] \in JobRows /\ jobs'[j] # None
             /\ jobs'[j].recommended = jobs[j].recommended /\ jobs'[j].version = jobs[j].version
             /\ jobs'[j] = [jobs[j] EXCEPT !.status = status]
  <2>1. j \in Jobs /\ jobs[j] \in JobRows
    BY RowTypes
  <2>2. jobs'[j] = [jobs[j] EXCEPT !.status = status]
    BY <2>1
  <2> QED
    BY <1>1, <2>1, <2>2 DEF JobRows
<1>3. \A j \in Jobs : j \notin some => jobs'[j] = jobs[j]
  OBVIOUS
<1>4. jobs' \in [Jobs -> JobRows \cup {None}]
  BY <1>2, <1>3 DEF TypeInv, TypeOK
<1>5. JobShape'
  BY <1>2, <1>3 DEF TypeInv, JobShape, Rows
<1> QED
  BY <1>2, <1>3, <1>4, <1>5 DEF Rows

LEMMA OneStatusTypes ==
  ASSUME TypeInv, NEW j \in Rows, NEW status \in Statuses, SetStatus(j, status)
  PROVE  /\ jobs' \in [Jobs -> JobRows \cup {None}] /\ JobShape' /\ Rows' = Rows
         /\ jobs'[j] = [jobs[j] EXCEPT !.status = status] /\ jobs'[j] \in JobRows
         /\ \A i \in Jobs : i # j => jobs'[i] = jobs[i]
<1>1. jobs' = [i \in Jobs |-> IF i \in {j} THEN [jobs[i] EXCEPT !.status = status] ELSE jobs[i]]
  BY RowTypes DEF SetStatus, TypeInv, TypeOK
<1>2. {j} \in SUBSET Rows
  OBVIOUS
<1> QED
  BY <1>1, <1>2, StatusTypes

\* A job is completed, its challenger stored.
LEMMA ChallengerTypes ==
  ASSUME TypeInv, NEW w \in Workers, worker[w].pc = "finish", NEW passed \in BOOLEAN,
         StoreChallenger(w, passed)
  PROVE  LET j == worker[w].job
         IN  /\ jobs' \in [Jobs -> JobRows \cup {None}] /\ JobShape' /\ Rows' = Rows
             /\ stages' \in [Versions -> Stages \cup {None}]
             /\ j \in Rows
             /\ jobs'[j] = [type |-> jobs[j].type, champion |-> jobs[j].champion,
                           status |-> "COMPLETED", version |-> worker[w].version,
                           recommended |-> passed]
             /\ \A i \in Jobs : i # j => jobs'[i] = jobs[i]
<1> DEFINE j == worker[w].job
           v == worker[w].version
<1>1. /\ jobs' = [jobs EXCEPT ![j] =
                    [@ EXCEPT !.status = "COMPLETED", !.version = v, !.recommended = passed]]
      /\ stages' = [stages EXCEPT ![v] = "challenger"]
      /\ j \in Rows /\ v \in Versions
  BY DEF StoreChallenger, TypeInv, WorkerShape
<1> HIDE DEF j, v
<1>2. stages' \in [Versions -> Stages \cup {None}]
  BY <1>1 DEF TypeInv, TypeOK, Stages
<1>3. j \in Jobs /\ jobs[j] \in JobRows /\ jobs \in [Jobs -> JobRows \cup {None}]
  BY <1>1, RowTypes DEF TypeInv, TypeOK
<1>4. /\ jobs'[j] = [type |-> jobs[j].type, champion |-> jobs[j].champion, status |-> "COMPLETED",
                     version |-> v, recommended |-> passed]
      /\ \A i \in Jobs : i # j => jobs'[i] = jobs[i]
  BY <1>1, <1>3 DEF JobRows
<1>5. jobs'[j] \in JobRows /\ jobs'[j] # None /\ jobs'[j].version = v
  <2>1. jobs'[j] \in JobRows
    BY <1>1, <1>3, <1>4 DEF JobRows, Statuses
  <2> QED
    BY <1>4, <2>1, LifecycleAssumption DEF LifecycleAssumption
<1>6. jobs' \in [Jobs -> JobRows \cup {None}] /\ JobShape'
  BY <1>1, <1>4, <1>5 DEF TypeInv, TypeOK, JobShape, Rows
<1>7. Rows' = Rows
  BY <1>1, <1>3, <1>4, <1>5 DEF Rows
<1> QED
  BY <1>1, <1>2, <1>4, <1>6, <1>7 DEF j, v

\* A worker's next state is a worker's, and no row goes.
LEMMA WorkerFrame ==
  ASSUME TypeInv, NEW w \in Workers, NEW state, worker' = [worker EXCEPT ![w] = state],
         state \in WorkerSt,
         state.pc \in {"train", "finish", "fail"} => state.job \in Rows,
         state.pc = "finish" => state.version \in Versions,
         state.found \subseteq Rows,
         Rows \subseteq Rows'
  PROVE  /\ worker' \in [Workers -> WorkerSt] /\ WorkerShape'
         /\ worker'[w] = state /\ \A x \in Workers : x # w => worker'[x] = worker[x]
<1>1. worker \in [Workers -> WorkerSt]
  BY DEF TypeInv, TypeOK
<1>2. /\ worker' \in [Workers -> WorkerSt]
      /\ worker'[w] = state /\ \A x \in Workers : x # w => worker'[x] = worker[x]
  BY <1>1
<1>3. WorkerShape'
  BY <1>2 DEF WorkerShape, TypeInv
<1> QED
  BY <1>2, <1>3

LEMMA WorkerTypes ==
  ASSUME TypeInv, NEW w \in Workers, WorkerStep(w) \/ WorkerCrash(w)
  PROVE  TypeInv'
<1> USE DEF TypeInv
<1>1. /\ worker[w] \in WorkerSt
      /\ worker[w].pc \in {"train", "finish", "fail"} => worker[w].job \in Rows
      /\ worker[w].pc = "finish" => worker[w].version \in Versions
      /\ worker[w].found \subseteq Rows
  BY DEF TypeOK, WorkerShape
<1>2. None \notin JobRows /\ Rows \subseteq Jobs
  BY LifecycleAssumption DEF LifecycleAssumption, Rows
<1>3. Down \in WorkerSt /\ Ready \in WorkerSt
  BY DEF Down, Ready, WorkerSt
<1>4. /\ Down.pc = "down" /\ Down.found = {} /\ Ready.pc = "claim" /\ Ready.found = {}
  BY DEF Down, Ready
<1> HIDE DEF TypeInv
\* Steps that change the worker alone.
<1>5. ASSUME UNCHANGED <<jobs, stages, audits, alias, served, loaded, requester, promoter>>,
             registry' \in Models, faults' \in 0 .. MaxFaults,
             worker' \in [Workers -> WorkerSt], WorkerShape'
      PROVE  TypeInv'
  BY <1>5 DEF TypeInv, TypeOK, RequesterShape, PromoterShape, JobShape, Rows
<1>6. UNCHANGED jobs => Rows \subseteq Rows'
  BY DEF Rows
<1>7. ASSUME NEW kind, Fault(kind) PROVE faults' \in 0 .. MaxFaults
  BY <1>7, LifecycleAssumption DEF LifecycleAssumption, Fault, TypeInv, TypeOK
<1>8. UNCHANGED faults => faults' \in 0 .. MaxFaults
  BY DEF TypeInv, TypeOK
<1>9. UNCHANGED registry => registry' \in Models
  BY DEF TypeInv, TypeOK
<1>10. CASE Start(w)
  <2> DEFINE state == [Down EXCEPT !.pc = "requeue", !.found = InStatus({"RUNNING"})]
  <2>1. /\ worker' = [worker EXCEPT ![w] = state]
        /\ UNCHANGED <<jobs, stages, audits, registry, alias, served, loaded, requester, promoter, faults>>
    BY <1>10 DEF Start, SetWorker, database, models
  <2>2. InStatus({"RUNNING"}) \subseteq Rows
    BY DEF InStatus
  <2>4. state \in WorkerSt /\ state.pc = "requeue" /\ state.found \subseteq Rows
    BY <1>2, <1>3, <2>2 DEF WorkerSt
  <2> HIDE DEF state
  <2>3. worker' \in [Workers -> WorkerSt] /\ WorkerShape'
    BY <1>6, <2>1, <2>4, WorkerFrame DEF state
  <2> QED
    BY <1>5, <1>8, <1>9, <2>1, <2>3
<1>11. CASE WorkerCrash(w) \/ RecordFailureFails(w)
  <2>1. PICK state \in {Down, Ready} :
          /\ worker' = [worker EXCEPT ![w] = state]
          /\ UNCHANGED <<jobs, stages, audits, registry, alias, served, loaded, requester, promoter>>
          /\ faults' \in 0 .. MaxFaults
    BY <1>7, <1>11 DEF WorkerCrash, RecordFailureFails, SetWorker, database, models
  <2>2. worker' \in [Workers -> WorkerSt] /\ WorkerShape'
    BY <1>3, <1>4, <1>6, <2>1, WorkerFrame
  <2> QED
    BY <1>5, <1>9, <2>1, <2>2
<1>12. CASE TrainFails(w) \/ CompleteFails(w)
  <2>1. /\ worker' = [worker EXCEPT ![w] = [worker[w] EXCEPT !.pc = "fail"]]
        /\ UNCHANGED <<jobs, stages, audits, registry, alias, served, loaded, requester, promoter>>
        /\ faults' \in 0 .. MaxFaults /\ worker[w].pc \in {"train", "finish"}
    BY <1>7, <1>8, <1>12 DEF TrainFails, CompleteFails, SetWorker, database, models
  <2> DEFINE state == [worker[w] EXCEPT !.pc = "fail"]
  <2>3. /\ state \in WorkerSt /\ state.pc = "fail" /\ state.job = worker[w].job
        /\ state.found = worker[w].found
    BY <1>1 DEF WorkerSt
  <2> HIDE DEF state
  <2>2. worker' \in [Workers -> WorkerSt] /\ WorkerShape'
    BY <1>1, <1>6, <2>1, <2>3, WorkerFrame DEF state
  <2> QED
    BY <1>5, <1>9, <2>1, <2>2
<1>13. CASE \E v \in Versions : Train(w, v)
  <2>1. PICK v \in Versions : Train(w, v)
    BY <1>13
  <2>2. /\ worker' = [worker EXCEPT ![w] = [worker[w] EXCEPT !.pc = "finish", !.version = v]]
        /\ UNCHANGED <<jobs, stages, audits, alias, served, loaded, requester, promoter, faults>>
        /\ registry' = v /\ worker[w].pc = "train"
    BY <2>1 DEF Train, SetWorker, database
  <2> DEFINE state == [worker[w] EXCEPT !.pc = "finish", !.version = v]
  <2>4. /\ state \in WorkerSt /\ state.pc = "finish" /\ state.version = v
        /\ state.job = worker[w].job /\ state.found = worker[w].found
    BY <1>1 DEF WorkerSt
  <2> HIDE DEF state
  <2>3. worker' \in [Workers -> WorkerSt] /\ WorkerShape'
    BY <1>1, <1>6, <2>2, <2>4, WorkerFrame DEF state
  <2> QED
    BY <1>5, <1>8, <2>2, <2>3 DEF Models
\* Steps that change jobs.
<1>14. ASSUME jobs' \in [Jobs -> JobRows \cup {None}], JobShape', Rows \subseteq Rows',
              stages' \in [Versions -> Stages \cup {None}],
              UNCHANGED <<audits, registry, alias, served, loaded, requester, promoter>>,
              faults' \in 0 .. MaxFaults,
              worker' \in [Workers -> WorkerSt], WorkerShape'
       PROVE  TypeInv'
  BY <1>14 DEF TypeInv, TypeOK, RequesterShape, PromoterShape
<1>15. CASE Requeue(w)
  <2>1. /\ worker' = [worker EXCEPT ![w] = Ready]
        /\ jobs' = [j \in Jobs |-> IF j \in worker[w].found
                                   THEN [jobs[j] EXCEPT !.status = "QUEUED"] ELSE jobs[j]]
        /\ UNCHANGED <<stages, audits, registry, alias, served, loaded, requester, promoter, faults>>
    BY <1>15 DEF Requeue, SetWorker, models
  <2>2. jobs' \in [Jobs -> JobRows \cup {None}] /\ JobShape' /\ Rows \subseteq Rows'
    BY <1>1, <2>1, StatusTypes DEF Statuses
  <2>3. worker' \in [Workers -> WorkerSt] /\ WorkerShape'
    BY <1>3, <1>4, <2>1, <2>2, WorkerFrame
  <2> QED
    BY <1>14, <2>1, <2>2, <2>3 DEF TypeInv, TypeOK
<1>16. CASE \E j \in Jobs : Claim(w, j)
  <2>1. PICK j \in Jobs : Claim(w, j)
    BY <1>16
  <2> DEFINE state == [Ready EXCEPT !.pc = "train", !.job = j]
  <2>2. /\ worker' = [worker EXCEPT ![w] = state]
        /\ SetStatus(j, "RUNNING") /\ j \in Rows
        /\ UNCHANGED <<stages, audits, registry, alias, served, loaded, requester, promoter, faults>>
    BY <2>1 DEF Claim, SetWorker, models, InStatus
  <2>3. jobs' \in [Jobs -> JobRows \cup {None}] /\ JobShape' /\ Rows \subseteq Rows'
    BY <2>2, OneStatusTypes DEF Statuses
  <2>5. state \in WorkerSt /\ state.pc = "train" /\ state.job = j /\ state.found = {}
    BY <1>3, <1>4 DEF WorkerSt
  <2> HIDE DEF state
  <2>4. worker' \in [Workers -> WorkerSt] /\ WorkerShape'
    BY <2>2, <2>3, <2>5, WorkerFrame DEF state
  <2> QED
    BY <1>14, <2>2, <2>3, <2>4 DEF TypeInv, TypeOK
<1>17. CASE RecordFailure(w)
  <2>1. /\ worker' = [worker EXCEPT ![w] = Ready] /\ worker[w].pc = "fail"
        /\ SetStatus(worker[w].job, "FAILED")
        /\ UNCHANGED <<stages, audits, registry, alias, served, loaded, requester, promoter, faults>>
    BY <1>17 DEF RecordFailure, SetWorker, models
  <2>2. jobs' \in [Jobs -> JobRows \cup {None}] /\ JobShape' /\ Rows \subseteq Rows'
    BY <1>1, <2>1, OneStatusTypes DEF Statuses
  <2>3. worker' \in [Workers -> WorkerSt] /\ WorkerShape'
    BY <1>3, <1>4, <2>1, <2>2, WorkerFrame
  <2> QED
    BY <1>14, <2>1, <2>2, <2>3 DEF TypeInv, TypeOK
<1>18. CASE \E passed \in BOOLEAN : Complete(w, passed) \/ CompleteAnswerLost(w, passed)
  <2>1. PICK passed \in BOOLEAN : Complete(w, passed) \/ CompleteAnswerLost(w, passed)
    BY <1>18
  <2>2. PICK state \in {Ready, [worker[w] EXCEPT !.pc = "fail"]} :
          /\ worker' = [worker EXCEPT ![w] = state]
          /\ StoreChallenger(w, passed) /\ worker[w].pc = "finish"
          /\ UNCHANGED <<audits, registry, alias, served, loaded, requester, promoter>>
          /\ faults' \in 0 .. MaxFaults
    BY <1>7, <1>8, <2>1 DEF Complete, CompleteAnswerLost, SetWorker, models
  <2>3. /\ jobs' \in [Jobs -> JobRows \cup {None}] /\ JobShape' /\ Rows' = Rows
        /\ stages' \in [Versions -> Stages \cup {None}]
    BY <1>1, <2>2, ChallengerTypes
  <2>4. /\ state \in WorkerSt /\ state.pc \in {"claim", "fail"} /\ state.found \subseteq Rows
        /\ state.pc = "fail" => state.job \in Rows
    <3>1. CASE state = Ready
      BY <1>3, <1>4, <3>1
    <3>2. CASE state = [worker[w] EXCEPT !.pc = "fail"]
      BY <1>1, <2>2, <3>2 DEF WorkerSt
    <3> QED
      BY <3>1, <3>2
  <2>5. worker' \in [Workers -> WorkerSt] /\ WorkerShape'
    BY <2>2, <2>3, <2>4, WorkerFrame
  <2> QED
    BY <1>14, <2>2, <2>3, <2>5
<1> QED
  BY <1>10, <1>11, <1>12, <1>13, <1>15, <1>16, <1>17, <1>18 DEF WorkerStep

\* A promotion's next state is a promotion's.
LEMMA PromoterFrame ==
  ASSUME TypeInv, NEW p \in Promoters, NEW state, SetPromoter(p, state), state \in PromoterSt,
         state.pc # "idle" => /\ state.job \in Rows /\ state.version \in Versions
                              /\ state.pc # "read_alias" => state.previous \in Models,
         Rows' = Rows
  PROVE  /\ promoter' \in [Promoters -> PromoterSt] /\ PromoterShape'
         /\ promoter'[p] = state /\ \A q \in Promoters : q # p => promoter'[q] = promoter[q]
<1>1. /\ promoter' \in [Promoters -> PromoterSt]
      /\ promoter'[p] = state /\ \A q \in Promoters : q # p => promoter'[q] = promoter[q]
  BY DEF SetPromoter, TypeInv, TypeOK
<1>2. PromoterShape'
  BY <1>1 DEF PromoterShape, TypeInv
<1> QED
  BY <1>1, <1>2

LEMMA PromoterTypes == ASSUME TypeInv, NEW p \in Promoters, Promote(p) PROVE TypeInv'
<1>1. /\ promoter[p] \in PromoterSt
      /\ promoter[p].pc # "idle" => /\ promoter[p].job \in Rows /\ promoter[p].version \in Versions
                                    /\ promoter[p].pc # "read_alias" => promoter[p].previous \in Models
  BY DEF TypeInv, TypeOK, PromoterShape
<1>2. /\ NoPromotion \in PromoterSt /\ NoPromotion.pc = "idle"
      /\ Rows \subseteq Jobs /\ Versions \subseteq Models
  BY DEF NoPromotion, PromoterSt, Rows, Models
<1>3. ASSUME NEW kind, Fault(kind) PROVE faults' \in 0 .. MaxFaults
  BY <1>3, LifecycleAssumption DEF LifecycleAssumption, Fault, TypeInv, TypeOK
<1>4. UNCHANGED faults => faults' \in 0 .. MaxFaults
  BY DEF TypeInv, TypeOK
<1>5. UNCHANGED alias => alias' \in Models
  BY DEF TypeInv, TypeOK
<1>6. UNCHANGED jobs => Rows' = Rows
  BY DEF Rows
\* Steps that leave the database alone.
<1>7. ASSUME UNCHANGED <<jobs, stages, audits, registry, served, loaded, requester, worker>>,
             alias' \in Models, faults' \in 0 .. MaxFaults,
             NEW state, SetPromoter(p, state), state \in PromoterSt,
             state.pc # "idle" => /\ state.job \in Rows /\ state.version \in Versions
                                  /\ state.pc # "read_alias" => state.previous \in Models
      PROVE  TypeInv'
  <2>1. promoter' \in [Promoters -> PromoterSt] /\ PromoterShape'
    BY <1>6, <1>7, PromoterFrame
  <2> QED
    BY <1>7, <2>1 DEF TypeInv, TypeOK, RequesterShape, WorkerShape, JobShape, Rows
<1>8. CASE \E j \in Jobs : PromotedBefore(p, j)
  <2>1. PICK j \in Jobs : PromotedBefore(p, j)
    BY <1>8
  <2>2. /\ j \in Rows /\ SetStatus(j, "PROMOTED")
        /\ UNCHANGED <<stages, audits, registry, alias, served, loaded, requester, worker, promoter, faults>>
    BY <2>1 DEF PromotedBefore, models
  <2>3. jobs' \in [Jobs -> JobRows \cup {None}] /\ JobShape' /\ Rows' = Rows
    BY <2>2, OneStatusTypes DEF Statuses
  <2> QED
    BY <2>2, <2>3 DEF TypeInv, TypeOK, RequesterShape, WorkerShape, PromoterShape
<1>9. CASE \E j \in Jobs : CheckJob(p, j)
  <2>1. PICK j \in Jobs : CheckJob(p, j)
    BY <1>9
  <2> DEFINE state == [NoPromotion EXCEPT !.pc = "read_alias", !.job = j, !.version = jobs[j].version]
  <2>2. /\ SetPromoter(p, state) /\ j \in Rows /\ jobs[j].recommended
        /\ UNCHANGED <<jobs, stages, audits, registry, alias, served, loaded, requester, worker, faults>>
    BY <2>1 DEF CheckJob, Promotable, InStatus, database, models
  <2>3. jobs[j].version \in Versions
    BY <2>2 DEF TypeInv, JobShape
  <2>4. /\ state \in PromoterSt /\ state.pc = "read_alias" /\ state.job = j
        /\ state.version = jobs[j].version
    BY <1>2, <2>3 DEF PromoterSt
  <2> HIDE DEF state
  <2> QED
    BY <1>4, <1>5, <1>7, <2>2, <2>3, <2>4
<1>10. CASE ReadAlias(p)
  <2> DEFINE state == [promoter[p] EXCEPT !.pc = "set_alias", !.previous = alias]
  <2>1. /\ SetPromoter(p, state) /\ promoter[p].pc = "read_alias" /\ alias \in Models
        /\ UNCHANGED <<jobs, stages, audits, registry, alias, served, loaded, requester, worker, faults>>
    BY <1>10 DEF ReadAlias, database, models, TypeInv, TypeOK
  <2>2. /\ state \in PromoterSt /\ state.pc = "set_alias" /\ state.job = promoter[p].job
        /\ state.version = promoter[p].version /\ state.previous = alias
    BY <1>1, <2>1 DEF PromoterSt
  <2> HIDE DEF state
  <2> QED
    BY <1>1, <1>4, <1>5, <1>7, <2>1, <2>2
<1>11. CASE SetAlias(p) \/ QueryChampions(p) \/ CommitRaises(p)
  <2>1. PICK pc \in {"query", "commit", "undo"}, champions \in SUBSET Versions :
          SetPromoter(p, [promoter[p] EXCEPT !.pc = pc, !.champions = champions])
    <3>1. ASSUME NEW pc
          PROVE  [promoter[p] EXCEPT !.pc = pc]
                   = [promoter[p] EXCEPT !.pc = pc, !.champions = promoter[p].champions]
      BY <1>1 DEF PromoterSt
    <3>2. promoter[p].champions \in SUBSET Versions
      BY <1>1 DEF PromoterSt
    <3> QED
      BY <1>11, <3>1, <3>2 DEF SetAlias, QueryChampions, CommitRaises
  <2>2. /\ promoter[p].pc \in {"set_alias", "query", "commit"}
        /\ UNCHANGED <<jobs, stages, audits, registry, served, loaded, requester, worker>>
        /\ alias' \in Models /\ faults' \in 0 .. MaxFaults
    BY <1>1, <1>2, <1>3, <1>4, <1>5, <1>11 DEF SetAlias, QueryChampions, CommitRaises, database, models
  <2> DEFINE state == [promoter[p] EXCEPT !.pc = pc, !.champions = champions]
  <2>3. /\ state \in PromoterSt /\ state.pc = pc /\ state.job = promoter[p].job
        /\ state.version = promoter[p].version /\ state.previous = promoter[p].previous
    BY <1>1 DEF PromoterSt
  <2>4. SetPromoter(p, state)
    BY <2>1
  <2> HIDE DEF state
  <2> QED
    BY <1>1, <1>7, <2>2, <2>3, <2>4
<1>12. CASE SetAliasAnswerLost(p) \/ Undo(p) \/ PromoterCrash(p)
  <2>1. /\ SetPromoter(p, NoPromotion)
        /\ UNCHANGED <<jobs, stages, audits, registry, served, loaded, requester, worker>>
        /\ alias' \in Models /\ faults' \in 0 .. MaxFaults
    BY <1>1, <1>2, <1>3, <1>4, <1>5, <1>12 DEF SetAliasAnswerLost, Undo, PromoterCrash, database, models
  <2> QED
    BY <1>2, <1>7, <2>1
<1>13. CASE CommitPromotion(p)
  <2> DEFINE q == promoter[p]
  <2>1. /\ q.job \in Rows /\ q.version \in Versions /\ q.previous \in Models
        /\ SetStatus(q.job, "PROMOTED") /\ SetPromoter(p, NoPromotion)
        /\ UNCHANGED <<registry, alias, served, loaded, requester, worker, faults>>
        /\ stages' = [v \in Versions |-> IF v = q.version THEN "champion"
                                         ELSE IF v \in q.champions THEN "archived"
                                         ELSE stages[v]]
        /\ audits' = [audits EXCEPT ![q.job] = [previous |-> q.previous, promoted |-> q.version]]
    BY <1>1, <1>13 DEF CommitPromotion, models
  <2> HIDE DEF q
  <2>2. stages' \in [Versions -> Stages \cup {None}]
    BY <2>1 DEF TypeInv, TypeOK, Stages
  <2>3. audits' \in [Jobs -> Audits \cup {None}]
    <3>1. [previous |-> q.previous, promoted |-> q.version] \in Audits
      BY <2>1 DEF Audits
    <3> QED
      BY <2>1, <3>1 DEF TypeInv, TypeOK
  <2>4. jobs' \in [Jobs -> JobRows \cup {None}] /\ JobShape' /\ Rows' = Rows
    BY <2>1, OneStatusTypes DEF Statuses
  <2>5. promoter' \in [Promoters -> PromoterSt] /\ PromoterShape'
    BY <1>2, <2>1, <2>4, PromoterFrame
  <2> QED
    BY <2>1, <2>2, <2>3, <2>4, <2>5 DEF TypeInv, TypeOK, RequesterShape, WorkerShape
<1> QED
  BY <1>8, <1>9, <1>10, <1>11, <1>12, <1>13 DEF Promote

LEMMA TypeStep == ASSUME TypeInv, [Next]_vars PROVE TypeInv'
<1>1. CASE Deploy
  BY <1>1 DEF Deploy, database, TypeInv, TypeOK, RequesterShape, WorkerShape, PromoterShape, JobShape, Rows
<1>2. CASE UNCHANGED vars
  BY <1>2 DEF vars, database, models, TypeInv, TypeOK, RequesterShape, WorkerShape, PromoterShape,
              JobShape, Rows
<1> QED
  BY <1>1, <1>2, RequestTypes, WorkerTypes, PromoterTypes DEF Next

LEMMA InitTypes == Init => TypeInv
<1> SUFFICES ASSUME Init PROVE TypeInv
  OBVIOUS
<1> USE DEF Init
<1>1. TypeOK
  BY LifecycleAssumption DEF LifecycleAssumption, TypeOK, Models, RequesterSt, NoRequest, WorkerSt, Down,
                             PromoterSt, NoPromotion
<1>2. Rows = {}
  BY DEF Rows
<1>3. RequesterShape /\ WorkerShape /\ PromoterShape /\ JobShape
  BY <1>2 DEF RequesterShape, NoRequest, WorkerShape, Down, PromoterShape, NoPromotion, JobShape
<1> QED
  BY <1>1, <1>3 DEF TypeInv

\* Jobs, stages, audits and processes are well-typed, for any number of workers,
\* requesters and promoting sessions and any faults.
THEOREM TypeCorrect == Spec => []TypeOK
<1>1. TypeInv /\ [Next]_vars => TypeInv'
  BY TypeStep
<1>2. TypeInv => TypeOK
  BY DEF TypeInv
<1> QED
  BY <1>1, <1>2, InitTypes, PTL DEF Spec

-----------------------------------------------------------------------------
(* Jobs                                                                    *)

\* docker-compose starts one retraining worker.
OneWorker == \A v, w \in Workers : v = w

\* No answer is lost to a commit that has completed a job: the failure handler
\* would take the job for a failed one.
AnswersArrive == "complete_answer_lost" \notin Faults

\* The job a worker is at is RUNNING, and so are those it is about to requeue.
WorkerInv == \A w \in Workers :
  /\ worker[w].pc \in {"train", "finish", "fail"} => jobs[worker[w].job].status = "RUNNING"
  /\ worker[w].found \subseteq InStatus({"RUNNING"})

Finished == {"COMPLETED", "PROMOTED"}

JobInv == \A j \in Rows : jobs[j].recommended => jobs[j].status \in Finished

\* A model that may be the champion.
Passed(v) == v = Base \/ \E j \in Rows : jobs[j].version = v /\ jobs[j].recommended

\* What a promotion has read is still so, and what it may go back to has passed.
PromotionInv(p) == promoter[p].pc # "idle" =>
  LET job == jobs[promoter[p].job]
  IN  /\ job.status \in Finished /\ job.recommended /\ job.version = promoter[p].version
      /\ promoter[p].pc # "read_alias" => Passed(promoter[p].previous)

PromoterInv == \A p \in Promoters : PromotionInv(p)

LifeInv ==
  /\ OneWorker /\ AnswersArrive
  /\ WorkerInv /\ JobInv /\ PromoterInv /\ AuditIsTrue /\ ChampionPassedGates

\* What a step may do to the jobs there are, and to the new ones.
Kept(j) ==
  /\ j \in Rows' /\ jobs'[j].type = jobs[j].type /\ jobs'[j].champion = jobs[j].champion
  /\ jobs'[j].status = jobs[j].status \/ <<jobs[j].status, jobs'[j].status>> \in Moves
  /\ jobs[j].recommended => jobs'[j].recommended /\ jobs'[j].version = jobs[j].version
  /\ jobs'[j].recommended => jobs'[j].status \in Finished

JobsKept ==
  /\ \A j \in Rows : Kept(j)
  /\ \A j \in Rows' \ Rows : jobs'[j].status = "QUEUED" /\ ~jobs'[j].recommended

\* No job a worker may be at is taken from it.
RunningKept == \A j \in Rows : jobs[j].status = "RUNNING" => jobs'[j].status = "RUNNING"

LEMMA SameJobs ==
  ASSUME TypeInv, LifeInv, UNCHANGED jobs
  PROVE  JobsKept /\ RunningKept /\ Rows' = Rows
BY DEF JobsKept, RunningKept, Kept, Rows, LifeInv, JobInv

\* Jobs get another status.
LEMMA MoveJobs ==
  ASSUME TypeInv, LifeInv, NEW some \in SUBSET Rows, NEW status \in Statuses,
         jobs' = [j \in Jobs |-> IF j \in some THEN [jobs[j] EXCEPT !.status = status] ELSE jobs[j]],
         \A j \in some : /\ jobs[j].status = status \/ <<jobs[j].status, status>> \in Moves
                         /\ jobs[j].status \in Finished => status \in Finished
  PROVE  JobsKept /\ \A j \in some : jobs'[j].status = status
<1>1. /\ Rows' = Rows /\ Rows \subseteq Jobs
      /\ \A j \in some : jobs'[j] = [jobs[j] EXCEPT !.status = status] /\ jobs[j] \in JobRows
      /\ \A j \in Jobs : j \notin some => jobs'[j] = jobs[j]
  BY StatusTypes, RowTypes
<1>2. ASSUME NEW j \in Rows PROVE Kept(j)
  <2>1. CASE j \in some
    <3>1. /\ jobs'[j].type = jobs[j].type /\ jobs'[j].champion = jobs[j].champion
          /\ jobs'[j].status = status /\ jobs'[j].recommended = jobs[j].recommended
          /\ jobs'[j].version = jobs[j].version
      BY <1>1, <2>1 DEF JobRows
    <3> QED
      BY <1>1, <2>1, <3>1 DEF Kept, LifeInv, JobInv
  <2>2. CASE j \notin some
    BY <1>1, <2>2 DEF Kept, LifeInv, JobInv
  <2> QED
    BY <2>1, <2>2
<1>3. \A j \in some : jobs'[j].status = status
  BY <1>1 DEF JobRows
<1> QED
  BY <1>1, <1>2, <1>3 DEF JobsKept

LEMMA MoveJob ==
  ASSUME TypeInv, LifeInv, NEW j \in Rows, NEW status \in Statuses, SetStatus(j, status),
         jobs[j].status = status \/ <<jobs[j].status, status>> \in Moves,
         jobs[j].status \in Finished => status \in Finished
  PROVE  /\ JobsKept /\ Rows' = Rows /\ jobs'[j].status = status
         /\ \A i \in Rows : i # j => jobs'[i] = jobs[i]
<1>1. jobs' = [i \in Jobs |-> IF i \in {j} THEN [jobs[i] EXCEPT !.status = status] ELSE jobs[i]]
  BY RowTypes DEF SetStatus, TypeInv, TypeOK
<1> DEFINE some == {j}
<1>2. /\ some \in SUBSET Rows /\ j \in some
      /\ \A i \in some : /\ jobs[i].status = status \/ <<jobs[i].status, status>> \in Moves
                         /\ jobs[i].status \in Finished => status \in Finished
  OBVIOUS
<1> HIDE DEF some
<1>3. JobsKept /\ jobs'[j].status = status
  <2>1. jobs' = [i \in Jobs |-> IF i \in some THEN [jobs[i] EXCEPT !.status = status] ELSE jobs[i]]
    BY <1>1 DEF some
  <2> QED
    BY <1>2, <2>1, MoveJobs
<1>4. Rows' = Rows /\ \A i \in Rows : i # j => jobs'[i] = jobs[i]
  BY OneStatusTypes, RowTypes
<1> QED
  BY <1>3, <1>4

\* A new job.
LEMMA InsertKeeps ==
  ASSUME TypeInv, LifeInv, NEW r \in RSessions, NEW j \in Jobs, InsertJob(r, j)
  PROVE  /\ JobsKept /\ RunningKept
         /\ j \notin Rows /\ Rows' = Rows \cup {j}
         /\ jobs'[j].type = requester[r].type /\ jobs'[j].champion = requester[r].champion
<1>1. j \notin Rows
  BY DEF InsertJob, Jobs
<1> DEFINE new == [type |-> requester[r].type, champion |-> requester[r].champion,
                   status |-> "QUEUED", version |-> None, recommended |-> FALSE]
<1>2. jobs' = [jobs EXCEPT ![j] = new] /\ jobs \in [Jobs -> JobRows \cup {None}]
  BY DEF InsertJob, TypeInv, TypeOK
<1>3. new # None
  <2>1. requester[r].type \in Types /\ requester[r].champion \in Models
    BY DEF InsertJob, TypeInv, RequesterShape, TypesOf, Types, Automatic
  <2>2. new \in JobRows
    BY <2>1 DEF JobRows, Statuses
  <2> QED
    BY <2>2, LifecycleAssumption DEF LifecycleAssumption
<1>4. /\ new.status = "QUEUED" /\ ~new.recommended /\ new.type = requester[r].type
      /\ new.champion = requester[r].champion
  OBVIOUS
<1> HIDE DEF new
<1>5. jobs'[j] = new /\ \A i \in Jobs : i # j => jobs'[i] = jobs[i]
  BY <1>2
<1>6. Rows' = Rows \cup {j} /\ Rows \subseteq Jobs
  BY <1>3, <1>5 DEF Rows
<1>7. \A i \in Rows : Kept(i)
  BY <1>1, <1>5, <1>6 DEF Kept, LifeInv, JobInv
<1>8. JobsKept
  BY <1>4, <1>5, <1>6, <1>7 DEF JobsKept
<1>9. RunningKept
  BY <1>1, <1>5, <1>6 DEF RunningKept
<1> QED
  BY <1>1, <1>4, <1>5, <1>6, <1>8, <1>9

\* The one worker is the only one to move a job that is RUNNING.
LEMMA WorkerKeeps ==
  ASSUME TypeInv, LifeInv, NEW w \in Workers, WorkerStep(w) \/ WorkerCrash(w)
  PROVE  JobsKept /\ WorkerInv'
<1> USE DEF LifeInv
<1>1. /\ worker[w] \in WorkerSt /\ \A x \in Workers : x = w
      /\ worker[w].pc \in {"train", "finish", "fail"} =>
           worker[w].job \in Rows /\ jobs[worker[w].job].status = "RUNNING"
      /\ worker[w].found \subseteq InStatus({"RUNNING"})
      /\ worker[w].found \subseteq Rows
  BY DEF TypeInv, TypeOK, WorkerShape, WorkerInv, OneWorker
<1>2. ASSUME NEW state, worker' = [worker EXCEPT ![w] = state],
             state.pc \in {"train", "finish", "fail"} => jobs'[state.job].status = "RUNNING",
             state.found \subseteq InStatus({"RUNNING"})'
      PROVE  WorkerInv'
  <2>1. worker'[w] = state
    BY <1>2 DEF TypeInv, TypeOK
  <2> QED
    BY <1>1, <1>2, <2>1 DEF WorkerInv
<1>3. UNCHANGED jobs => InStatus({"RUNNING"})' = InStatus({"RUNNING"})
  BY DEF InStatus, Rows
<1>4. /\ Down.pc = "down" /\ Down.found = {} /\ Ready.pc = "claim" /\ Ready.found = {}
      /\ Down \in WorkerSt /\ Ready \in WorkerSt
  BY DEF Down, Ready, WorkerSt
<1>5. \A state \in {Down, Ready} : worker' = [worker EXCEPT ![w] = state] => WorkerInv'
  BY <1>2, <1>4
<1>6. CASE Start(w)
  <2> DEFINE state == [Down EXCEPT !.pc = "requeue", !.found = InStatus({"RUNNING"})]
  <2>1. worker' = [worker EXCEPT ![w] = state] /\ UNCHANGED jobs
    BY <1>6 DEF Start, SetWorker, database
  <2>2. state.pc = "requeue" /\ state.found = InStatus({"RUNNING"})
    BY <1>4 DEF WorkerSt
  <2> HIDE DEF state
  <2> QED
    BY <1>2, <1>3, <2>1, <2>2, SameJobs
<1>7. CASE WorkerCrash(w) \/ RecordFailureFails(w)
  BY <1>5, <1>7, SameJobs DEF WorkerCrash, RecordFailureFails, SetWorker, database
<1>8. CASE TrainFails(w) \/ CompleteFails(w)
  <2> DEFINE state == [worker[w] EXCEPT !.pc = "fail"]
  <2>1. /\ worker' = [worker EXCEPT ![w] = state] /\ UNCHANGED jobs
        /\ worker[w].pc \in {"train", "finish"}
    BY <1>8 DEF TrainFails, CompleteFails, SetWorker, database
  <2>2. state.job = worker[w].job /\ state.found = worker[w].found
    BY <1>1 DEF WorkerSt
  <2> HIDE DEF state
  <2> QED
    BY <1>1, <1>2, <1>3, <2>1, <2>2, SameJobs
<1>9. CASE \E v \in Versions : Train(w, v)
  <2>1. PICK v \in Versions : Train(w, v)
    BY <1>9
  <2> DEFINE state == [worker[w] EXCEPT !.pc = "finish", !.version = v]
  <2>2. /\ worker' = [worker EXCEPT ![w] = state] /\ UNCHANGED jobs
        /\ worker[w].pc = "train"
    BY <2>1 DEF Train, SetWorker, database
  <2>3. state.job = worker[w].job /\ state.found = worker[w].found
    BY <1>1 DEF WorkerSt
  <2> HIDE DEF state
  <2> QED
    BY <1>1, <1>2, <1>3, <2>2, <2>3, SameJobs
<1>10. CASE Requeue(w)
  <2>1. \A j \in worker[w].found : jobs[j].status = "RUNNING"
    BY <1>1 DEF InStatus
  <2>2. /\ worker' = [worker EXCEPT ![w] = Ready]
        /\ jobs' = [j \in Jobs |-> IF j \in worker[w].found
                                   THEN [jobs[j] EXCEPT !.status = "QUEUED"] ELSE jobs[j]]
    BY <1>10 DEF Requeue, SetWorker
  <2>3. JobsKept
    BY <1>1, <2>1, <2>2, MoveJobs DEF Statuses, Moves, Finished
  <2> QED
    BY <1>5, <2>2, <2>3
<1>11. CASE \E j \in Jobs : Claim(w, j)
  <2>1. PICK j \in Jobs : Claim(w, j)
    BY <1>11
  <2> DEFINE state == [Ready EXCEPT !.pc = "train", !.job = j]
  <2>2. /\ worker' = [worker EXCEPT ![w] = state]
        /\ SetStatus(j, "RUNNING") /\ j \in Rows /\ jobs[j].status = "QUEUED"
    BY <2>1 DEF Claim, SetWorker, InStatus
  <2>3. JobsKept /\ jobs'[j].status = "RUNNING"
    BY <2>2, MoveJob DEF Statuses, Moves, Finished
  <2>4. state.job = j /\ state.found = {}
    BY <1>4 DEF WorkerSt
  <2> HIDE DEF state
  <2> QED
    BY <1>2, <2>2, <2>3, <2>4
<1>12. CASE RecordFailure(w)
  <2>1. /\ worker' = [worker EXCEPT ![w] = Ready] /\ worker[w].pc = "fail"
        /\ SetStatus(worker[w].job, "FAILED")
    BY <1>12 DEF RecordFailure, SetWorker
  <2>2. JobsKept
    BY <1>1, <2>1, MoveJob DEF Statuses, Moves, Finished
  <2> QED
    BY <1>5, <2>1, <2>2
<1>13. CASE \E passed \in BOOLEAN : Complete(w, passed) \/ CompleteAnswerLost(w, passed)
  <2>1. ASSUME NEW passed \in BOOLEAN PROVE ~CompleteAnswerLost(w, passed)
    BY DEF CompleteAnswerLost, Fault, AnswersArrive
  <2>2. PICK passed \in BOOLEAN : Complete(w, passed)
    BY <1>13, <2>1
  <2> DEFINE j == worker[w].job
  <2>3. /\ StoreChallenger(w, passed) /\ worker[w].pc = "finish"
        /\ worker' = [worker EXCEPT ![w] = Ready]
    BY <2>2 DEF Complete, SetWorker
  <2>4. /\ j \in Rows /\ Rows' = Rows /\ Rows \subseteq Jobs
        /\ jobs'[j] = [type |-> jobs[j].type, champion |-> jobs[j].champion, status |-> "COMPLETED",
                       version |-> worker[w].version, recommended |-> passed]
        /\ \A i \in Jobs : i # j => jobs'[i] = jobs[i]
    BY <2>3, ChallengerTypes DEF Rows
  <2>5. jobs[j].status = "RUNNING" /\ ~jobs[j].recommended
    BY <1>1, <2>3, <2>4 DEF JobInv, Finished
  <2> HIDE DEF j
  <2>6. \A i \in Rows : Kept(i)
    BY <2>4, <2>5 DEF Kept, JobInv, Finished, Moves
  <2> QED
    BY <1>5, <2>3, <2>4, <2>6 DEF JobsKept
<1> QED
  BY <1>6, <1>7, <1>8, <1>9, <1>10, <1>11, <1>12, <1>13 DEF WorkerStep

\* What has passed stays so, and so do the promotions of the others.
LEMMA PassedStays ==
  ASSUME TypeInv, JobsKept, NEW v, Passed(v)
  PROVE  Passed(v)'
BY DEF Passed, JobsKept, Kept

LEMMA PromotionStays ==
  ASSUME TypeInv, LifeInv, JobsKept, NEW p \in Promoters, promoter'[p] = promoter[p]
  PROVE  PromotionInv(p)'
<1>1. CASE promoter[p].pc = "idle"
  BY <1>1 DEF PromotionInv
<1>2. CASE promoter[p].pc # "idle"
  <2> DEFINE j == promoter[p].job
  <2>1. /\ j \in Rows /\ jobs[j].recommended /\ jobs[j].version = promoter[p].version
        /\ promoter[p].pc # "read_alias" => Passed(promoter[p].previous)
    BY <1>2 DEF TypeInv, PromoterShape, LifeInv, PromoterInv, PromotionInv
  <2>2. Kept(j)
    BY <2>1 DEF JobsKept
  <2>3. \A v : Passed(v) => Passed(v)'
    BY PassedStays
  <2>4. ASSUME promoter[p].pc # "read_alias" PROVE Passed(promoter[p].previous)'
    <3>1. PICK v : v = promoter[p].previous
      OBVIOUS
    <3>2. Passed(v)'
      BY <2>1, <2>3, <2>4, <3>1
    <3> QED
      BY <3>1, <3>2 DEF Passed
  <2> QED
    BY <2>1, <2>2, <2>4 DEF Kept, PromotionInv
<1> QED
  BY <1>1, <1>2

\* A step that makes no promotion and leaves the alias alone.
LEMMA LifeFrame ==
  ASSUME TypeInv, LifeInv, JobsKept, WorkerInv', UNCHANGED <<audits, alias, promoter>>
  PROVE  LifeInv'
<1>1. JobInv'
  BY DEF JobInv, JobsKept, Kept
<1>2. PromoterInv'
  BY PromotionStays DEF PromoterInv
<1>3. AuditIsTrue'
  <2>1. ASSUME NEW j \in Jobs, audits[j] # None
        PROVE  StatusOf(j)' = "PROMOTED" /\ jobs'[j].recommended /\ audits[j].promoted = jobs'[j].version
    <3>1. /\ jobs[j] # None /\ jobs[j].status = "PROMOTED" /\ jobs[j].recommended
          /\ audits[j].promoted = jobs[j].version
      BY <2>1 DEF LifeInv, AuditIsTrue, StatusOf
    <3>2. Kept(j)
      BY <3>1 DEF Rows, JobsKept
    <3> QED
      BY <3>1, <3>2 DEF Kept, StatusOf, Rows, Moves
  <2> QED
    BY <2>1 DEF AuditIsTrue
<1>4. ChampionPassedGates'
  <2>1. Passed(alias)
    BY DEF LifeInv, ChampionPassedGates, Passed
  <2>2. Passed(alias)'
    BY <2>1, PassedStays DEF Passed
  <2> QED
    BY <2>2 DEF ChampionPassedGates, Passed
<1> QED
  BY <1>1, <1>2, <1>3, <1>4 DEF LifeInv, OneWorker, AnswersArrive

\* The one worker's job is left alone by everybody else.
LEMMA WorkerUntouched ==
  ASSUME TypeInv, LifeInv, JobsKept, RunningKept, UNCHANGED worker
  PROVE  WorkerInv'
<1>1. InStatus({"RUNNING"}) \subseteq InStatus({"RUNNING"})'
  BY DEF InStatus, JobsKept, RunningKept, Kept
<1> QED
  BY <1>1 DEF WorkerInv, RunningKept, LifeInv, TypeInv, WorkerShape

\* A promotion ends with an audit of what it has done, or goes back to what it found.
LEMMA PromoteKeeps ==
  ASSUME TypeInv, LifeInv, NEW p \in Promoters, Promote(p)
  PROVE  JobsKept /\ LifeInv'
<1>1. UNCHANGED worker
  BY DEF Promote, PromotedBefore, CheckJob, ReadAlias, SetAlias, SetAliasAnswerLost, QueryChampions,
         CommitPromotion, CommitRaises, Undo, PromoterCrash
<1>2. /\ promoter[p] \in PromoterSt /\ promoter \in [Promoters -> PromoterSt]
      /\ promoter[p].pc # "idle" =>
           /\ promoter[p].job \in Rows
           /\ jobs[promoter[p].job].status \in Finished /\ jobs[promoter[p].job].recommended
           /\ jobs[promoter[p].job].version = promoter[p].version
           /\ promoter[p].pc # "read_alias" => Passed(promoter[p].previous)
  BY DEF TypeInv, TypeOK, PromoterShape, LifeInv, PromoterInv, PromotionInv
<1>3. Passed(alias) /\ NoPromotion.pc = "idle" /\ NoPromotion \in PromoterSt
  BY DEF LifeInv, ChampionPassedGates, Passed, NoPromotion, PromoterSt
\* Steps that leave the database alone.
<1>4. ASSUME UNCHANGED database, NEW state, SetPromoter(p, state), Passed(alias)',
             state.pc # "idle" =>
               /\ jobs[state.job].status \in Finished /\ jobs[state.job].recommended
               /\ jobs[state.job].version = state.version
               /\ state.pc # "read_alias" => Passed(state.previous)
      PROVE  JobsKept /\ LifeInv'
  <2>1. JobsKept /\ RunningKept /\ Rows' = Rows /\ UNCHANGED <<jobs, audits>>
    BY <1>4, SameJobs DEF database
  <2>2. WorkerInv'
    BY <1>1, <2>1, WorkerUntouched
  <2>3. JobInv' /\ AuditIsTrue'
    BY <2>1 DEF LifeInv, JobInv, AuditIsTrue, StatusOf
  <2>4. promoter'[p] = state /\ \A q \in Promoters : q # p => promoter'[q] = promoter[q]
    BY <1>2, <1>4 DEF SetPromoter
  <2>5. PromotionInv(p)'
    BY <1>4, <2>1, <2>4 DEF PromotionInv, Passed
  <2>6. PromoterInv'
    BY <2>1, <2>4, <2>5, PromotionStays DEF PromoterInv
  <2>7. ChampionPassedGates'
    BY <1>4 DEF ChampionPassedGates, Passed
  <2> QED
    BY <2>1, <2>2, <2>3, <2>6, <2>7 DEF LifeInv, OneWorker, AnswersArrive
<1>5. UNCHANGED <<database, alias>> => Passed(alias)'
  BY <1>3 DEF database, Passed, Rows
<1>6. CASE \E j \in Jobs : PromotedBefore(p, j)
  <2>1. PICK j \in Jobs : PromotedBefore(p, j)
    BY <1>6
  <2>2. StatusOf(j) = "PROMOTED" /\ j \in Rows /\ jobs[j].status # "PROMOTED"
    BY <2>1 DEF PromotedBefore, LifeInv, AuditIsTrue
  <2> QED
    BY <2>2 DEF StatusOf, Rows
<1>7. CASE \E j \in Jobs : CheckJob(p, j)
  <2>1. PICK j \in Jobs : CheckJob(p, j)
    BY <1>7
  <2> DEFINE state == [NoPromotion EXCEPT !.pc = "read_alias", !.job = j, !.version = jobs[j].version]
  <2>2. /\ SetPromoter(p, state) /\ jobs[j].recommended /\ jobs[j].status \in Finished
        /\ UNCHANGED <<database, alias>>
    BY <2>1 DEF CheckJob, Promotable, InStatus, models, Finished
  <2>3. state.pc = "read_alias" /\ state.job = j /\ state.version = jobs[j].version
    BY <1>3 DEF PromoterSt
  <2> HIDE DEF state
  <2> QED
    BY <1>4, <1>5, <2>2, <2>3
<1>8. CASE ReadAlias(p)
  <2> DEFINE state == [promoter[p] EXCEPT !.pc = "set_alias", !.previous = alias]
  <2>1. SetPromoter(p, state) /\ promoter[p].pc = "read_alias" /\ UNCHANGED <<database, alias>>
    BY <1>8 DEF ReadAlias, models
  <2>2. /\ state.pc = "set_alias" /\ state.job = promoter[p].job
        /\ state.version = promoter[p].version /\ state.previous = alias
    BY <1>2 DEF PromoterSt
  <2> HIDE DEF state
  <2> QED
    BY <1>2, <1>3, <1>4, <1>5, <2>1, <2>2
<1>9. CASE SetAlias(p)
  <2> DEFINE state == [promoter[p] EXCEPT !.pc = "query"]
  <2>1. /\ SetPromoter(p, state) /\ promoter[p].pc = "set_alias" /\ UNCHANGED database
        /\ alias' = promoter[p].version
    BY <1>9 DEF SetAlias
  <2>2. /\ state.pc = "query" /\ state.job = promoter[p].job
        /\ state.version = promoter[p].version /\ state.previous = promoter[p].previous
    BY <1>2 DEF PromoterSt
  <2>3. Passed(alias)'
    BY <1>2, <2>1 DEF Passed, database, Rows
  <2> HIDE DEF state
  <2> QED
    BY <1>2, <1>4, <2>1, <2>2, <2>3
<1>10. CASE QueryChampions(p) \/ CommitRaises(p)
  <2>1. UNCHANGED <<database, alias>> /\ promoter[p].pc \in {"query", "commit"}
    BY <1>10 DEF QueryChampions, CommitRaises, models
  <2>2. PICK state : /\ SetPromoter(p, state) /\ state.pc \in {"commit", "undo"}
                     /\ state.job = promoter[p].job /\ state.version = promoter[p].version
                     /\ state.previous = promoter[p].previous
    <3>1. CASE QueryChampions(p)
      <4> DEFINE state == [promoter[p] EXCEPT !.pc = "commit",
                             !.champions = {v \in Versions : stages[v] = "champion"}]
      <4>1. SetPromoter(p, state)
        BY <3>1 DEF QueryChampions
      <4>2. /\ state.pc \in {"commit", "undo"}
            /\ state.job = promoter[p].job /\ state.version = promoter[p].version
            /\ state.previous = promoter[p].previous
        BY <1>2 DEF PromoterSt
      <4> HIDE DEF state
      <4> QED
        BY <4>1, <4>2
    <3>2. CASE CommitRaises(p)
      <4> DEFINE state == [promoter[p] EXCEPT !.pc = "undo"]
      <4>1. SetPromoter(p, state)
        BY <3>2 DEF CommitRaises
      <4>2. /\ state.pc \in {"commit", "undo"}
            /\ state.job = promoter[p].job /\ state.version = promoter[p].version
            /\ state.previous = promoter[p].previous
        BY <1>2 DEF PromoterSt
      <4> HIDE DEF state
      <4> QED
        BY <4>1, <4>2
    <3> QED
      BY <1>10, <3>1, <3>2
  <2> QED
    BY <1>2, <1>4, <1>5, <2>1, <2>2
<1>11. CASE SetAliasAnswerLost(p) \/ Undo(p) \/ PromoterCrash(p)
  <2>1. SetPromoter(p, NoPromotion) /\ UNCHANGED database
    BY <1>11 DEF SetAliasAnswerLost, Undo, PromoterCrash
  <2>2. Passed(alias)'
    <3>1. CASE SetAliasAnswerLost(p)
      BY <1>2, <3>1 DEF SetAliasAnswerLost, Passed, database, Rows
    <3>2. CASE Undo(p)
      BY <1>2, <3>2 DEF Undo, Passed, database, Rows
    <3>3. CASE PromoterCrash(p)
      BY <1>5, <3>3 DEF PromoterCrash, models
    <3> QED
      BY <1>11, <3>1, <3>2, <3>3
  <2> QED
    BY <1>3, <1>4, <2>1, <2>2
<1>12. CASE CommitPromotion(p)
  <2> DEFINE q == promoter[p]
  <2>1. /\ q.job \in Rows /\ jobs[q.job].status \in Finished /\ jobs[q.job].recommended
        /\ jobs[q.job].version = q.version
        /\ SetStatus(q.job, "PROMOTED") /\ SetPromoter(p, NoPromotion) /\ UNCHANGED alias
        /\ audits' = [audits EXCEPT ![q.job] = [previous |-> q.previous, promoted |-> q.version]]
    BY <1>2, <1>12 DEF CommitPromotion, models
  <2> HIDE DEF q
  <2>2. /\ JobsKept /\ Rows' = Rows /\ jobs'[q.job].status = "PROMOTED"
        /\ \A i \in Rows : i # q.job => jobs'[i] = jobs[i]
    BY <2>1, MoveJob DEF Statuses, Moves, Finished
  <2>3. RunningKept
    BY <2>1, <2>2 DEF RunningKept, Finished
  <2>4. WorkerInv'
    BY <1>1, <2>2, <2>3, WorkerUntouched
  <2>5. JobInv'
    BY <2>2 DEF JobInv, JobsKept, Kept
  <2>6. promoter'[p] = NoPromotion /\ \A r \in Promoters : r # p => promoter'[r] = promoter[r]
    BY <1>2, <2>1 DEF SetPromoter
  <2>7. PromoterInv'
    BY <1>3, <2>2, <2>6, PromotionStays DEF PromoterInv, PromotionInv
  <2>8. ChampionPassedGates'
    <3>1. Passed(alias)'
      BY <1>3, <2>1, <2>2, PassedStays DEF Passed
    <3> QED
      BY <3>1 DEF ChampionPassedGates, Passed
  <2>9. ASSUME NEW j \in Jobs, audits'[j] # None
        PROVE  StatusOf(j)' = "PROMOTED" /\ jobs'[j].recommended /\ audits'[j].promoted = jobs'[j].version
    <3>1. CASE j = q.job
      <4>1. audits'[j].promoted = q.version
        BY <2>1, <3>1 DEF TypeInv, TypeOK
      <4>2. Kept(j) /\ j \in Rows'
        BY <2>1, <2>2, <3>1 DEF JobsKept
      <4> QED
        BY <2>1, <2>2, <3>1, <4>1, <4>2 DEF Kept, StatusOf, Rows
    <3>2. CASE j # q.job
      <4>1. audits[j] # None /\ audits'[j] = audits[j]
        BY <2>1, <2>9, <3>2 DEF TypeInv, TypeOK
      <4>2. /\ jobs[j] # None /\ jobs[j].status = "PROMOTED" /\ jobs[j].recommended
            /\ audits[j].promoted = jobs[j].version
        BY <4>1 DEF LifeInv, AuditIsTrue, StatusOf
      <4>3. jobs'[j] = jobs[j]
        BY <2>2, <3>2, <4>2 DEF Rows
      <4> QED
        BY <4>1, <4>2, <4>3 DEF StatusOf
    <3> QED
      BY <3>1, <3>2
  <2> QED
    BY <2>2, <2>4, <2>5, <2>7, <2>8, <2>9 DEF LifeInv, OneWorker, AnswersArrive, AuditIsTrue
<1> QED
  BY <1>6, <1>7, <1>8, <1>9, <1>10, <1>11, <1>12 DEF Promote

\* Every step.
LEMMA LifeStep == ASSUME TypeInv, LifeInv, [Next]_vars PROVE JobsKept /\ LifeInv'
<1>1. ASSUME NEW r \in RSessions, Request(r) PROVE JobsKept /\ LifeInv'
  <2>1. UNCHANGED <<audits, alias, promoter, worker>>
    BY <1>1 DEF Request, SelectActive, InsertJob, RequestRollsBack, ApiRestarts, database, models
  <2>2. JobsKept /\ RunningKept
    <3>1. CASE \E j \in Jobs : InsertJob(r, j)
      BY <3>1, InsertKeeps
    <3>2. CASE (\E type \in Types : SelectActive(r, type)) \/ RequestRollsBack(r) \/ ApiRestarts(r)
      BY <3>2, SameJobs DEF SelectActive, RequestRollsBack, ApiRestarts, database
    <3> QED
      BY <1>1, <3>1, <3>2 DEF Request
  <2> QED
    BY <2>1, <2>2, WorkerUntouched, LifeFrame
<1>2. ASSUME NEW w \in Workers, WorkerStep(w) \/ WorkerCrash(w) PROVE JobsKept /\ LifeInv'
  <2>1. UNCHANGED <<audits, alias, promoter>>
    BY <1>2 DEF WorkerStep, Start, Requeue, Claim, Train, TrainFails, Complete, CompleteAnswerLost,
                CompleteFails, RecordFailure, RecordFailureFails, WorkerCrash, database, models
  <2> QED
    BY <1>2, <2>1, WorkerKeeps, LifeFrame
<1>3. CASE Deploy \/ UNCHANGED vars
  <2>1. UNCHANGED <<jobs, audits, alias, promoter, worker>>
    BY <1>3 DEF Deploy, vars, database, models
  <2> QED
    BY <2>1, SameJobs, WorkerUntouched, LifeFrame
<1> QED
  BY <1>1, <1>2, <1>3, PromoteKeeps DEF Next

-----------------------------------------------------------------------------
(* Episodes                                                                *)

\* Automatic triggers have one sender: while it is between its SELECT and its
\* INSERT, the episode has no run that did not fail.
NoRun(type, champion) == \A j \in Rows :
  jobs[j].type = type /\ jobs[j].champion = champion => jobs[j].status = "FAILED"

InsertInv == \A r \in RSessions :
  requester[r].pc = "insert" /\ requester[r].type \in Automatic =>
    NoRun(requester[r].type, requester[r].champion)

EpisodeInv == InsertInv /\ OneRunPerEpisode

LEMMA FailedStays ==
  ASSUME TypeInv, JobsKept, NEW j \in Rows
  PROVE  /\ j \in Rows' /\ jobs'[j].type = jobs[j].type /\ jobs'[j].champion = jobs[j].champion
         /\ jobs[j].status = "FAILED" => jobs'[j].status = "FAILED"
BY DEF JobsKept, Kept, Moves

\* A step that adds no job.
LEMMA EpisodeFrame ==
  ASSUME TypeInv, EpisodeInv, JobsKept, Rows' = Rows,
         \A r \in RSessions :
           \/ requester'[r] = requester[r] \/ requester'[r].pc = "idle"
           \/ NoRun(requester'[r].type, requester'[r].champion)
  PROVE  EpisodeInv'
<1>1. ASSUME NEW type, NEW champion, NoRun(type, champion)
      PROVE  \A j \in Rows' : jobs'[j].type = type /\ jobs'[j].champion = champion => jobs'[j].status = "FAILED"
  BY <1>1, FailedStays DEF NoRun
<1>2. InsertInv'
  <2>1. SUFFICES ASSUME NEW r \in RSessions, requester'[r].pc = "insert", requester'[r].type \in Automatic
                 PROVE  \A j \in Rows' : /\ jobs'[j].type = requester'[r].type
                                         /\ jobs'[j].champion = requester'[r].champion
                                         => jobs'[j].status = "FAILED"
    BY DEF InsertInv, NoRun
  <2>2. NoRun(requester'[r].type, requester'[r].champion)
    BY <2>1 DEF EpisodeInv, InsertInv
  <2> QED
    BY <1>1, <2>2
<1>3. OneRunPerEpisode'
  <2>1. SUFFICES ASSUME NEW i \in Rows, NEW j \in Rows, jobs'[i].status # "FAILED", jobs'[j].status # "FAILED",
                        jobs'[i].type \in Automatic, jobs'[i].type = jobs'[j].type,
                        jobs'[i].champion = jobs'[j].champion
                 PROVE  i = j
    BY DEF OneRunPerEpisode, InStatus
  <2>2. /\ jobs[i].status # "FAILED" /\ jobs[j].status # "FAILED"
        /\ jobs[i].type \in Automatic /\ jobs[i].type = jobs[j].type
        /\ jobs[i].champion = jobs[j].champion
    BY <2>1, FailedStays
  <2> QED
    BY <2>2 DEF EpisodeInv, OneRunPerEpisode, InStatus
<1> QED
  BY <1>2, <1>3 DEF EpisodeInv

\* Only an insertion adds a job.
LEMMA RowsStay ==
  ASSUME TypeInv, [Next]_vars, ~\E r \in RSessions : Request(r)
  PROVE  Rows' = Rows /\ UNCHANGED requester
<1>1. ASSUME NEW w \in Workers, WorkerStep(w) \/ WorkerCrash(w) PROVE Rows' = Rows /\ UNCHANGED requester
  <2>1. UNCHANGED requester
    BY <1>1 DEF WorkerStep, Start, Requeue, Claim, Train, TrainFails, Complete, CompleteAnswerLost,
                CompleteFails, RecordFailure, RecordFailureFails, WorkerCrash
  <2>2. CASE Start(w) \/ TrainFails(w) \/ CompleteFails(w) \/ RecordFailureFails(w) \/ WorkerCrash(w)
             \/ \E v \in Versions : Train(w, v)
    BY <2>1, <2>2 DEF Start, TrainFails, CompleteFails, RecordFailureFails, WorkerCrash, Train, database, Rows
  <2>3. CASE Requeue(w)
    <3>1. /\ worker[w].found \in SUBSET Rows
          /\ jobs' = [j \in Jobs |-> IF j \in worker[w].found
                                     THEN [jobs[j] EXCEPT !.status = "QUEUED"] ELSE jobs[j]]
      BY <2>3 DEF Requeue, TypeInv, WorkerShape
    <3> QED
      BY <2>1, <3>1, StatusTypes DEF Statuses
  <2>4. CASE (\E j \in Jobs : Claim(w, j)) \/ RecordFailure(w)
    <3>1. PICK j \in Rows, status \in Statuses : SetStatus(j, status)
      BY <2>4 DEF Claim, InStatus, RecordFailure, TypeInv, WorkerShape, Statuses
    <3> QED
      BY <2>1, <3>1, OneStatusTypes
  <2>5. CASE \E passed \in BOOLEAN : Complete(w, passed) \/ CompleteAnswerLost(w, passed)
    <3>1. PICK passed \in BOOLEAN : StoreChallenger(w, passed) /\ worker[w].pc = "finish"
      BY <2>5 DEF Complete, CompleteAnswerLost
    <3> QED
      BY <2>1, <3>1, ChallengerTypes
  <2> QED
    BY <1>1, <2>2, <2>3, <2>4, <2>5 DEF WorkerStep
<1>2. ASSUME NEW p \in Promoters, Promote(p) PROVE Rows' = Rows /\ UNCHANGED requester
  <2>1. UNCHANGED requester
    BY <1>2 DEF Promote, PromotedBefore, CheckJob, ReadAlias, SetAlias, SetAliasAnswerLost, QueryChampions,
                CommitPromotion, CommitRaises, Undo, PromoterCrash
  <2>2. CASE (\E j \in Jobs : PromotedBefore(p, j)) \/ CommitPromotion(p)
    <3>1. PICK j \in Rows, status \in Statuses : SetStatus(j, status)
      BY <2>2 DEF PromotedBefore, CommitPromotion, TypeInv, PromoterShape, Statuses
    <3> QED
      BY <2>1, <3>1, OneStatusTypes
  <2>3. CASE ~((\E j \in Jobs : PromotedBefore(p, j)) \/ CommitPromotion(p))
    BY <1>2, <2>1, <2>3 DEF Promote, CheckJob, ReadAlias, SetAlias, SetAliasAnswerLost, QueryChampions,
                            CommitRaises, Undo, PromoterCrash, database, Rows
  <2> QED
    BY <2>2, <2>3
<1>3. CASE Deploy \/ UNCHANGED vars
  BY <1>3 DEF Deploy, vars, database, Rows
<1> QED
  BY <1>1, <1>2, <1>3 DEF Next

LEMMA EpisodeStep == ASSUME TypeInv, LifeInv, EpisodeInv, [Next]_vars PROVE EpisodeInv'
<1>1. JobsKept
  BY LifeStep
<1>2. ASSUME NEW r \in RSessions, NEW type \in Types, SelectActive(r, type) PROVE EpisodeInv'
  <2>1. /\ requester'[r] = [pc |-> "insert", type |-> type, champion |-> Champion(r)]
        /\ \A q \in RSessions : q # r => requester'[q] = requester[q]
        /\ Active(type, Champion(r)) = {} /\ UNCHANGED jobs
    BY <1>2 DEF SelectActive, database, TypeInv, TypeOK
  <2>2. CASE type \in Automatic
    <3>1. \A j \in Rows : jobs[j].status \in Statuses
      BY RowTypes DEF JobRows
    <3>2. NoRun(type, Champion(r))
      BY <2>1, <2>2, <3>1 DEF NoRun, Active, InStatus, Deduplicated, Statuses
    <3> QED
      BY <1>1, <2>1, <3>2, EpisodeFrame DEF Rows
  <2>3. CASE type \notin Automatic
    <3>1. InsertInv'
      BY <2>1, <2>3 DEF EpisodeInv, InsertInv, NoRun, Rows
    <3>2. OneRunPerEpisode'
      BY <2>1 DEF EpisodeInv, OneRunPerEpisode, Rows, InStatus
    <3> QED
      BY <3>1, <3>2 DEF EpisodeInv
  <2> QED
    BY <2>2, <2>3
<1>3. ASSUME NEW r \in RSessions, NEW k \in Jobs, InsertJob(r, k) PROVE EpisodeInv'
  <2>1. /\ k \notin Rows /\ Rows' = Rows \cup {k}
        /\ jobs'[k].type = requester[r].type /\ jobs'[k].champion = requester[r].champion
        /\ requester[r].pc = "insert" /\ requester[r].type \in TypesOf(r)
        /\ requester'[r].pc = "idle"
        /\ \A q \in RSessions : q # r => requester'[q] = requester[q]
    BY <1>3, InsertKeeps DEF InsertJob, NoRequest, TypeInv, TypeOK, RequesterShape
  <2>2. requester[r].type \in Automatic =>
          /\ r = Monitor
          /\ \A j \in Rows : jobs[j].type = jobs'[k].type /\ jobs[j].champion = jobs'[k].champion =>
               jobs'[j].status = "FAILED"
    BY <1>1, <2>1, FailedStays DEF TypesOf, Automatic, EpisodeInv, InsertInv, NoRun
  <2>3. InsertInv'
    <3>1. SUFFICES ASSUME NEW q \in RSessions, requester'[q].pc = "insert", requester'[q].type \in Automatic,
                          NEW j \in Rows', jobs'[j].type = requester'[q].type,
                          jobs'[j].champion = requester'[q].champion
                   PROVE  jobs'[j].status = "FAILED"
      BY DEF InsertInv, NoRun
    <3>2. q # r /\ requester'[q] = requester[q] /\ requester[q].type \in TypesOf(q)
      BY <2>1, <3>1 DEF TypeInv, RequesterShape
    <3>3. q = Monitor
      BY <3>1, <3>2 DEF TypesOf, Automatic
    <3>4. j \in Rows
      BY <2>1, <2>2, <3>1, <3>2, <3>3
    <3> QED
      BY <1>1, <3>1, <3>2, <3>4, FailedStays DEF EpisodeInv, InsertInv, NoRun
  <2>4. OneRunPerEpisode'
    <3>1. SUFFICES ASSUME NEW i \in Rows', NEW j \in Rows', jobs'[i].status # "FAILED", jobs'[j].status # "FAILED",
                          jobs'[i].type \in Automatic, jobs'[i].type = jobs'[j].type,
                          jobs'[i].champion = jobs'[j].champion
                   PROVE  i = j
      BY DEF OneRunPerEpisode, InStatus
    <3>2. CASE i \in Rows /\ j \in Rows
      <4>1. /\ jobs[i].status # "FAILED" /\ jobs[j].status # "FAILED"
            /\ jobs[i].type \in Automatic /\ jobs[i].type = jobs[j].type
            /\ jobs[i].champion = jobs[j].champion
        BY <1>1, <3>1, <3>2, FailedStays
      <4> QED
        BY <3>2, <4>1 DEF EpisodeInv, OneRunPerEpisode, InStatus
    <3>3. CASE i = k /\ j \in Rows
      BY <1>1, <2>1, <2>2, <3>1, <3>3, FailedStays
    <3>4. CASE j = k /\ i \in Rows
      BY <1>1, <2>1, <2>2, <3>1, <3>4, FailedStays
    <3> QED
      BY <2>1, <3>1, <3>2, <3>3, <3>4
  <2> QED
    BY <2>3, <2>4 DEF EpisodeInv
<1>4. ASSUME NEW r \in RSessions, RequestRollsBack(r) PROVE EpisodeInv'
  <2>1. /\ requester'[r].pc = "idle" /\ UNCHANGED jobs
        /\ \A q \in RSessions : q # r => requester'[q] = requester[q]
    BY <1>4 DEF RequestRollsBack, NoRequest, database, TypeInv, TypeOK
  <2> QED
    BY <1>1, <2>1, EpisodeFrame DEF Rows
<1>5. ASSUME NEW r \in RSessions, ApiRestarts(r) PROVE EpisodeInv'
  BY <1>1, <1>5, EpisodeFrame DEF ApiRestarts, database, Rows
<1>6. CASE ~\E r \in RSessions : Request(r)
  BY <1>1, <1>6, RowsStay, EpisodeFrame
<1> QED
  BY <1>2, <1>3, <1>4, <1>5, <1>6 DEF Request

-----------------------------------------------------------------------------
(* The theorems                                                            *)

IInv == TypeInv /\ LifeInv /\ EpisodeInv

LEMMA InitIInv == OneWorker /\ AnswersArrive /\ Init => IInv
<1> SUFFICES ASSUME OneWorker, AnswersArrive, Init PROVE IInv
  OBVIOUS
<1>1. TypeInv
  BY InitTypes
<1>2. Rows = {} /\ \A j \in Jobs : audits[j] = None
  BY DEF Init, Rows
<1>3. WorkerInv /\ JobInv /\ PromoterInv /\ AuditIsTrue /\ ChampionPassedGates
  BY <1>2 DEF Init, WorkerInv, Down, JobInv, PromoterInv, PromotionInv, NoPromotion, AuditIsTrue,
              ChampionPassedGates
<1>4. EpisodeInv
  BY <1>2 DEF Init, EpisodeInv, InsertInv, NoRequest, OneRunPerEpisode, InStatus
<1> QED
  BY <1>1, <1>3, <1>4 DEF IInv, LifeInv

LEMMA NextIInv == IInv /\ [Next]_vars => IInv'
BY TypeStep, LifeStep, EpisodeStep DEF IInv

\* The invariant that carries the theorems holds where docker-compose's one worker
\* is the only one and the answers to its commits arrive.
THEOREM Invariance == OneWorker /\ AnswersArrive /\ Spec => []IInv
<1> QED
  BY InitIInv, NextIInv, PTL DEF Spec

\* With one worker, a job that has finished stays finished, through every crash and
\* recovery of the worker, as long as no answer to its commits is lost: jobs move
\* only along Moves.
THEOREM FinishedJobsStay == OneWorker /\ AnswersArrive /\ Spec => FinishedStaysFinished
<1>1. IInv /\ [Next]_vars =>
        [\A j \in Jobs : StatusOf(j)' # StatusOf(j) => <<StatusOf(j), StatusOf(j)'>> \in Moves]_vars
  <2> SUFFICES ASSUME IInv, [Next]_vars, NEW j \in Jobs, StatusOf(j)' # StatusOf(j)
               PROVE  <<StatusOf(j), StatusOf(j)'>> \in Moves
    OBVIOUS
  <2>1. JobsKept
    BY LifeStep DEF IInv
  <2>2. CASE j \in Rows
    BY <2>1, <2>2 DEF JobsKept, Kept, StatusOf, Rows
  <2>3. CASE j \notin Rows
    BY <2>1, <2>3 DEF JobsKept, StatusOf, Rows, Moves
  <2> QED
    BY <2>2, <2>3
<1> QED
  BY <1>1, Invariance, PTL DEF Spec, FinishedStaysFinished

\* One champion and one automatic trigger start at most one run that does not fail,
\* although the job table has no key to that effect.
THEOREM EpisodesRunOnce == OneWorker /\ AnswersArrive /\ Spec => []OneRunPerEpisode
<1>1. IInv => OneRunPerEpisode
  BY DEF IInv, EpisodeInv
<1> QED
  BY <1>1, Invariance, PTL

\* However many administrators promote one job at once, its audit row names what
\* the job trained, and the job had passed its gates.
THEOREM AuditsAreTrue == OneWorker /\ AnswersArrive /\ Spec => []AuditIsTrue
<1>1. IInv => AuditIsTrue
  BY DEF IInv, LifeInv
<1> QED
  BY <1>1, Invariance, PTL

\* Whatever call of a promotion fails, is lost or is undone, the champion is the
\* first model or a challenger that passed its gates.
THEOREM ChampionsPassedGates == OneWorker /\ AnswersArrive /\ Spec => []ChampionPassedGates
<1>1. IInv => ChampionPassedGates
  BY DEF IInv, LifeInv
<1> QED
  BY <1>1, Invariance, PTL
=============================================================================
