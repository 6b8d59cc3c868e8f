----------------------------- MODULE TrainingRun -----------------------------
(***************************************************************************)
(* The training of challengers: candidates are fitted on the train slice   *)
(* and compared on the selection slice, the best one is refitted on both,  *)
(* calibrated, given its thresholds, tested, written to disk and           *)
(* registered.  A run may fail at any point and be repeated, as the        *)
(* retraining worker does with an interrupted job; the files are the same. *)
(*                                                                         *)
(* Models and metrics are left out: a model gives rows any probabilities,  *)
(* an evaluation has any PR-AUC.                                           *)
(***************************************************************************)
EXTENDS TrainingPolicy

CONSTANTS
  Frame,      \* the rows by time: [fraud, amount]
  Baselines,  \* number of baseline candidates
  Families,   \* number of tuned tree families
  Trials,     \* trials for each family
  Outputs,    \* probabilities a model may give
  PrAucs,     \* PR-AUCs an evaluation may have
  MaxRuns     \* bound on the repetitions

ASSUME TrainingAssumption ==
  /\ Frame \in Seq([fraud : BOOLEAN, amount : Nat])
  /\ {Baselines, Families, Trials} \subseteq Nat \ {0}
  /\ Outputs \subseteq 0 .. 100 /\ PrAucs \subseteq Nat /\ MaxRuns \in Nat

Size == Len(Frame)
Rows(name) == Slice(Size, name)

\* Rows are numbered from 0, as the program does.
Labelled(name, p) ==
  [i \in Rows(name) |-> [fraud |-> Frame[i + 1].fraud, amount |-> Frame[i + 1].amount, p |-> p[i]]]

VARIABLES
  run,        \* the run that is on, or the last one
  phase,
  results,    \* evaluation of each candidate on the selection slice, in order
  trials,     \* those of the family that is being tuned
  fitted,     \* the rows the model in hand has seen
  uses,       \* what models were evaluated for: [for, fitted, on]
  thresholds,
  tested,     \* the rows of the test slice with their probabilities
  artifact, report, alias  \* the run they stem from; 0: none

memory == <<phase, results, trials, fitted, uses, thresholds, tested>>
disk   == <<artifact, report, alias>>
vars   == <<run, memory, disk>>

Results == [cost : Nat \cup {Infinite}, prAuc : PrAucs]

Candidates == Baselines + Families

Phases == {"idle", "baseline", "tune", "refit", "calibrate", "threshold", "test",
           "dump", "report", "register", "done", "failed"}

TypeOK ==
  /\ run \in 0 .. MaxRuns
  /\ phase \in Phases
  /\ results \in Seq(Results) /\ Len(results) <= Candidates
  /\ trials \in Seq(Results) /\ Len(trials) <= Trials
  /\ fitted \subseteq 0 .. Size - 1
  /\ thresholds.review < thresholds.block
  /\ {artifact, report, alias} \subseteq 0 .. run

Fresh ==
  /\ results' = <<>> /\ trials' = <<>> /\ fitted' = {} /\ uses' = {}
  /\ thresholds' = Default /\ tested' = <<>>

Init ==
  /\ run = 0 /\ phase = "idle"
  /\ results = <<>> /\ trials = <<>> /\ fitted = {} /\ uses = {}
  /\ thresholds = Default /\ tested = <<>>
  /\ artifact = 0 /\ report = 0 /\ alias = 0

-----------------------------------------------------------------------------

\* A first run, or one that repeats a run that was cut off.
Start ==
  /\ phase \in {"idle", "failed"} /\ run < MaxRuns
  /\ run' = run + 1 /\ phase' = "baseline"
  /\ Fresh
  /\ UNCHANGED disk

\* What an evaluation on the selection slice may come to.
Evaluations(name) ==
  {[cost |-> OptimalThresholds(Labelled(name, p)).cost, prAuc |-> a] :
     p \in [Rows(name) -> Outputs], a \in PrAucs}

Use(purpose, model, name) == [for |-> purpose, fitted |-> model, on |-> Rows(name)]

\* A baseline is fitted and evaluated.
Baseline ==
  /\ phase = "baseline" /\ Len(results) < Baselines
  /\ \E r \in Evaluations("selection") : results' = Append(results, r)
  /\ uses' = uses \cup {Use("select", Rows("train"), "selection")}
  /\ phase' = IF Len(results') = Baselines THEN "tune" ELSE "baseline"
  /\ UNCHANGED <<run, trials, fitted, thresholds, tested, disk>>

\* One trial of the family being tuned.
Trial ==
  /\ phase = "tune" /\ Len(trials) < Trials
  /\ \E r \in Evaluations("selection") : trials' = Append(trials, r)
  /\ uses' = uses \cup {Use("tune", Rows("train"), "selection")}
  /\ UNCHANGED <<run, phase, results, fitted, thresholds, tested, disk>>

\* The family's best trial is fitted again (the seeds are fixed: to the same
\* result) and joins the candidates.
Tuned ==
  /\ phase = "tune" /\ Len(trials) = Trials
  /\ results' = Append(results, trials[FirstBest(trials)])
  /\ trials' = <<>>
  /\ phase' = IF Len(results') = Candidates THEN "refit" ELSE "tune"
  /\ UNCHANGED <<run, fitted, uses, thresholds, tested, disk>>

\* The best candidate is fitted on the first two slices.
Refit ==
  /\ phase = "refit" /\ phase' = "calibrate"
  /\ fitted' = Rows("train") \cup Rows("selection")
  /\ UNCHANGED <<run, results, trials, uses, thresholds, tested, disk>>

Calibrate ==
  /\ phase = "calibrate" /\ phase' = "threshold"
  /\ uses' = uses \cup {Use("calibrate", fitted, "calibration")}
  /\ fitted' = fitted \cup Rows("calibration")
  /\ UNCHANGED <<run, results, trials, thresholds, tested, disk>>

\* Mutant of Threshold: the thresholds are tuned on the test slice.
ThresholdOnTest ==
  /\ phase = "threshold" /\ phase' = "test"
  /\ \E p \in [Rows("test") -> Outputs] :
       thresholds' = OptimalThresholds(Labelled("test", p))
  /\ uses' = uses \cup {Use("threshold", fitted, "test")}
  /\ UNCHANGED <<run, results, trials, fitted, tested, disk>>

Threshold ==
  /\ phase = "threshold" /\ phase' = "test"
  /\ \E p \in [Rows("threshold") -> Outputs] :
       thresholds' = OptimalThresholds(Labelled("threshold", p))
  /\ uses' = uses \cup {Use("threshold", fitted, "threshold")}
  /\ UNCHANGED <<run, results, trials, fitted, tested, disk>>

Test ==
  /\ phase = "test" /\ phase' = "dump"
  /\ \E p \in [Rows("test") -> Outputs] : tested' = Labelled("test", p)
  /\ uses' = uses \cup {Use("test", fitted, "test")}
  /\ UNCHANGED <<run, results, trials, fitted, thresholds, disk>>

\* The artifact, with rows of the calibration slice and the probabilities of some
\* of them, which the drift monitor starts from.
Dump ==
  /\ phase = "dump" /\ phase' = "report"
  /\ artifact' = run
  /\ UNCHANGED <<run, results, trials, fitted, uses, thresholds, tested, report, alias>>

\* Mutant of WriteReport: a report that is there already stays.
WriteReportOnce ==
  /\ phase = "report" /\ phase' = "register"
  /\ report' = IF report = 0 THEN run ELSE report
  /\ UNCHANGED <<run, results, trials, fitted, uses, thresholds, tested, artifact, alias>>

WriteReport ==
  /\ phase = "report" /\ phase' = "register"
  /\ report' = run
  /\ UNCHANGED <<run, results, trials, fitted, uses, thresholds, tested, artifact, alias>>

\* With a tracking server: both files and the model are logged, the model is
\* registered, with the model's answers to five rows as its example, and aliased
\* challenger; the report is written again, with the registered version.
Register ==
  /\ phase = "register" /\ phase' = "done"
  /\ alias' = run
  /\ UNCHANGED <<run, results, trials, fitted, uses, thresholds, tested, artifact, report>>

\* The tracking server moved the alias, but the run ends before it can say so.
RegisterCutOff ==
  /\ phase = "register" /\ phase' = "failed"
  /\ alias' = run
  /\ Fresh
  /\ UNCHANGED <<run, artifact, report>>

\* Something raises, or the process dies.
Fail ==
  /\ phase \notin {"idle", "done", "failed"}
  /\ phase' = "failed"
  /\ Fresh
  /\ UNCHANGED <<run, disk>>

Next ==
  \/ Start \/ Baseline \/ Trial \/ Tuned \/ Refit \/ Calibrate \/ Threshold \/ Test
  \/ Dump \/ WriteReport \/ Register \/ RegisterCutOff \/ Fail

Spec == Init /\ [][Next]_vars

-----------------------------------------------------------------------------
(* Properties                                                              *)

\* "chronological splits" (README.md:68) and the "single untouched final
\* evaluation" (train.py:323): nothing is evaluated, calibrated or tuned on rows
\* that are not all later than the rows its model was fitted on, no model in hand
\* has seen a row of the test slice, and that slice is evaluated on for nothing
\* but the test.  Uses are evaluations and fits: what Dump and Register let the
\* model predict only describes it.
NoLookAhead ==
  /\ \A u \in uses : \A i \in u.fitted, j \in u.on : i < j
  /\ fitted \cap Rows("test") = {}
  /\ \A u \in uses : u.on \cap Rows("test") # {} => u.for = "test"

\* The monitor and the trainer reckon the same cost: had production decided the
\* test slice by the thresholds of the artifact, the delayed assessment
\* (lifecycle.py:116-125) would come to the cost that the report gives as reference.
MonitorAgreesWithTrainer ==
  LET decisions == [i \in DOMAIN tested |->
                      CASE tested[i].p >= thresholds.block -> "BLOCK"
                        [] tested[i].p < thresholds.review -> "APPROVE"
                        [] OTHER -> "MANUAL_REVIEW"]
  IN  DelayedCost(tested, decisions) = ExpectedCost(tested, thresholds.review, thresholds.block)

\* A registered challenger has its report, and a report its artifact, or newer
\* ones, whatever runs were cut off where; and a run that ends well leaves all
\* three of its own, so that what is promoted is what was measured.
FilesBeforeAlias ==
  /\ alias <= report /\ report <= artifact
  /\ phase = "done" => artifact = run /\ alias = run
=============================================================================
