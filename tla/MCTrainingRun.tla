---------------------------- MODULE MCTrainingRun ----------------------------
(***************************************************************************)
(* TrainingRun on a small instance: 13 rows, every other one fraud, so     *)
(* that each slice has a row, and selection, threshold and test have two,  *)
(* one of them fraud.                                                      *)
(***************************************************************************)
EXTENDS TrainingRun

MCFrame == [i \in 1 .. 13 |-> [fraud |-> i % 2 = 0, amount |-> 10 * i]]
=============================================================================
