----------------------------- MODULE MCCaseDesk -----------------------------
(***************************************************************************)
(* CaseDesk on a small instance: the cfg file gives the constants.         *)
(***************************************************************************)
EXTENDS CaseDesk, TLC

DeskSymmetry == Permutations(Analysts) \cup Permutations(Txns)
=============================================================================
