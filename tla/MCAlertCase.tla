----------------------------- MODULE MCAlertCase -----------------------------
(***************************************************************************)
(* AlertCase on small instances: which requests arrive.                    *)
(***************************************************************************)
EXTENDS AlertCase, TLC

AllKinds == AllRequests

SessionSymmetry == Permutations(Sessions)
=============================================================================
