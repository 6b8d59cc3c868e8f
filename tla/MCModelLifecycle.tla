-------------------------- MODULE MCModelLifecycle --------------------------
(***************************************************************************)
(* ModelLifecycle on small instances: the cfg files give the constants.    *)
(***************************************************************************)
EXTENDS ModelLifecycle, TLC

\* Every fault but the failure of the failure handler, after which nothing but
\* a restart takes up the job.
Recoverable == FaultKinds \ {"failure_commit"}
\* Every fault but the lost answer to the commit that completes a job: it turns
\* a completed or promoted job into a failed one.
Answered    == FaultKinds \ {"complete_answer_lost"}

PromoterSymmetry == Permutations(Promoters)
=============================================================================
