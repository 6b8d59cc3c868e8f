-------------------------- MODULE MCStreamPipeline --------------------------
(***************************************************************************)
(* StreamPipeline on small instances: the cfg files give the constants.    *)
(***************************************************************************)
EXTENDS StreamPipeline, TLC

CONSTANT T1
=============================================================================
