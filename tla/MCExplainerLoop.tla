--------------------------- MODULE MCExplainerLoop ---------------------------
(***************************************************************************)
(* ExplainerLoop on a small instance: the cfg file gives the constants.    *)
(***************************************************************************)
EXTENDS ExplainerLoop, TLC
=============================================================================
