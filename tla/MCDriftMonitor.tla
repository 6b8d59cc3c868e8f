--------------------------- MODULE MCDriftMonitor ---------------------------
(***************************************************************************)
(* DriftMonitor on small instances.                                        *)
(***************************************************************************)
EXTENDS DriftMonitor

\* Nothing has shifted, or the amounts have.
AmountShifts == {{}, {"amount"}}

\* One metric of each kind: a PSI, the first distance, a later one.
AllShifts == AmountShifts \cup {{"country_js"}, {"channel_js"}}
=============================================================================
