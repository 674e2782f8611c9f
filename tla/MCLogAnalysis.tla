---------------------------- MODULE MCLogAnalysis ----------------------------
(***************************************************************************)
(* LogAnalysis for TLC: logs long enough to jump over bins and to close an *)
(* interval late, with gaps of more than two intervals.                    *)
(***************************************************************************)
EXTENDS LogAnalysis
=============================================================================
