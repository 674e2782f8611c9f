--------------------------- MODULE MCRttClusters ---------------------------
(***************************************************************************)
(* RttClusters for TLC: a backlog of at most three samples and a handful   *)
(* of round-trip times.                                                    *)
(***************************************************************************)
EXTENDS RttClusters

\* floor(e^n) for the round-trip times the instances use.
MCExp(n) == CASE n = 0 -> 1 [] n = 1 -> 2 [] n = 2 -> 7 [] n = 3 -> 20 [] OTHER -> 10^9
=============================================================================
