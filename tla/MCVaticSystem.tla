--------------------------- MODULE MCVaticSystem ---------------------------
(***************************************************************************)
(* VaticSystem for TLC: one- and two-byte packets in a window of two to    *)
(* seven bytes, a few packets, a clock of one or two ticks.                *)
(***************************************************************************)
EXTENDS VaticSystem

\* floor(e^n) for the round-trip times the instances use.
MCExp(n) == CASE n = 0 -> 1 [] n = 1 -> 2 [] n = 2 -> 7 [] OTHER -> 10^9

MCRtts == 0 .. U32 - 1
=============================================================================
