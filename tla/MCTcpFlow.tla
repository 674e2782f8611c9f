----------------------------- MODULE MCTcpFlow -----------------------------
(***************************************************************************)
(* TcpFlow for TLC: seconds of two microseconds, so that the carry of      *)
(* timeval_subtract happens, a useconds_t that wraps at four and an int    *)
(* that wraps at eight.                                                    *)
(***************************************************************************)
EXTENDS TcpFlow

\* Microseconds of a whole second, and so many that a carry overflows.
MCJunkTimes == {[sec |-> 1, usec |-> 2], [sec |-> 0, usec |-> 17]}
=============================================================================
