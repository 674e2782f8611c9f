-------------------------- MODULE MCTrafficSource --------------------------
(***************************************************************************)
(* TrafficSource for TLC: a packet of 16 bits takes four ticks, two, one   *)
(* or none, where a burst takes two; a block of three packets is not a     *)
(* whole number of bursts, and the buffer not one of packets.              *)
(***************************************************************************)
EXTENDS TrafficSource
=============================================================================
