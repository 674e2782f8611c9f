------------------------------ MODULE GenTrace ------------------------------
(***************************************************************************)
(* generate_trace.py: packets at random times, and a burst of probe lines  *)
(* at each multiple of a probe interval.  A packet brings at most one      *)
(* burst, so that the bursts fall behind where the packets have a gap.     *)
(* The random times are any that do not go back; times are in ms.          *)
(***************************************************************************)
EXTENDS Integers, Sequences, SequencesExt

CONSTANTS
  MaxPackets,  \* num_packets
  MaxGap,      \* of two packets, a bound
  Intervals,   \* probe[0]
  ProbeLength  \* probe[1]

ASSUME GenAssumption ==
  MaxPackets \in Nat /\ MaxGap \in Nat /\ Intervals \subseteq Nat \ {0} /\ ProbeLength \in Nat

VARIABLES
  interval, probePoint,  \* probe_interval, probe_point
  last,                  \* the time of the last packet
  widest,                \* history: the widest gap so far
  out                    \* ts_list_copy, the lines of the trace

genVars == <<interval, probePoint, last, widest, out>>

Probe(t) == [t |-> t, probe |-> TRUE]
Packet(t) == [t |-> t, probe |-> FALSE]
Packets == SelectSeq(out, LAMBDA line : ~line.probe)

\* The burst that is due before a packet at time t.
Burst(t) == IF t >= probePoint THEN [i \in 1 .. ProbeLength |-> Probe(probePoint)] ELSE <<>>

NextProbe(t) == IF t >= probePoint THEN probePoint + interval ELSE probePoint

Extended_bug(t) == Append(out, Packet(t)) \o Burst(t)
Extended(t) == Append(out \o Burst(t), Packet(t))

GenPacket ==
  /\ Len(Packets) < MaxPackets
  /\ \E gap \in 0 .. MaxGap :
       /\ out' = Extended(last + gap)
       /\ probePoint' = NextProbe(last + gap)
       /\ last' = last + gap
       /\ widest' = IF gap > widest THEN gap ELSE widest
  /\ UNCHANGED interval

GenInit ==
  /\ interval \in Intervals /\ probePoint = interval
  /\ last = 0 /\ widest = 0 /\ out = <<>>

-----------------------------------------------------------------------------
(* Properties *)

GenTypeOK ==
  /\ interval \in Nat \ {0} /\ probePoint \in Nat
  /\ last \in Nat /\ widest \in Nat
  /\ out \in Seq([t : Nat, probe : BOOLEAN])

InOrder == \A i, j \in 1 .. Len(out) : i < j => out[i].t <= out[j].t

\* gen_trace: the lines of the trace are in the order of their times as long as
\* no gap of the packets is wider than the probe interval.  (The sender takes
\* the difference of two lines for the time to sleep.)
ProbesInOrder == widest <= interval => InOrder
=============================================================================
