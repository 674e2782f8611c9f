---------------------------- MODULE MCExperiments ----------------------------
(***************************************************************************)
(* Experiments for TLC: a batch of two configurations, and runs by hand    *)
(* before and after it that use the same names.                            *)
(***************************************************************************)
EXTENDS Experiments

Trace == <<Word("LOW", 10)>>

Mm2Job(mode, delay) ==
  [script |-> "runmm2", driver |-> "hand", dir |-> "results", trace |-> Trace,
   mode |-> mode, ttr |-> 30, blk |-> 1, q |-> None, delay |-> delay,
   save |-> TRUE, side |-> "sender", senders |-> 1]

Job(script, side, senders) ==
  [Mm2Job("ttr", None) EXCEPT !.script = script, !.side = side, !.senders = senders]

MCHandJobs ==
  {Mm2Job("ttr", 5), [Mm2Job("ttr", 5) EXCEPT !.save = FALSE],
   Job("vatic", "sender", 1), [Job("vatic", "sender", 1) EXCEPT !.delay = 0],
   Job("runmm", "sender", 1), [Job("runmm", "receiver", 1) EXCEPT !.mode = "n"],
   Job("multi", "receiver", 2), Job("multi", "sender", 2)}

MCSwitchedJobs == {j \in MCHandJobs : j.script = "multi"}

MCTraceList == <<[name |-> Trace, maxbw |-> 2]>>
MCDelayList == <<5>>
MCFactorList == <<None, 1>>
MCBatchArgs ==
  {[dir |-> "results", mode |-> m, ttr |-> 30, blk |-> 1] : m \in {"ttr", "n"}}
=============================================================================
