------------------------------- MODULE RunMm2 -------------------------------
(***************************************************************************)
(* runmm2.py, which runs one experiment with the TCP programs and cleans   *)
(* up after itself with signals; script_runmm2.py, which runs it for every *)
(* configuration of a grid; and make_table.py, which makes a table of all  *)
(* results in a directory.                                                 *)
(* An operator X_bug is a wrong variant of X, see RttClusters.             *)
(***************************************************************************)
EXTENDS Machine

CONSTANTS
  TraceList,   \* trace_list and maxbw_list
  DelayList,   \* mmdelay_list
  FactorList,  \* bdpfactor_list
  BatchArgs    \* what the command line of the batch may say

ASSUME GridAssumption ==
  Len(TraceList) \in Nat /\ Len(DelayList) \in Nat /\ Len(FactorList) \in Nat

\* The name of a trace does not read like that of a shorter one with a time after it.
Readable(trace) ==
  /\ trace \in Seq([tag : STRING, val : Int])
  /\ Len(trace) > 1 => trace[2].tag \notin {"T", "Q"}

ASSUME TraceAssumption == \A i \in 1 .. Len(TraceList) : Readable(TraceList[i].name)

-----------------------------------------------------------------------------
(* The grid of the batch *)

Bdp(maxbw, delay) == maxbw * delay * 125
QSize(factor, bdp) == IF factor = None THEN None ELSE factor * bdp

Config(args, trace, delay, factor) ==
  [script |-> "runmm2", driver |-> "batch", dir |-> args.dir, trace |-> trace.name,
   mode |-> args.mode, ttr |-> args.ttr, blk |-> args.blk,
   q |-> QSize(factor, Bdp(trace.maxbw, delay)), delay |-> delay,
   save |-> TRUE, side |-> "sender", senders |-> 1]

\* Three nested loops.
Grid(args) ==
  LET nd == Len(DelayList)
      nf == Len(FactorList)
  IN [i \in 1 .. Len(TraceList) * nd * nf |->
        Config(args, TraceList[(i - 1) \div (nd * nf) + 1],
               DelayList[(((i - 1) \div nf) % nd) + 1], FactorList[((i - 1) % nf) + 1])]

BatchStart ==
  /\ pc = "idle"
  /\ \E args \in BatchArgs :
       /\ run + Len(Grid(args)) <= MaxRuns
       /\ left' = Grid(args)
  /\ pc' = "next"
  /\ UNCHANGED <<jobs, outcome, procVars, files, shown, interrupts>>

BatchNext ==
  /\ pc = "next"
  /\ IF left = <<>>
     THEN pc' = "idle" /\ UNCHANGED <<jobs, left>>
     ELSE pc' = "construct" /\ jobs' = Append(jobs, Head(left)) /\ left' = Tail(left)
  /\ UNCHANGED <<outcome, procVars, files, shown, interrupts>>

-----------------------------------------------------------------------------
(* One experiment *)

At(place) == pc = place /\ run > 0 /\ job.script = "runmm2"

Prefix(j) ==
  j.trace \o <<Word("T", j.ttr), Word("KiB", j.blk)>>
    \o Optional(j.q # None, "Q", j.q) \o Optional(j.delay > 0, "delay", j.delay)

Log(j) == File(j, Prefix(j), "uplink")
PcapS(j) == File(j, Prefix(j), "sender.pcap")
PcapR(j) == File(j, Prefix(j), "receiver.pcap")
Tput(j) == File(j, Prefix(j), "receiver_tput")
Rtt(j) == File(j, Prefix(j), "sender_RTT")
MmTput(j) == File(j, Prefix(j), "uplink_mmtput")

\* The batch constructs a simulation outside of its "try".
Construct ==
  /\ At("construct")
  /\ IF Cardinality(Modes(job)) > 1
     THEN /\ outcome' = [outcome EXCEPT ![run] = "failed"]
          /\ pc' = "idle" /\ left' = <<>>
     ELSE /\ pc' = IF job.driver = "batch" THEN "clean" ELSE "launch"
          /\ UNCHANGED <<outcome, left>>
  /\ UNCHANGED <<jobs, procVars, files, shown, interrupts>>

Cleaned_bug == {"ccp", "sender", "mm"}
Cleaned == {"ccp", "receiver", "innerReceiver", "sender", "mm"}

\* Five seconds are enough for what was killed to end.
CleanState ==
  /\ At("clean")
  /\ Kill(Cleaned)
  /\ Goto("control")
  /\ UNCHANGED <<files, shown, interrupts>>

RunCCP ==
  /\ At("control")
  /\ Start({"ccp"})
  /\ Goto("launch")
  /\ UNCHANGED <<files, shown, interrupts>>

Launch ==
  /\ At("launch")
  /\ Start({"dumpR", "receiver"})
  /\ Goto("link")
  /\ UNCHANGED <<files, shown, interrupts>>

Link ==
  /\ At("link")
  /\ Start({"mm"})
  /\ files' = Written(Log(job), run)
  /\ Goto("traffic")
  /\ UNCHANGED <<shown, interrupts>>

Traffic ==
  /\ At("traffic")
  /\ Start({"dumpS", "sender"})
  /\ Goto("wait")
  /\ UNCHANGED <<files, shown, interrupts>>

\* The shell behind the link sleeps for ttr seconds, enough for what was started
\* to come up or to be refused, and exits with the link.
Wait ==
  /\ At("wait")
  /\ \A p \in procs : RunOf(p) = run /\ Starting(p) => Kind(p) \in {"mm", "ccp"}
  /\ Gone({Own("mm")}) /\ UNCHANGED peer
  /\ Goto("kill")
  /\ UNCHANGED <<files, shown, interrupts>>

KillAll_bug ==
  /\ At("kill")
  /\ Kill({"sender", "receiver", "innerReceiver"})
  /\ Goto("extract")
  /\ UNCHANGED <<files, shown, interrupts>>

\* The patterns match processes of any run.
KillAll ==
  /\ At("kill")
  /\ Kill({"sender", "receiver", "innerReceiver", "dumpR", "dumpS"})
  /\ Goto("extract")
  /\ UNCHANGED <<files, shown, interrupts>>

\* tshark: without a connection the captures have nothing to show.
Extract ==
  /\ At("extract")
  /\ LET Shows(pcap) == IF peer[run] # 0 THEN Content(pcap) ELSE 0
     IN files' = Overwritten([file \in {Rtt(job), Tput(job)} |->
                                Shows(IF file = Rtt(job) THEN PcapS(job) ELSE PcapR(job))])
  /\ Goto("plot")
  /\ UNCHANGED <<procVars, shown, interrupts>>

\* The plot needs RTTs and a throughput, and a name that only --save-plot gives it.
\* The log of the link may still be one that cannot be averaged.
CanPlot == Content(Rtt(job)) # 0 /\ Content(Tput(job)) # 0 /\ job.save

Plot ==
  /\ At("plot") /\ CanPlot
  /\ files' = Written(MmTput(job), Content(Log(job)))
  /\ shown' =
       [shown EXCEPT ![run] = {Content(Log(job)), Content(Rtt(job)), Content(Tput(job))}]
  /\ Goto("unlink")
  /\ UNCHANGED <<procVars, interrupts>>

PlotFails_bug ==
  /\ At("plot")
  /\ Finish("ok")
  /\ UNCHANGED <<procVars, files, shown, interrupts>>
PlotFails ==
  /\ At("plot")
  /\ Finish("failed")
  /\ UNCHANGED <<procVars, files, shown, interrupts>>

Unlink ==
  /\ At("unlink")
  /\ files' = Without({PcapS(job), PcapR(job)})
  /\ Finish("ok")
  /\ UNCHANGED <<procVars, shown, interrupts>>

Mm2Interrupt == run > 0 /\ job.script = "runmm2" /\ Interrupt({"link", "traffic", "wait"})

Mm2Step ==
  \/ BatchNext \/ Construct \/ CleanState \/ RunCCP \/ Launch \/ Link \/ Traffic \/ Wait
  \/ KillAll \/ Extract \/ Plot \/ PlotFails \/ Unlink

Dumps(p) ==
  /\ LET j == jobs[RunOf(p)]
     IN Capture(p, IF Kind(p) = "dumpS" THEN PcapS(j) ELSE PcapR(j))

-----------------------------------------------------------------------------
(* generate_results_table: the names are split at '_' *)

RttFiles(dir) == {file \in DOMAIN files : file[1] = dir /\ file[3] = "sender_RTT"}
Words(file) == file[2] \o <<Word("sender", 0), Word("RTT", 0)>>
HasQ(file) == \E i \in 2 .. Len(file[2]) : file[2][i].tag = "Q"
TputOf(file) == <<file[1], file[2], "uplink_mmtput">>

\* One letter before the number of the duration, "delay" before that of the delay.
Parses(file) ==
  LET w == Words(file)
      delayAt == IF HasQ(file) THEN 5 ELSE 4
  IN /\ Len(w) > delayAt
     /\ w[2].tag \in {"T", "Q"} /\ w[delayAt].tag = "delay"
     /\ HasQ(file) => w[4].tag \in {"T", "Q"}

RowOf(file) ==
  LET w == Words(file)
  IN [trace |-> w[1], duration |-> w[2].val, blksize |-> w[3].val,
      qsize |-> IF HasQ(file) THEN w[4].val ELSE None,
      mmdelay |-> w[IF HasQ(file) THEN 5 ELSE 4].val,
      rtt |-> files[file], tput |-> files[TputOf(file)]]

\* A file that cannot be parsed, or without a second one, ends the script.
Rows(dir) ==
  IF \A file \in RttFiles(dir) : Parses(file) /\ Exists(TputOf(file))
  THEN {RowOf(file) : file \in RttFiles(dir)} ELSE {}
=============================================================================
