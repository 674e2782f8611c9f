------------------------------- MODULE RunMm -------------------------------
(***************************************************************************)
(* runmm.py and runmm_multi.py: one experiment with the TCP programs,      *)
(* either of them behind the link; the scripts wait until both have ended. *)
(* The senders of one run are one process here, TcpExperiment has them     *)
(* apart.                                                                  *)
(***************************************************************************)
EXTENDS Machine

MmAt(place) == pc = place /\ run > 0 /\ job.script \in {"runmm", "multi"}

MmPrefix(j) ==
  j.trace \o <<Word("T", j.ttr), Word("KiB", j.blk)>> \o Optional(j.q # None, "Q", j.q)

LogName(side) == IF side = "receiver" THEN "downlink" ELSE "uplink"

\* The command of the link is made before runmm_multi.py changes the side.
LinkLog(j) == File(j, MmPrefix(j), LogName(j.side))
PlotLog(j) == File(j, MmPrefix(j), LogName(Side(j)))

MmConstruct ==
  /\ MmAt("construct")
  /\ IF Cardinality(Modes(job)) > 1 THEN Finish("failed") ELSE Goto("launch")
  /\ UNCHANGED <<procVars, files, shown, interrupts>>

MmLaunch ==
  /\ MmAt("launch")
  /\ IF Side(job) = "sender"
     THEN Start({"receiver"}) /\ UNCHANGED files
     ELSE Start({"mm", "innerReceiver"}) /\ files' = Written(LinkLog(job), run)
  /\ Goto("traffic")
  /\ UNCHANGED <<shown, interrupts>>

\* Nothing makes sure that the receiver has come up.
MmTraffic ==
  /\ MmAt("traffic")
  /\ IF Side(job) = "sender"
     THEN Start({"mm", "sender"}) /\ files' = Written(LinkLog(job), run)
     ELSE Start({"sender"}) /\ UNCHANGED files
  /\ Goto("waitSender")
  /\ UNCHANGED <<shown, interrupts>>

\* The link ends with the program behind it.
MmWaitSender ==
  /\ MmAt("waitSender")
  /\ Own("sender") \notin procs
  /\ Gone(IF Side(job) = "sender" THEN {Own("mm")} ELSE {}) /\ UNCHANGED peer
  /\ Goto("waitReceiver")
  /\ UNCHANGED <<files, shown, interrupts>>

MmWaitReceiver ==
  /\ MmAt("waitReceiver")
  /\ {Own("receiver"), Own("innerReceiver")} \intersect procs = {}
  /\ Gone({Own("mm")}) /\ UNCHANGED peer
  /\ Goto("plot")
  /\ UNCHANGED <<files, shown, interrupts>>

MmPlot ==
  /\ MmAt("plot")
  /\ \/ Finish("failed") /\ UNCHANGED shown
     \/ /\ Exists(PlotLog(job))
        /\ shown' = [shown EXCEPT ![run] = {Content(PlotLog(job))}]
        /\ Finish("ok")
  /\ UNCHANGED <<procVars, files, interrupts>>

MmInterrupt ==
  /\ run > 0 /\ job.script \in {"runmm", "multi"}
  /\ Interrupt({"traffic", "waitSender", "waitReceiver"})

MmStep ==
  MmConstruct \/ MmLaunch \/ MmTraffic \/ MmWaitSender \/ MmWaitReceiver \/ MmPlot
=============================================================================
