------------------------------ MODULE RunVatic ------------------------------
(***************************************************************************)
(* runmmVatic.py: one experiment with the Vatic server behind the link and *)
(* the client outside.  The server writes its logs when it ends; the       *)
(* script waits for that and plots them.                                   *)
(* An operator X_bug is a wrong variant of X, see RttClusters.             *)
(***************************************************************************)
EXTENDS Machine

VaticAt(place) == pc = place /\ run > 0 /\ job.script = "vatic"

\* The words of this prefix are separated by '-', and it does not tell the
\* sending time.
VaticPrefix(j) ==
  j.trace \o Optional(j.q # None, "Q", j.q) \o Optional(j.delay > 0, "delay", j.delay)

VaticLog(j) == File(j, VaticPrefix(j), "uplink")
\* The programs write to ./results, whatever --dir says.
Dat(j, name) == <<"results", VaticPrefix(j), name>>

\* mm-delay runs for a positive delay only, yet the address that the client
\* sends to depends on whether there is one at all.
AddressIsRight(j) == (j.delay # None) <=> (j.delay > 0)

VaticLaunch ==
  /\ VaticAt("construct")
  /\ Start({"mm"})
  /\ files' = Written(VaticLog(job), run)
  /\ Goto("client")
  /\ UNCHANGED <<shown, interrupts>>

VaticClient ==
  /\ VaticAt("client")
  /\ Start({"client"})
  /\ Goto("server")
  /\ UNCHANGED <<files, shown, interrupts>>

VaticServer_bug ==
  /\ VaticAt("server") /\ Own("client") \notin procs
  /\ Start({"server"})
  /\ Goto("communicate")
  /\ UNCHANGED <<files, shown, interrupts>>

VaticServer ==
  /\ VaticAt("server")
  /\ Start({"server"})
  /\ Goto("communicate")
  /\ UNCHANGED <<files, shown, interrupts>>

\* The destructor of Vatic writes the window and alpha, and the centroids if there
\* was an RTT; an exception in a thread ends the server without a log.
ServerEnds(p) ==
  /\ p \in procs /\ Kind(p) = "server"
  /\ LET j == jobs[RunOf(p)]
         Logs(names) == [file \in {Dat(j, name) : name \in names} |-> RunOf(p)]
     IN \/ UNCHANGED <<files, peer>>
        \/ files' = Overwritten(Logs({"cwnd", "alpha"})) /\ UNCHANGED peer
        \/ /\ AddressIsRight(j)
           /\ files' = Overwritten(Logs({"cwnd", "alpha", "centroids"}))
           /\ peer' = [peer EXCEPT ![RunOf(p)] = RunOf(p)]
  /\ Gone({p})

Communicate_bug ==
  /\ VaticAt("communicate")
  /\ Gone({Own("mm")}) /\ UNCHANGED peer
  /\ Goto("kill")
  /\ UNCHANGED <<files, shown, interrupts>>

\* The shell behind the link reads its input to the end, the server first.
Communicate ==
  /\ VaticAt("communicate")
  /\ Own("server") \notin procs
  /\ Gone({Own("mm")}) /\ UNCHANGED peer
  /\ Goto("kill")
  /\ UNCHANGED <<files, shown, interrupts>>

VaticKill ==
  /\ VaticAt("kill")
  /\ Kill({"server", "client", "mm"})
  /\ Goto("plotVatic")
  /\ UNCHANGED <<files, shown, interrupts>>

\* PlotVatic returns when one of the first two logs is missing; it does not test
\* for the third.
PlotVatic ==
  /\ VaticAt("plotVatic")
  /\ LET dats == {Dat(job, name) : name \in {"cwnd", "alpha", "centroids"}}
     IN CASE ~ (Exists(Dat(job, "cwnd")) /\ Exists(Dat(job, "alpha"))) ->
               Goto("plot") /\ UNCHANGED shown
          [] \A dat \in dats : Exists(dat) ->
               /\ Goto("plot")
               /\ shown' = [shown EXCEPT ![run] = @ \union {files[dat] : dat \in dats}]
          [] OTHER -> Finish("failed") /\ UNCHANGED shown
  /\ UNCHANGED <<procVars, files, interrupts>>

\* Four times, with bins of different widths.
VaticPlot ==
  /\ VaticAt("plot")
  /\ \/ Finish("failed") /\ UNCHANGED shown
     \/ Finish("ok") /\ shown' = [shown EXCEPT ![run] = @ \union {Content(VaticLog(job))}]
  /\ UNCHANGED <<procVars, files, interrupts>>

VaticInterrupt ==
  run > 0 /\ job.script = "vatic" /\ Interrupt({"client", "server", "communicate"})

VaticStep ==
  \/ VaticLaunch \/ VaticClient \/ VaticServer \/ Communicate
  \/ VaticKill \/ PlotVatic \/ VaticPlot
=============================================================================
