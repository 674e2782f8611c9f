------------------------- MODULE ExperimentsProofs -------------------------
(***************************************************************************)
(* The experiment scripts, for every list of runs, grid and interrupt.     *)
(* Five arguments, each an invariant on top of the types:                  *)
(*  - ProcsInv: at each place of a script only certain processes of its    *)
(*    run can exist, and none but the controller after success;            *)
(*  - AloneInv: after the clean-up of the batch nothing of another run     *)
(*    listens or steers;                                                   *)
(*  - BatchInv: the runs of the batch so far and those to come are a grid; *)
(*  - LogsInv, ShownInv: which files are of the run under way, and who can *)
(*    still write to them;                                                 *)
(*  - RowsInv: a file of results has the name of the configuration of its  *)
(*    run, from which make_table.py reads that configuration back.         *)
(***************************************************************************)
EXTENDS Experiments, FiniteSetTheorems, TLAPS

-----------------------------------------------------------------------------
(* Types *)

BatchJobs == UNION {{Grid(args)[i] : i \in DOMAIN Grid(args)} : args \in BatchArgs}

\* A run is under way, or it is one of the past.
Mid == pc \notin {"idle", "next"}
Past(n) == n < run \/ ~Mid

\* The jobs done and to do, and what the batch leaves when it ends.
Queue ==
  /\ jobs \in Seq(HandJobs \union BatchJobs) /\ left \in Seq(BatchJobs)
  /\ run + Len(left) <= MaxRuns
  /\ Mid => run > 0
  /\ pc = "idle" \/ (Mid /\ ~InBatch(run)) => left = <<>>

\* A run has an outcome exactly when it is past.
Outcomes == \A n \in 1 .. MaxRuns : outcome[n] = "going" <=> n > run \/ (n = run /\ Mid)

\* Nobody was reached in a run that has not begun.
Unreached == \A n \in 1 .. MaxRuns : n > run => peer[n] = 0

TypeInv == TypeOK /\ Queue /\ Outcomes /\ Unreached

LEMMA GridIsSeq ==
  ASSUME NEW args \in BatchArgs  PROVE Grid(args) \in Seq(BatchJobs)
<1> DEFINE N == Len(TraceList) * Len(DelayList) * Len(FactorList)
<1>1. N \in Nat  BY GridAssumption
<1>2. DOMAIN Grid(args) = 1 .. N  BY DEF Grid
<1>3. \A i \in 1 .. N : Grid(args)[i] \in BatchJobs  BY <1>2 DEF BatchJobs
<1>4. Grid(args) = [i \in 1 .. N |-> Grid(args)[i]]  BY DEF Grid
<1> HIDE DEF N
<1>5. Grid(args) \in [1 .. N -> BatchJobs]  BY <1>3, <1>4
<1>6. QED  BY <1>1, <1>5

LEMMA BatchDriver ==
  ASSUME NEW j \in BatchJobs  PROVE j.driver = "batch" /\ j.script = "runmm2"
BY DEF BatchJobs, Grid, Config

LEMMA TypeInit == MachineInit => TypeInv
BY MachineAssumption
DEF MachineInit, TypeInv, TypeOK, Queue, Outcomes, Unreached, Mid, run, Runs, RunOf

\* The places where a user can interrupt.
Waiting ==
  pc \in {"link", "traffic", "wait", "client", "server", "communicate", "waitSender", "waitReceiver"}

\* What a step does to the script and its lists.
Moves == Mid /\ Mid' /\ run > 0 /\ UNCHANGED <<jobs, outcome, left>>
Finishes == Mid /\ run > 0 /\ \E result \in {"ok", "failed", "interrupted"} : Finish(result)
GivesUp ==
  /\ Mid /\ run > 0 /\ Cardinality(Modes(job)) > 1
  /\ outcome' = [outcome EXCEPT ![run] = "failed"]
  /\ pc' = "idle" /\ left' = <<>> /\ UNCHANGED jobs

LEMMA Control ==
  ASSUME [Next]_vars
  PROVE  UserRuns \/ BatchStart \/ BatchNext \/ Moves \/ Finishes \/ GivesUp \/ UNCHANGED scriptVars
<1>1. CASE Mm2Step
  BY <1>1
  DEF Mm2Step, Construct, CleanState, RunCCP, Launch, Link, Traffic, Wait, KillAll, Extract,
      Plot, PlotFails, Unlink, At, Goto, Moves, Finishes, GivesUp, Mid
<1>2. CASE VaticStep
  BY <1>2
  DEF VaticStep, VaticLaunch, VaticClient, VaticServer, Communicate, VaticKill, PlotVatic,
      VaticPlot, VaticAt, Goto, Moves, Finishes, Mid
<1>3. CASE MmStep
  BY <1>3
  DEF MmStep, MmConstruct, MmLaunch, MmTraffic, MmWaitSender, MmWaitReceiver, MmPlot, MmAt,
      Goto, Moves, Finishes, Mid
<1>4. CASE Mm2Interrupt \/ VaticInterrupt \/ MmInterrupt
  BY <1>4 DEF Mm2Interrupt, VaticInterrupt, MmInterrupt, Interrupt, Finishes, Mid
<1>5. CASE Background \/ Stopped \/ UNCHANGED vars
  BY <1>5 DEF Background, Stopped, vars, scriptVars
<1>6. QED  BY <1>1, <1>2, <1>3, <1>4, <1>5 DEF Next, Script

LEMMA QueueStep ==
  ASSUME TypeInv, [Next]_vars
  PROVE  /\ Queue' /\ Outcomes' /\ run' <= MaxRuns
         /\ outcome' \in [1 .. MaxRuns -> {"going", "ok", "failed", "interrupted"}]
         /\ run <= run' /\ \A n \in Runs : jobs'[n] = jobs[n]
<1> USE MachineAssumption
<1>1. /\ jobs \in Seq(HandJobs \union BatchJobs) /\ left \in Seq(BatchJobs)
      /\ run \in Nat /\ Len(left) \in Nat /\ run + Len(left) <= MaxRuns
      /\ outcome \in [1 .. MaxRuns -> {"going", "ok", "failed", "interrupted"}]
  BY DEF TypeInv, Queue, TypeOK, run
<1>2. CASE UserRuns
  <2>1. PICK j \in HandJobs : jobs' = Append(jobs, j)  BY <1>2 DEF UserRuns
  <2>2. run' = run + 1 /\ jobs'[run'] = j /\ jobs' \in Seq(HandJobs \union BatchJobs)
        /\ \A n \in Runs : jobs'[n] = jobs[n]
    BY <1>1, <2>1 DEF run, Runs
  <2>3. pc = "idle" /\ left = <<>> /\ pc' = "construct" /\ run < MaxRuns
        /\ UNCHANGED <<left, outcome>>
    BY <1>2 DEF UserRuns, TypeInv, Queue
  <2>4. Outcomes'  BY <1>1, <2>2, <2>3 DEF TypeInv, Outcomes, Mid
  <2>5. QED  BY <1>1, <2>2, <2>3, <2>4 DEF Queue, Mid
<1>3. CASE BatchStart
  <2>1. PICK args \in BatchArgs : run + Len(Grid(args)) <= MaxRuns /\ left' = Grid(args)
    BY <1>3 DEF BatchStart
  <2>2. left' \in Seq(BatchJobs)  BY <2>1, GridIsSeq
  <2>3. pc = "idle" /\ pc' = "next" /\ UNCHANGED <<jobs, outcome>>  BY <1>3 DEF BatchStart
  <2>4. UNCHANGED run  BY <2>3 DEF run
  <2>5. Outcomes'  BY <2>3, <2>4 DEF TypeInv, Outcomes, Mid
  <2>6. QED  BY <1>1, <2>1, <2>2, <2>3, <2>4, <2>5 DEF Queue, Mid
<1>4. CASE BatchNext /\ left = <<>>
  BY <1>1, <1>4 DEF BatchNext, TypeInv, Queue, Outcomes, Mid, run
<1>5. CASE BatchNext /\ left # <<>>
  <2>1. /\ pc = "next" /\ pc' = "construct" /\ jobs' = Append(jobs, Head(left))
        /\ left' = Tail(left) /\ UNCHANGED outcome
    BY <1>5 DEF BatchNext
  <2>2. Head(left) \in BatchJobs /\ Tail(left) \in Seq(BatchJobs)
        /\ Len(Tail(left)) = Len(left) - 1
    BY <1>1, <1>5
  <2>3. run' = run + 1 /\ jobs'[run'] = Head(left) /\ jobs' \in Seq(HandJobs \union BatchJobs)
        /\ \A n \in Runs : jobs'[n] = jobs[n]
    BY <1>1, <2>1, <2>2 DEF run, Runs
  <2>4. InBatch(run)'  BY <2>2, <2>3, BatchDriver DEF InBatch
  <2>5. Outcomes'  BY <1>1, <2>1, <2>2, <2>3 DEF TypeInv, Outcomes, Mid
  <2>6. left' \in Seq(BatchJobs) /\ run' + Len(left') <= MaxRuns /\ run' <= MaxRuns
    BY <1>1, <2>1, <2>2, <2>3
  <2>7. Queue'  BY <1>1, <2>1, <2>3, <2>4, <2>6 DEF Queue, Mid
  <2>8. run <= run' /\ UNCHANGED outcome  BY <1>1, <2>1, <2>3
  <2>9. \A n \in Runs : jobs'[n] = jobs[n]  BY <2>3
  <2>10. QED  BY <1>1, <2>5, <2>6, <2>7, <2>8, <2>9
<1>6. CASE Moves
  BY <1>1, <1>6 DEF Moves, TypeInv, Queue, Outcomes, InBatch, Mid, run
<1>7. CASE Finishes
  <2>1. PICK result \in {"ok", "failed", "interrupted"} : Finish(result)  BY <1>7 DEF Finishes
  <2>2. Mid /\ ~Mid' /\ run > 0 /\ UNCHANGED <<jobs, left, run>>
        /\ outcome' = [outcome EXCEPT ![run] = result]
        /\ pc' = IF InBatch(run) THEN "next" ELSE "idle"
    BY <1>7, <2>1 DEF Finishes, Finish, InBatch, job, Mid, run
  <2>3. Outcomes'  BY <1>1, <2>2 DEF TypeInv, Outcomes
  <2>4. Queue'  BY <1>1, <2>2 DEF TypeInv, Queue
  <2>5. QED  BY <1>1, <2>2, <2>3, <2>4
<1>8. CASE GivesUp
  <2>1. Mid /\ ~Mid' /\ run > 0 /\ UNCHANGED <<jobs, run>> /\ left' = <<>> /\ pc' = "idle"
        /\ outcome' = [outcome EXCEPT ![run] = "failed"]
    BY <1>8 DEF GivesUp, Mid, run
  <2>2. Outcomes'  BY <1>1, <2>1 DEF TypeInv, Outcomes
  <2>3. Queue'  BY <1>1, <2>1 DEF TypeInv, Queue
  <2>4. QED  BY <1>1, <2>1, <2>2, <2>3
<1>9. CASE UNCHANGED scriptVars
  BY <1>1, <1>9 DEF scriptVars, TypeInv, Queue, Outcomes, InBatch, Mid, run
<1>10. QED
  BY Control, <1>2, <1>3, <1>4, <1>5, <1>6, <1>7, <1>8, <1>9

\* What a step does to the processes.
Keeps == UNCHANGED procVars
Starts ==
  /\ run > 0 /\ up' = up /\ peer' = peer
  /\ \E kinds \in SUBSET {"ccp", "dumpR", "receiver", "mm", "dumpS", "sender", "client", "server",
                          "innerReceiver"} : procs' = procs \union {Own(k) : k \in kinds}
Fewer == procs' \subseteq procs \union {Ending(p) : p \in procs}
Removes == Fewer /\ up' \subseteq up \intersect procs' /\ UNCHANGED peer
Comes == procs' = procs /\ peer' = peer /\ \E p \in procs : up' = up \union {p}
Reaches ==
  \E p \in procs, q \in up :
    /\ Kind(p) = "sender" /\ <<"mm", RunOf(p)>> \in procs /\ q \in Reachable(p)
    /\ peer' = [peer EXCEPT ![RunOf(p)] = RunOf(q)]
    /\ procs' = procs /\ up' = up \union {p}
Closes ==
  \E p \in procs :
    /\ Kind(p) = "server" /\ Gone({p})
    /\ peer' = [peer EXCEPT ![RunOf(p)] = RunOf(p)]

\* Processes go, and clients are told to end.
LEMMA FewerProcs ==
  ASSUME Fewer, NEW p \in procs'
  PROVE  \/ p \in procs
         \/ /\ Kind(p) = "ending" /\ p = <<Kind(p), RunOf(p)>>
            /\ \E q \in procs : RunOf(q) = RunOf(p)
BY DEF Fewer, Ending, Kind, RunOf

LEMMA SignalledProcs ==
  ASSUME NEW ended, NEW told, Signalled(ended, told),
         \A p \in told : p \in procs /\ Kind(p) = "client"
  PROVE  /\ Fewer
         /\ \A p \in procs' : p \notin ended \/ Kind(p) = "ending"
<1>1. Fewer  BY DEF Signalled, Fewer
<1>2. \A p \in procs' : p \notin ended \/ Kind(p) = "ending"
  BY DEF Signalled, Ending, Kind
<1>3. QED  BY <1>1, <1>2

LEMMA KilledProcs ==
  ASSUME NEW kinds, Kill(kinds)
  PROVE  /\ Fewer
         /\ \A p \in procs' : Kind(p) \in kinds => Kind(p) \in {"server", "ending"}
         /\ "client" \notin kinds => procs' \subseteq procs
<1> DEFINE ended == OfKinds(kinds \ {"server", "client"})
           told == OfKinds(kinds \intersect {"client"})
<1>1. Signalled(ended, told)  BY DEF Kill
<1>2. \A p \in told : p \in procs /\ Kind(p) = "client"  BY DEF OfKinds
<1>3. procs' = (procs \ (ended \union told)) \union {Ending(p) : p \in told}
  BY <1>1 DEF Signalled
<1>4. "client" \notin kinds => told = {}  BY DEF OfKinds
<1>5. \A p \in procs' : Kind(p) \in kinds => Kind(p) \in {"server", "ending"}
  <2>1. SUFFICES ASSUME NEW p \in procs', Kind(p) \in kinds, Kind(p) # "ending"
                 PROVE  Kind(p) = "server"
    OBVIOUS
  <2>2. p \in procs /\ p \notin ended /\ p \notin told  BY <1>3, <2>1 DEF Ending, Kind
  <2>3. QED  BY <2>1, <2>2 DEF OfKinds
<1>6. "client" \notin kinds => procs' \subseteq procs  BY <1>3, <1>4
<1>7. Fewer  BY <1>1, <1>2, SignalledProcs
<1>8. QED  BY <1>5, <1>6, <1>7

LEMMA Signals ==
  ASSUME TypeInv, NEW ended, NEW told, Signalled(ended, told), UNCHANGED peer,
         \A p \in told : p \in procs /\ Kind(p) = "client"
  PROVE  Removes
<1>1. up \subseteq procs  BY DEF TypeInv, TypeOK
<1>2. Fewer  BY SignalledProcs
<1>3. up' \subseteq up \intersect procs'  BY <1>1 DEF Signalled
<1>4. QED  BY <1>2, <1>3 DEF Removes

LEMMA Kills ==
  ASSUME TypeInv, NEW kinds, Kill(kinds)
  PROVE  Removes
<1>1. \A p \in OfKinds(kinds \intersect {"client"}) : p \in procs /\ Kind(p) = "client"
  BY DEF OfKinds
<1>2. QED  BY <1>1, Signals DEF Kill

LEMMA Goes ==
  ASSUME TypeInv, NEW ended, Gone(ended), UNCHANGED peer
  PROVE  Removes
BY DEF Gone, Removes, Fewer, TypeInv, TypeOK

LEMMA Processes ==
  ASSUME TypeInv, [Next]_vars
  PROVE  Keeps \/ Starts \/ Removes \/ Comes \/ Reaches \/ Closes
<1>1. CASE Mm2Step
  <2>1. CASE CleanState \/ KillAll
    BY <2>1, Kills DEF CleanState, KillAll
  <2>2. CASE Wait
    BY <2>2, Goes DEF Wait
  <2>3. CASE ~(CleanState \/ KillAll \/ Wait)
    BY <1>1, <2>3
    DEF Mm2Step, BatchNext, Construct, RunCCP, Launch, Link, Traffic, Extract, Plot, PlotFails,
        Unlink, At, Start, Keeps, Starts
  <2>4. QED  BY <2>1, <2>2, <2>3
<1>2. CASE VaticStep
  <2>1. CASE VaticKill
    BY <2>1, Kills DEF VaticKill
  <2>2. CASE Communicate
    BY <2>2, Goes DEF Communicate
  <2>3. CASE ~(VaticKill \/ Communicate)
    BY <1>2, <2>3
    DEF VaticStep, VaticLaunch, VaticClient, VaticServer, PlotVatic, VaticPlot, VaticAt, Start,
        Keeps, Starts
  <2>4. QED  BY <2>1, <2>2, <2>3
<1>3. CASE MmStep
  <2>1. CASE MmWaitSender \/ MmWaitReceiver
    BY <2>1, Goes DEF MmWaitSender, MmWaitReceiver
  <2>2. CASE ~(MmWaitSender \/ MmWaitReceiver)
    BY <1>3, <2>2
    DEF MmStep, MmConstruct, MmLaunch, MmTraffic, MmPlot, MmAt, Start, Keeps, Starts
  <2>3. QED  BY <2>1, <2>2
<1>4. CASE Mm2Interrupt \/ VaticInterrupt \/ MmInterrupt
  <2>1. PICK places : Interrupt(places)
    BY <1>4 DEF Mm2Interrupt, VaticInterrupt, MmInterrupt
  <2>2. PICK ended, told :
          /\ Signalled(ended, told) /\ UNCHANGED peer
          /\ \A p \in told : p \in procs /\ Kind(p) = "client"
    BY <2>1 DEF Interrupt
  <2>3. QED  BY <2>2, Signals
<1>5. CASE Background
  <2>1. PICK p \in procs : Process(p)  BY <1>5 DEF Background
  <2>2. CASE Bind(p) \/ Dumps(p)
    BY <2>2 DEF Bind, Dumps, Capture, Comes
  <2>3. CASE Connect(p)
    BY <2>3, Goes DEF Connect, Starting, Reachable, Reaches
  <2>4. CASE Ends(p) \/ ServerEnds(p)
    BY <2>4, Goes DEF Ends, ServerEnds, Closes
  <2>5. QED  BY <2>1, <2>2, <2>3, <2>4 DEF Process
<1>6. CASE UserRuns \/ BatchStart \/ Stopped \/ UNCHANGED vars
  BY <1>6 DEF UserRuns, BatchStart, Stopped, vars, Keeps
<1>7. QED  BY <1>1, <1>2, <1>3, <1>4, <1>5, <1>6 DEF Next, Script

\* What a step does to the files.
LogStarts ==
  /\ run > 0
  /\ \/ pc = "link" /\ job.script = "runmm2" /\ files' = Written(Log(job), run)
     \/ pc = "construct" /\ job.script = "vatic" /\ files' = Written(VaticLog(job), run)
     \/ /\ pc \in {"launch", "traffic"} /\ job.script \in {"runmm", "multi"}
        /\ (pc = "traffic" <=> Side(job) = "sender") /\ files' = Written(LinkLog(job), run)
Captures(p) ==
  LET j == jobs[RunOf(p)]
  IN /\ p \in procs /\ Starting(p) /\ up' = up \union {p}
     /\ \/ Kind(p) = "dumpS" /\ files' = Written(PcapS(j), RunOf(p))
        \/ Kind(p) = "dumpR" /\ files' = Written(PcapR(j), RunOf(p))
ServerLogs(p, names) ==
  /\ p \in procs /\ Kind(p) = "server"
  /\ files' = Overwritten([file \in {Dat(jobs[RunOf(p)], name) : name \in names} |-> RunOf(p)])
  /\ names = {"cwnd", "alpha"} => peer' = peer

LEMMA FileWrites ==
  ASSUME [Next]_vars
  PROVE  \/ UNCHANGED files
         \/ LogStarts \/ Extract \/ Plot \/ Unlink
         \/ \E p \in procs : Captures(p)
         \/ \E p \in procs : \/ ServerLogs(p, {"cwnd", "alpha"})
                             \/ ServerLogs(p, {"cwnd", "alpha", "centroids"})
<1>1. CASE Mm2Step
  BY <1>1
  DEF Mm2Step, BatchNext, Construct, CleanState, RunCCP, Launch, Link, Traffic, Wait, KillAll,
      PlotFails, At, LogStarts
<1>2. CASE VaticStep
  BY <1>2
  DEF VaticStep, VaticLaunch, VaticClient, VaticServer, Communicate, VaticKill, PlotVatic,
      VaticPlot, VaticAt, LogStarts
<1>3. CASE MmStep
  BY <1>3
  DEF MmStep, MmConstruct, MmLaunch, MmTraffic, MmWaitSender, MmWaitReceiver, MmPlot, MmAt,
      LogStarts
<1>4. CASE Mm2Interrupt \/ VaticInterrupt \/ MmInterrupt
  BY <1>4 DEF Mm2Interrupt, VaticInterrupt, MmInterrupt, Interrupt
<1>5. CASE Background
  <2>1. PICK p \in procs : Process(p)  BY <1>5 DEF Background
  <2>2. CASE Bind(p) \/ Connect(p) \/ Ends(p)
    BY <2>2 DEF Bind, Connect, Ends
  <2>3. CASE Dumps(p)
    BY <2>3 DEF Dumps, Capture, Captures
  <2>4. CASE ServerEnds(p)
    BY <2>4 DEF ServerEnds, ServerLogs
  <2>5. QED  BY <2>1, <2>2, <2>3, <2>4 DEF Process
<1>6. CASE UserRuns \/ BatchStart \/ Stopped \/ UNCHANGED vars
  BY <1>6 DEF UserRuns, BatchStart, Stopped, vars
<1>7. QED  BY <1>1, <1>2, <1>3, <1>4, <1>5, <1>6 DEF Next, Script

LEMMA Shows ==
  ASSUME [Next]_vars
  PROVE  Plot \/ PlotVatic \/ VaticPlot \/ MmPlot \/ UNCHANGED shown
<1>1. CASE Script
  BY <1>1
  DEF Script, Mm2Step, BatchNext, Construct, CleanState, RunCCP, Launch, Link, Traffic, Wait,
      KillAll, Extract, PlotFails, Unlink, VaticStep, VaticLaunch, VaticClient, VaticServer,
      Communicate, VaticKill, MmStep, MmConstruct, MmLaunch, MmTraffic, MmWaitSender,
      MmWaitReceiver
<1>2. CASE Mm2Interrupt \/ VaticInterrupt \/ MmInterrupt
  BY <1>2 DEF Mm2Interrupt, VaticInterrupt, MmInterrupt, Interrupt
<1>3. CASE Background \/ UserRuns \/ BatchStart \/ Stopped \/ UNCHANGED vars
  BY <1>3 DEF Background, UserRuns, BatchStart, Stopped, vars
<1>4. QED  BY <1>1, <1>2, <1>3 DEF Next

-----------------------------------------------------------------------------
(* Types, continued *)

\* A file that is written keeps what it tells of, the others keep their content.
LEMMA WrittenFile ==
  ASSUME NEW file, NEW content, files' = Written(file, content)
  PROVE  /\ file \in DOMAIN files' /\ files'[file] = content
         /\ \A other : other # file =>
              /\ other \in DOMAIN files' <=> other \in DOMAIN files
              /\ other \in DOMAIN files => files'[other] = files[other]
BY DEF Written, Overwritten

LEMMA ProcsStep ==
  ASSUME TypeInv, [Next]_vars
  PROVE  /\ up' \subseteq procs' /\ \A p \in procs' : RunOf(p) \in Runs'
         /\ peer' \in [1 .. MaxRuns -> 0 .. run'] /\ Unreached'
<1>1. /\ run \in Nat /\ run' \in Nat /\ run <= run' /\ run' <= MaxRuns /\ MaxRuns \in Nat
      /\ up \subseteq procs /\ \A p \in procs : RunOf(p) \in 1 .. run
      /\ peer \in [1 .. MaxRuns -> 0 .. run] /\ Unreached
  BY QueueStep, MachineAssumption DEF TypeInv, Queue, TypeOK, Runs, run
<1>2. CASE Keeps
  BY <1>1, <1>2 DEF Keeps, procVars, Runs, Unreached
<1>3. CASE Starts
  BY <1>1, <1>3 DEF Starts, Runs, Unreached, Own, RunOf
<1>4. CASE Removes
  BY <1>1, <1>4, FewerProcs DEF Removes, Runs, Unreached
<1>5. CASE Comes
  BY <1>1, <1>5 DEF Comes, Runs, Unreached
<1>6. CASE Reaches
  <2>1. PICK p \in procs, q \in up :
          /\ peer' = [peer EXCEPT ![RunOf(p)] = RunOf(q)]
          /\ procs' = procs /\ up' = up \union {p}
    BY <1>6 DEF Reaches
  <2>2. RunOf(p) \in 1 .. run /\ RunOf(q) \in 1 .. run  BY <1>1
  <2>3. QED  BY <1>1, <2>1, <2>2 DEF Runs, Unreached
<1>7. CASE Closes
  <2>1. PICK p \in procs : Gone({p}) /\ peer' = [peer EXCEPT ![RunOf(p)] = RunOf(p)]
    BY <1>7 DEF Closes
  <2>2. RunOf(p) \in 1 .. run  BY <1>1
  <2>3. QED  BY <1>1, <2>1, <2>2 DEF Gone, Runs, Unreached
<1>8. QED  BY Processes, <1>2, <1>3, <1>4, <1>5, <1>6, <1>7

LEMMA FilesStep ==
  ASSUME TypeInv, [Next]_vars
  PROVE  /\ \A file \in DOMAIN files' : files'[file] \in 0 .. run'
         /\ shown' \in [1 .. MaxRuns -> SUBSET (0 .. run')]
<1>1. /\ run \in Nat /\ run' \in Nat /\ run <= run' /\ MaxRuns \in Nat /\ run' <= MaxRuns
      /\ \A file \in DOMAIN files : files[file] \in 0 .. run
      /\ \A p \in procs : RunOf(p) \in 0 .. run
      /\ shown \in [1 .. MaxRuns -> SUBSET (0 .. run)]
  BY QueueStep, MachineAssumption DEF TypeInv, Queue, TypeOK, Runs, run
<1>2. ASSUME NEW new, \A file \in DOMAIN new : new[file] \in 0 .. run, files' = Overwritten(new)
      PROVE  \A file \in DOMAIN files' : files'[file] \in 0 .. run'
  BY <1>1, <1>2 DEF Overwritten
<1>3. \A file : Content(file) \in 0 .. run  BY <1>1 DEF Content, Exists
<1>4. \A file \in DOMAIN files' : files'[file] \in 0 .. run'
  <2>1. CASE UNCHANGED files
    BY <1>1, <2>1
  <2>2. CASE LogStarts
    BY <1>1, <1>2, <2>2 DEF LogStarts, Written
  <2>3. CASE \E p \in procs : Captures(p)
    BY <1>1, <1>2, <2>3 DEF Captures, Written
  <2>4. CASE \E p \in procs : \/ ServerLogs(p, {"cwnd", "alpha"})
                              \/ ServerLogs(p, {"cwnd", "alpha", "centroids"})
    BY <1>1, <1>2, <2>4 DEF ServerLogs
  <2>5. CASE Extract
    <3> DEFINE new == [file \in {Rtt(job), Tput(job)} |->
                         IF peer[run] # 0
                         THEN Content(IF file = Rtt(job) THEN PcapS(job) ELSE PcapR(job)) ELSE 0]
    <3>1. files' = Overwritten(new)  BY <2>5 DEF Extract
    <3>2. \A file \in DOMAIN new : new[file] \in 0 .. run  BY <1>1, <1>3
    <3> HIDE DEF new
    <3>3. QED  BY <1>2, <3>1, <3>2
  <2>6. CASE Plot
    BY <1>1, <1>2, <1>3, <2>6 DEF Plot, Written
  <2>7. CASE Unlink
    BY <1>1, <2>7 DEF Unlink, Without
  <2>8. QED  BY FileWrites, <2>1, <2>2, <2>3, <2>4, <2>5, <2>6, <2>7
<1>5. shown' \in [1 .. MaxRuns -> SUBSET (0 .. run')]
  <2>1. CASE Plot
    <3>1. shown' =
            [shown EXCEPT ![run] = {Content(Log(job)), Content(Rtt(job)), Content(Tput(job))}]
      BY <2>1 DEF Plot
    <3>2. {Content(Log(job)), Content(Rtt(job)), Content(Tput(job))} \in SUBSET (0 .. run')
      BY <1>1, <1>3
    <3>3. \A n \in 1 .. MaxRuns : shown[n] \in SUBSET (0 .. run')  BY <1>1
    <3>4. QED  BY <1>1, <3>1, <3>2, <3>3
  <2>2. CASE PlotVatic
    BY <1>1, <2>2 DEF PlotVatic, Exists
  <2>3. CASE VaticPlot
    BY <1>1, <1>3, <2>3 DEF VaticPlot
  <2>4. CASE MmPlot
    BY <1>1, <1>3, <2>4 DEF MmPlot
  <2>5. QED  BY <1>1, Shows, <2>1, <2>2, <2>3, <2>4
<1>6. QED  BY <1>4, <1>5

LEMMA TypeStep ==
  ASSUME TypeInv, [Next]_vars  PROVE TypeInv'
<1>1. interrupts' \in 0 .. MaxInterrupts
  <2>1. CASE Mm2Interrupt \/ VaticInterrupt \/ MmInterrupt
    BY <2>1, MachineAssumption
    DEF Mm2Interrupt, VaticInterrupt, MmInterrupt, Interrupt, TypeInv, TypeOK
  <2>2. CASE Script
    BY <2>2
    DEF Script, Mm2Step, BatchNext, Construct, CleanState, RunCCP, Launch, Link, Traffic, Wait,
        KillAll, Extract, Plot, PlotFails, Unlink, VaticStep, VaticLaunch, VaticClient,
        VaticServer, Communicate, VaticKill, PlotVatic, VaticPlot, MmStep, MmConstruct,
        MmLaunch, MmTraffic, MmWaitSender, MmWaitReceiver, MmPlot, TypeInv, TypeOK
  <2>3. CASE Background \/ UserRuns \/ BatchStart \/ Stopped \/ UNCHANGED vars
    BY <2>3 DEF Background, UserRuns, BatchStart, Stopped, vars, TypeInv, TypeOK
  <2>4. QED  BY <2>1, <2>2, <2>3 DEF Next
<1>2. QED  BY <1>1, QueueStep, ProcsStep, FilesStep DEF TypeInv, TypeOK

\* The scripts work with what they were given: numbers of runs are numbers of runs that have
\* begun, processes that are up run, whatever a script leaves or a user interrupts.
THEOREM ScriptsTypeCorrect == Spec => []TypeOK
<1>1. TypeInv => TypeOK  BY DEF TypeInv
<1>2. QED  BY <1>1, TypeInit, TypeStep, PTL DEF Spec

-----------------------------------------------------------------------------
(* What a run has running, and what it leaves *)

\* What of its own a run has at each place of its script.
Only(kinds) == \A p \in procs : RunOf(p) = run => Kind(p) \in kinds
Mm2Own ==
  /\ pc \in {"construct", "clean", "control"} => Only({})
  /\ pc \in {"launch", "extract", "plot", "unlink"} => Only({"ccp"})
  /\ pc = "link" => Only({"ccp", "dumpR", "receiver"})
  /\ pc = "traffic" => Only({"ccp", "dumpR", "receiver", "mm"})
  /\ pc = "wait" => Only({"ccp", "dumpR", "receiver", "mm", "dumpS", "sender"})
  /\ pc = "kill" => Only({"ccp", "dumpR", "receiver", "dumpS", "sender"})
VaticOwn ==
  /\ pc = "construct" => Only({})
  /\ pc \in {"plotVatic", "plot"} => Only({"ending"})
  /\ pc = "client" => Only({"mm"})
  /\ pc = "server" => Only({"mm", "client"})
  /\ pc = "communicate" => Only({"mm", "client", "server"})
  /\ pc = "kill" => Only({"client"})
MmOwn ==
  /\ pc \in {"construct", "launch", "plot"} => Only({})
  /\ pc = "traffic" => Only({"mm", "receiver", "innerReceiver"})
  /\ pc = "waitSender" => Only({"mm", "receiver", "innerReceiver", "sender"})
  /\ pc = "waitReceiver" => Only({"mm", "receiver", "innerReceiver"})
OwnProcs == Mid =>
  /\ job.script = "runmm2" => Mm2Own
  /\ job.script = "vatic" => VaticOwn
  /\ job.script \in {"runmm", "multi"} => MmOwn

\* Only an interrupted run leaves more than a controller or a client that is about to end,
\* and never its link.
Leftovers ==
  \A p \in procs :
    Past(RunOf(p)) /\ Kind(p) \notin {"ccp", "ending"} => outcome[RunOf(p)] = "interrupted"
LinksEnd == \A p \in procs : Kind(p) = "mm" => RunOf(p) = run /\ Mid

\* Which script starts what.
ByScript ==
  \A p \in procs :
    LET script == jobs[RunOf(p)].script
    IN /\ Kind(p) \in {"dumpS", "dumpR"} => script = "runmm2"
       /\ Kind(p) = "server" => script = "vatic"
       /\ Kind(p) = "sender" => script # "vatic"

Pairs == \A p \in procs : p = <<Kind(p), RunOf(p)>>

ProcsInv == OwnProcs /\ Leftovers /\ LinksEnd /\ ByScript /\ Pairs

\* A run that begins has nothing running.
LEMMA NewRun ==
  ASSUME TypeInv, ProcsInv, [Next]_vars, ~Mid, pc' = "construct", run' = run + 1,
         UNCHANGED <<procs, outcome>>
  PROVE  ProcsInv'
<1>1. run \in Nat /\ \A n \in 1 .. run : jobs'[n] = jobs[n]
  BY QueueStep DEF TypeInv, Queue, Runs, run
<1>2. \A p \in procs : RunOf(p) \in 1 .. run  BY DEF TypeInv, TypeOK, Runs
<1>3. Only({})'  BY <1>1, <1>2 DEF Only
<1>4. OwnProcs'  BY <1>3 DEF OwnProcs, Mm2Own, VaticOwn, MmOwn
<1>5. QED  BY <1>1, <1>2, <1>4 DEF ProcsInv, Leftovers, LinksEnd, ByScript, Pairs, Past, Mid

\* A run that ends has at most a controller running, or was interrupted without its link.
LEMMA EndedRun ==
  ASSUME TypeInv, ProcsInv, Mid, ~Mid', UNCHANGED jobs, Fewer, run > 0,
         NEW result, outcome' = [outcome EXCEPT ![run] = result],
         \/ Only({"ccp", "ending"})
         \/ result = "interrupted" /\ Own("mm") \notin procs'
  PROVE  ProcsInv'
<1>1. run \in Nat /\ run <= MaxRuns /\ MaxRuns \in Nat /\ UNCHANGED run
  BY MachineAssumption DEF TypeInv, Queue, TypeOK, run
<1>2. outcome \in [1 .. MaxRuns -> {"going", "ok", "failed", "interrupted"}]
  BY DEF TypeInv, TypeOK
<1>3. OwnProcs' /\ ByScript' /\ Pairs'  BY FewerProcs DEF OwnProcs, ProcsInv, ByScript, Pairs
<1>4. \A p \in procs : RunOf(p) \in 1 .. run  BY DEF TypeInv, TypeOK, Runs
<1>5. Leftovers'
  BY <1>1, <1>2, <1>4, FewerProcs DEF ProcsInv, Leftovers, Past, Only
<1>6. LinksEnd'
  <2>1. SUFFICES ASSUME NEW p \in procs', Kind(p) = "mm" PROVE FALSE  BY DEF LinksEnd
  <2>2. p \in procs /\ RunOf(p) = run  BY <2>1, FewerProcs DEF ProcsInv, LinksEnd
  <2>3. p = Own("mm")  BY <2>1, <2>2 DEF ProcsInv, Pairs, Own
  <2>4. QED  BY <2>1, <2>2, <2>3 DEF Only
<1>7. QED  BY <1>3, <1>5, <1>6 DEF ProcsInv

\* A step of a script that goes on: what it has of its own is all that changes.
LEMMA MovingRun ==
  ASSUME TypeInv, ProcsInv, Moves, OwnProcs',
         NEW kinds, procs' \subseteq procs \union {Own(k) : k \in kinds},
         {"dumpS", "dumpR"} \intersect kinds # {} => job.script = "runmm2",
         "server" \in kinds => job.script = "vatic",
         "sender" \in kinds => job.script # "vatic"
  PROVE  ProcsInv'
<1>1. UNCHANGED run  BY DEF Moves, run
<1>2. \A p \in procs' : p \in procs \/ \E k \in kinds : p = <<k, run>>  BY DEF Own
<1>3. Leftovers' /\ LinksEnd'
  BY <1>1, <1>2 DEF ProcsInv, Leftovers, LinksEnd, Moves, Past, Kind, RunOf, run
<1>4. ByScript'
  BY <1>1, <1>2 DEF ProcsInv, ByScript, Moves, Kind, RunOf, job
<1>5. Pairs'  BY <1>2 DEF ProcsInv, Pairs, Kind, RunOf
<1>6. QED  BY <1>3, <1>4, <1>5 DEF ProcsInv

LEMMA ShrinkingRun ==
  ASSUME TypeInv, ProcsInv, Moves, OwnProcs', Fewer
  PROVE  ProcsInv'
<1>1. UNCHANGED <<run, jobs, outcome, Mid>>  BY DEF Moves, run, Mid
<1>2. Leftovers' /\ LinksEnd'
  BY <1>1, FewerProcs DEF ProcsInv, Leftovers, LinksEnd, Past
<1>3. ByScript' /\ Pairs'
  BY <1>1, FewerProcs DEF ProcsInv, ByScript, Pairs
<1>4. QED  BY <1>2, <1>3 DEF ProcsInv

LEMMA Mm2Procs ==
  ASSUME TypeInv, ProcsInv, Mm2Step  PROVE ProcsInv'
<1>1. CASE BatchNext /\ left = <<>>
  BY <1>1
  DEF BatchNext, ProcsInv, OwnProcs, Leftovers, LinksEnd, ByScript, Pairs, Past, Mid, procVars, run
<1>2. CASE BatchNext /\ left # <<>>
  <2>1. run' = run + 1
    BY <1>2 DEF BatchNext, TypeInv, Queue, run
  <2>2. QED
    BY <1>2, <2>1, NewRun DEF BatchNext, Mid, procVars, Next, Script, Mm2Step
<1>3. CASE Construct
  <2>1. /\ run > 0 /\ Mid /\ Only({}) /\ UNCHANGED <<jobs, procs, run, job>>
        /\ job.script = "runmm2"
    BY <1>3 DEF Construct, At, ProcsInv, OwnProcs, Mm2Own, Mid, procVars, run, job
  <2>2. CASE GivesUp
    BY <2>1, <2>2, EndedRun DEF GivesUp, Mid, Only, Fewer
  <2>3. CASE ~GivesUp
    <3>1. Moves /\ pc' \in {"clean", "launch"}
      BY <1>3, <2>1, <2>3 DEF Construct, GivesUp, Moves, Mid
    <3>2. OwnProcs'
      BY <1>3, <2>1, <3>1 DEF Construct, At, OwnProcs, Mm2Own, Only
    <3>3. QED  BY <2>1, <3>1, <3>2, ShrinkingRun DEF Fewer
  <2>4. QED  BY <2>2, <2>3
<1>4. CASE CleanState \/ Wait \/ KillAll \/ Extract \/ Plot
  <2>1. run > 0 /\ Moves /\ job.script = "runmm2" /\ Mm2Own /\ UNCHANGED <<run, job>>
    BY <1>4
    DEF CleanState, Wait, KillAll, Extract, Plot, At, Goto, Moves, ProcsInv, OwnProcs, Mid,
        run, job
  <2>2. procs' \subseteq procs
    BY <1>4, KilledProcs DEF CleanState, Wait, KillAll, Extract, Plot, Gone, Cleaned, procVars
  <2>3. KillAll => \A p \in procs' :
                     Kind(p) \notin {"sender", "receiver", "innerReceiver", "dumpR", "dumpS"}
    BY KilledProcs DEF KillAll
  <2>4. Mm2Own'
    BY <1>4, <2>1, <2>2, <2>3
    DEF CleanState, Wait, KillAll, Extract, Plot, At, Goto, Mm2Own, Only, Gone, Own, ProcsInv,
        Pairs
  <2>5. QED  BY <2>1, <2>2, <2>4, ShrinkingRun DEF OwnProcs, Fewer
<1>5. CASE RunCCP \/ Launch \/ Link \/ Traffic
  <2>1. run > 0 /\ Moves /\ job.script = "runmm2" /\ Mm2Own /\ UNCHANGED <<run, job>>
    BY <1>5
    DEF RunCCP, Launch, Link, Traffic, At, Goto, Moves, ProcsInv, OwnProcs, Mid, run, job
  <2>2. PICK kinds : /\ procs' = procs \union {Own(k) : k \in kinds}
                     /\ \/ pc = "control" /\ pc' = "launch" /\ kinds = {"ccp"}
                        \/ pc = "launch" /\ pc' = "link" /\ kinds = {"dumpR", "receiver"}
                        \/ pc = "link" /\ pc' = "traffic" /\ kinds = {"mm"}
                        \/ pc = "traffic" /\ pc' = "wait" /\ kinds = {"dumpS", "sender"}
    BY <1>5 DEF RunCCP, Launch, Link, Traffic, At, Goto, Start
  <2>3. Mm2Own'
    BY <2>1, <2>2 DEF Mm2Own, Only, Own, Kind, RunOf
  <2>4. OwnProcs'  BY <2>1, <2>3 DEF OwnProcs
  <2>5. procs' \subseteq procs \union {Own(k) : k \in kinds} /\ "server" \notin kinds
    BY <2>2
  <2>6. QED  BY <2>1, <2>4, <2>5, MovingRun
<1>6. CASE PlotFails \/ Unlink
  <2>1. run > 0 /\ Mid /\ ~Mid' /\ Only({"ccp", "ending"}) /\ UNCHANGED <<jobs, procs>>
        /\ \E result : outcome' = [outcome EXCEPT ![run] = result]
    BY <1>6
    DEF PlotFails, Unlink, At, Finish, ProcsInv, OwnProcs, Mm2Own, Only, Mid, procVars
  <2>2. QED  BY <2>1, EndedRun DEF Fewer
<1>7. QED  BY <1>1, <1>2, <1>3, <1>4, <1>5, <1>6 DEF Mm2Step

LEMMA VaticProcs ==
  ASSUME TypeInv, ProcsInv, VaticStep  PROVE ProcsInv'
<1>1. run > 0 /\ Mid /\ job.script = "vatic" /\ VaticOwn /\ UNCHANGED <<jobs, run, job>>
  BY DEF VaticStep, VaticLaunch, VaticClient, VaticServer, Communicate, VaticKill, PlotVatic,
     VaticPlot, VaticAt, Goto, Finish, ProcsInv, OwnProcs, Mid, run, job
<1>2. CASE VaticLaunch \/ VaticClient \/ VaticServer
  <2>1. PICK kinds : /\ procs' = procs \union {Own(k) : k \in kinds}
                     /\ \/ pc = "construct" /\ pc' = "client" /\ kinds = {"mm"}
                        \/ pc = "client" /\ pc' = "server" /\ kinds = {"client"}
                        \/ pc = "server" /\ pc' = "communicate" /\ kinds = {"server"}
    BY <1>2 DEF VaticLaunch, VaticClient, VaticServer, VaticAt, Goto, Start
  <2>2. Moves  BY <1>1, <1>2, <2>1 DEF VaticLaunch, VaticClient, VaticServer, Goto, Moves, Mid
  <2>3. VaticOwn'  BY <1>1, <2>1 DEF VaticOwn, Only, Own, Kind, RunOf
  <2>4. OwnProcs'  BY <1>1, <2>3 DEF OwnProcs
  <2>5. procs' \subseteq procs \union {Own(k) : k \in kinds}
        /\ {"dumpS", "dumpR"} \intersect kinds = {} /\ "sender" \notin kinds
    BY <2>1
  <2>6. QED  BY <1>1, <2>2, <2>4, <2>5, MovingRun
<1>3. CASE Communicate \/ VaticKill \/ (PlotVatic /\ pc' = "plot")
  <2>1. Moves /\ Fewer
    <3>1. CASE Communicate \/ VaticKill
      <4>1. Moves  BY <1>1, <3>1 DEF Communicate, VaticKill, VaticAt, Goto, Moves, Mid
      <4>2. Fewer  BY <3>1, KilledProcs DEF Communicate, VaticKill, Gone, Fewer
      <4>3. QED  BY <4>1, <4>2
    <3>2. CASE PlotVatic /\ pc' = "plot"
      <4>1. Goto("plot") \/ Finish("failed")  BY <3>2 DEF PlotVatic
      <4>2. UNCHANGED <<jobs, outcome, left>>  BY <3>2, <4>1 DEF Goto, Finish
      <4>3. QED  BY <1>1, <3>2, <4>2 DEF Moves, Mid, PlotVatic, procVars, Fewer
    <3>3. QED  BY <1>3, <3>1, <3>2
  <2>2. VaticOwn'
    <3>1. CASE VaticKill
      <4>1. \A p \in procs' : p \in procs \/ Kind(p) = "ending"  BY <2>1, FewerProcs
      <4>2. \A p \in procs' : Kind(p) # "client"  BY <3>1, KilledProcs DEF VaticKill
      <4>3. pc = "kill" /\ pc' = "plotVatic"  BY <3>1 DEF VaticKill, VaticAt, Goto
      <4>4. QED  BY <1>1, <4>1, <4>2, <4>3 DEF VaticOwn, Only
    <3>2. CASE Communicate \/ (PlotVatic /\ pc' = "plot")
      BY <1>1, <3>2
      DEF Communicate, PlotVatic, VaticAt, Goto, VaticOwn, Only, Gone, Own, ProcsInv, Pairs,
          procVars
    <3>3. QED  BY <1>3, <3>1, <3>2
  <2>3. OwnProcs'  BY <1>1, <2>2 DEF OwnProcs
  <2>4. QED  BY <2>1, <2>3, ShrinkingRun
<1>4. CASE VaticPlot \/ (PlotVatic /\ pc' # "plot")
  <2>1. ~Mid' /\ Only({"ccp", "ending"}) /\ UNCHANGED procs
        /\ \E result : outcome' = [outcome EXCEPT ![run] = result]
    BY <1>1, <1>4
    DEF VaticPlot, PlotVatic, VaticAt, Finish, Goto, VaticOwn, Only, Mid, procVars
  <2>2. QED  BY <1>1, <2>1, EndedRun DEF Fewer
<1>5. QED  BY <1>2, <1>3, <1>4 DEF VaticStep

LEMMA MmProcs ==
  ASSUME TypeInv, ProcsInv, MmStep  PROVE ProcsInv'
<1>1. /\ run > 0 /\ Mid /\ job.script \in {"runmm", "multi"} /\ MmOwn
      /\ UNCHANGED <<jobs, run, job>>
  BY DEF MmStep, MmConstruct, MmLaunch, MmTraffic, MmWaitSender, MmWaitReceiver, MmPlot, MmAt,
     Goto, Finish, ProcsInv, OwnProcs, Mid, run, job
<1>2. CASE MmLaunch \/ MmTraffic
  <2>1. PICK kinds :
          /\ procs' = procs \union {Own(k) : k \in kinds}
          /\ \/ /\ pc = "launch" /\ pc' = "traffic"
                /\ kinds \subseteq {"mm", "receiver", "innerReceiver"}
             \/ pc = "traffic" /\ pc' = "waitSender" /\ kinds \subseteq {"mm", "sender"}
    BY <1>2 DEF MmLaunch, MmTraffic, MmAt, Goto, Start
  <2>2. Moves  BY <1>1, <1>2, <2>1 DEF MmLaunch, MmTraffic, Goto, Moves, Mid
  <2>3. MmOwn'  BY <1>1, <2>1 DEF MmOwn, Only, Own, Kind, RunOf
  <2>4. OwnProcs'  BY <1>1, <2>3 DEF OwnProcs
  <2>5. procs' \subseteq procs \union {Own(k) : k \in kinds}
        /\ {"dumpS", "dumpR"} \intersect kinds = {} /\ "server" \notin kinds
    BY <2>1
  <2>6. QED  BY <1>1, <2>2, <2>4, <2>5, MovingRun
<1>3. CASE MmWaitSender \/ MmWaitReceiver \/ (MmConstruct /\ pc' = "launch")
  <2>1. Moves /\ procs' \subseteq procs
    BY <1>1, <1>3
    DEF MmWaitSender, MmWaitReceiver, MmConstruct, MmAt, Goto, Finish, Moves, Mid, Gone, procVars
  <2>2. MmOwn'
    BY <1>1, <1>3
    DEF MmWaitSender, MmWaitReceiver, MmConstruct, MmAt, Goto, Finish, MmOwn, Only, Gone, Own,
        ProcsInv, Pairs, procVars
  <2>3. OwnProcs'  BY <1>1, <2>2 DEF OwnProcs
  <2>4. QED  BY <2>1, <2>3, ShrinkingRun DEF Fewer
<1>4. CASE MmPlot \/ (MmConstruct /\ pc' # "launch")
  <2>1. ~Mid' /\ Only({"ccp", "ending"}) /\ UNCHANGED procs
        /\ \E result : outcome' = [outcome EXCEPT ![run] = result]
    BY <1>1, <1>4 DEF MmPlot, MmConstruct, MmAt, Finish, Goto, MmOwn, Only, Mid, procVars
  <2>2. QED  BY <1>1, <2>1, EndedRun DEF Fewer
<1>5. QED  BY <1>2, <1>3, <1>4 DEF MmStep

LEMMA InterruptProcs ==
  ASSUME TypeInv, ProcsInv, NEW places, Interrupt(places), run > 0,
         places \intersect {"idle", "next"} = {}
  PROVE  ProcsInv'
<1>1. Mid /\ ~Mid' /\ UNCHANGED jobs /\ outcome' = [outcome EXCEPT ![run] = "interrupted"]
  BY DEF Interrupt, Finish, Mid
<1>2. Fewer /\ Own("mm") \notin procs'
  <2> DEFINE own == {p \in procs : RunOf(p) = run}
  <2>1. PICK ended, told :
          /\ Own("mm") \in own => Own("mm") \in ended
          /\ Signalled(ended, told) /\ \A p \in told : p \in procs /\ Kind(p) = "client"
    BY DEF Interrupt
  <2>2. Fewer /\ \A p \in procs' : p \notin ended \/ Kind(p) = "ending"
    BY <2>1, SignalledProcs
  <2>3. Kind(Own("mm")) = "mm" /\ RunOf(Own("mm")) = run  BY DEF Own, Kind, RunOf
  <2>4. Own("mm") \in procs' => Own("mm") \in procs  BY <2>2, <2>3, FewerProcs
  <2>5. QED  BY <2>1, <2>2, <2>3, <2>4
<1>3. QED  BY <1>1, <1>2, EndedRun

LEMMA ProcsInvStep ==
  ASSUME TypeInv, ProcsInv, [Next]_vars  PROVE ProcsInv'
<1>1. CASE Script
  BY <1>1, Mm2Procs, VaticProcs, MmProcs DEF Script
<1>2. CASE Mm2Interrupt \/ VaticInterrupt \/ MmInterrupt
  BY <1>2, InterruptProcs DEF Mm2Interrupt, VaticInterrupt, MmInterrupt
<1>3. CASE UserRuns
  <2>1. run' = run + 1  BY <1>3 DEF UserRuns, TypeInv, Queue, run
  <2>2. QED  BY <1>3, <2>1, NewRun DEF UserRuns, Mid, procVars
<1>4. CASE Background
  <2>1. procs' \subseteq procs /\ UNCHANGED scriptVars
    BY <1>4
    DEF Background, Process, Bind, Connect, Dumps, Capture, Ends, ServerEnds, Gone
  <2>2. UNCHANGED <<run, job, pc, jobs, outcome>>  BY <2>1 DEF scriptVars, run, job
  <2>3. OwnProcs'  BY <2>1, <2>2 DEF ProcsInv, OwnProcs, Mm2Own, VaticOwn, MmOwn, Only, Mid
  <2>4. QED
    BY <2>1, <2>2, <2>3 DEF ProcsInv, Leftovers, LinksEnd, ByScript, Pairs, Past, Mid
<1>5. CASE BatchStart \/ Stopped \/ UNCHANGED vars
  <2>1. UNCHANGED <<procs, jobs, outcome, run, job>> /\ (pc' = pc \/ (~Mid /\ ~Mid'))
    BY <1>5 DEF BatchStart, Stopped, vars, scriptVars, procVars, Mid, run, job
  <2>2. QED
    BY <2>1
    DEF ProcsInv, OwnProcs, Mm2Own, VaticOwn, MmOwn, Only, Leftovers, LinksEnd, ByScript,
        Pairs, Past, Mid
<1>6. QED  BY <1>1, <1>2, <1>3, <1>4, <1>5 DEF Next

LEMMA ProcsInit == MachineInit => ProcsInv
BY DEF MachineInit, ProcsInv, OwnProcs, Leftovers, LinksEnd, ByScript, Pairs, Mid

LEMMA SuccessNow == TypeInv /\ ProcsInv => LeavesNothing
<1>1. SUFFICES ASSUME TypeInv, ProcsInv, NEW p \in procs, outcome[RunOf(p)] = "ok"
               PROVE  Kind(p) \in {"ccp", "ending"}
  BY DEF LeavesNothing
<1>2. RunOf(p) \in 1 .. MaxRuns /\ RunOf(p) <= run /\ run \in Nat
  BY <1>1, MachineAssumption DEF TypeInv, TypeOK, Queue, Runs, run
<1>3. Past(RunOf(p))  BY <1>1, <1>2 DEF TypeInv, Outcomes, Past
<1>4. QED  BY <1>1, <1>3 DEF ProcsInv, Leftovers

\* A run that reports success leaves no process behind, but for the controller of the
\* batch and a client that was told to end, whatever was interrupted before it (runmm2.py:196-249, runmmVatic.py, runmm.py).
THEOREM SuccessLeavesNothing == Spec => []LeavesNothing
BY SuccessNow, TypeInit, TypeStep, ProcsInit, ProcsInvStep, PTL DEF Spec

-----------------------------------------------------------------------------
(* A run of the batch among the leftovers of others *)

\* After its clean-up a run of the batch has no receivers around but its own.
Cleared ==
  Mid /\ InBatch(run) /\ pc \notin {"construct", "clean"} =>
    \A q \in procs : Kind(q) = "receiver" => RunOf(q) = run

\* There never are two controllers, and none when the batch starts its own.
Controllers ==
  /\ \A p, q \in procs : Kind(p) = "ccp" /\ Kind(q) = "ccp" => p = q
  /\ pc = "control" => \A p \in procs : Kind(p) # "ccp"

AloneInv == Cleared /\ Controllers /\ SenderReachesOwn

\* What is started is started by the script for its run, the controller in one place.
LEMMA NewProcs ==
  ASSUME [Next]_vars
  PROVE  \/ Fewer
         \/ /\ Moves
            /\ \E kinds : /\ procs' = procs \union {Own(k) : k \in kinds}
                          /\ "ccp" \in kinds => pc = "control" /\ pc' = "launch"
<1>1. CASE Mm2Step
  <2>1. CASE RunCCP \/ Launch \/ Link \/ Traffic
    <3>1. Moves  BY <2>1 DEF RunCCP, Launch, Link, Traffic, At, Goto, Moves, Mid
    <3>2. PICK kinds : /\ procs' = procs \union {Own(k) : k \in kinds}
                       /\ \/ kinds = {"ccp"} /\ pc = "control" /\ pc' = "launch"
                          \/ kinds = {"dumpR", "receiver"}
                          \/ kinds = {"mm"}
                          \/ kinds = {"dumpS", "sender"}
      BY <2>1 DEF RunCCP, Launch, Link, Traffic, At, Goto, Start
    <3>3. "ccp" \in kinds => pc = "control" /\ pc' = "launch"  BY <3>2
    <3>4. QED  BY <3>1, <3>2, <3>3
  <2>2. CASE ~(RunCCP \/ Launch \/ Link \/ Traffic)
    BY <1>1, <2>2, KilledProcs
    DEF Mm2Step, BatchNext, Construct, CleanState, Wait, KillAll, Extract, Plot, PlotFails,
        Unlink, Gone, Fewer, procVars
  <2>3. QED  BY <2>1, <2>2
<1>2. CASE VaticStep
  <2>1. CASE VaticLaunch \/ VaticClient \/ VaticServer
    <3>1. Moves  BY <2>1 DEF VaticLaunch, VaticClient, VaticServer, VaticAt, Goto, Moves, Mid
    <3>2. PICK kinds : /\ procs' = procs \union {Own(k) : k \in kinds}
                       /\ kinds = {"mm"} \/ kinds = {"client"} \/ kinds = {"server"}
      BY <2>1 DEF VaticLaunch, VaticClient, VaticServer, Start
    <3>3. "ccp" \notin kinds  BY <3>2
    <3>4. QED  BY <3>1, <3>2, <3>3
  <2>2. CASE Communicate \/ VaticKill \/ PlotVatic \/ VaticPlot
    BY <2>2, KilledProcs DEF Communicate, VaticKill, PlotVatic, VaticPlot, Gone, Fewer, procVars
  <2>3. QED  BY <1>2, <2>1, <2>2 DEF VaticStep
<1>3. CASE MmStep
  <2>1. CASE MmLaunch \/ MmTraffic
    <3>1. Moves  BY <2>1 DEF MmLaunch, MmTraffic, MmAt, Goto, Moves, Mid
    <3>2. PICK kinds : /\ procs' = procs \union {Own(k) : k \in kinds}
                       /\ kinds \subseteq {"mm", "receiver", "innerReceiver", "sender"}
      BY <2>1 DEF MmLaunch, MmTraffic, Start
    <3>3. "ccp" \notin kinds  BY <3>2
    <3>4. QED  BY <3>1, <3>2, <3>3
  <2>2. CASE ~(MmLaunch \/ MmTraffic)
    BY <1>3, <2>2 DEF MmStep, MmConstruct, MmWaitSender, MmWaitReceiver, MmPlot, Gone, Fewer,
                     procVars
  <2>3. QED  BY <2>1, <2>2
<1>4. CASE Mm2Interrupt \/ VaticInterrupt \/ MmInterrupt
  <2>1. PICK places : Interrupt(places)
    BY <1>4 DEF Mm2Interrupt, VaticInterrupt, MmInterrupt
  <2>2. PICK ended, told :
          Signalled(ended, told) /\ \A p \in told : p \in procs /\ Kind(p) = "client"
    BY <2>1 DEF Interrupt
  <2>3. QED  BY <2>2, SignalledProcs
<1>5. CASE Background
  BY <1>5 DEF Background, Process, Bind, Connect, Dumps, Capture, Ends, ServerEnds, Gone, Fewer
<1>6. CASE UserRuns \/ BatchStart \/ Stopped \/ UNCHANGED vars
  BY <1>6 DEF UserRuns, BatchStart, Stopped, vars, procVars, Fewer
<1>7. QED  BY <1>1, <1>2, <1>3, <1>4, <1>5, <1>6 DEF Next, Script

\* A run of the batch is one of runmm2.py, and cleans up before it does anything else.
LEMMA BatchScript ==
  ASSUME TypeInv, NEW n \in Runs, InBatch(n)  PROVE jobs[n].script = "runmm2"
<1>1. jobs[n] \in HandJobs \union BatchJobs  BY DEF TypeInv, Queue, Runs, run
<1>2. QED  BY <1>1, HandAssumption, BatchDriver DEF InBatch

LEMMA BatchPlaces ==
  ASSUME TypeInv, [Next]_vars, Mid', InBatch(run)', pc' \notin {"construct", "clean"}
  PROVE  \/ Mid /\ InBatch(run) /\ pc \notin {"construct", "clean"} /\ UNCHANGED run
         \/ CleanState
<1>1. CASE Moves
  <2>1. UNCHANGED <<run, job, jobs>> /\ Mid /\ InBatch(run) /\ run \in Runs
    BY <1>1 DEF Moves, run, job, InBatch, TypeInv, Queue, Runs
  <2>2. CASE pc \in {"construct", "clean"}
    <3>1. job.script = "runmm2" /\ job.driver = "batch"
      BY <2>1, BatchScript DEF InBatch, job
    <3>2. pc' # pc  BY <2>2
    <3>3. Script
      BY <1>1, <2>2, <3>2
      DEF Next, vars, scriptVars, UserRuns, BatchStart, Background, Mm2Interrupt,
          VaticInterrupt, MmInterrupt, Interrupt, Stopped, Mid
    <3>4. CASE Mm2Step
      BY <2>2, <3>1, <3>4
      DEF Mm2Step, BatchNext, Construct, RunCCP, Launch, Link, Traffic, Wait, KillAll,
          Extract, Plot, PlotFails, Unlink, At, Mid
    <3>5. QED
      BY <3>1, <3>3, <3>4
      DEF Script, VaticStep, VaticLaunch, VaticClient, VaticServer, Communicate, VaticKill,
          PlotVatic, VaticPlot, VaticAt, MmStep, MmConstruct, MmLaunch, MmTraffic,
          MmWaitSender, MmWaitReceiver, MmPlot, MmAt
  <2>3. QED  BY <2>1, <2>2
<1>2. CASE Finishes \/ GivesUp
  BY <1>2 DEF Finishes, Finish, GivesUp, Mid
<1>3. CASE UserRuns \/ BatchStart \/ BatchNext
  BY <1>3 DEF UserRuns, BatchStart, BatchNext, Mid
<1>4. CASE UNCHANGED scriptVars
  BY <1>4 DEF scriptVars, run, InBatch, Mid
<1>5. QED  BY Control, <1>1, <1>2, <1>3, <1>4

LEMMA ControlPlace ==
  ASSUME [Next]_vars, pc' = "control"
  PROVE  (pc = "control" /\ procs' \subseteq procs) \/ CleanState
<1>1. CASE Script
  BY <1>1
  DEF Script, Mm2Step, BatchNext, Construct, RunCCP, Launch, Link, Traffic, Wait, KillAll,
      Extract, Plot, PlotFails, Unlink, At, VaticStep, VaticLaunch, VaticClient, VaticServer,
      Communicate, VaticKill, PlotVatic, VaticPlot, VaticAt, MmStep, MmConstruct, MmLaunch,
      MmTraffic, MmWaitSender, MmWaitReceiver, MmPlot, MmAt, Goto, Finish
<1>2. CASE Background
  BY <1>2
  DEF Background, Process, Bind, Connect, Dumps, Capture, Ends, ServerEnds, Gone, scriptVars
<1>3. CASE Stopped \/ UNCHANGED vars
  BY <1>3 DEF Stopped, vars, scriptVars, procVars
<1>4. CASE UserRuns \/ BatchStart \/ Mm2Interrupt \/ VaticInterrupt \/ MmInterrupt
  BY <1>4
  DEF UserRuns, BatchStart, Mm2Interrupt, VaticInterrupt, MmInterrupt, Interrupt, Finish
<1>5. QED  BY <1>1, <1>2, <1>3, <1>4 DEF Next

LEMMA AloneStep ==
  ASSUME TypeInv, ProcsInv, AloneInv, [Next]_vars  PROVE AloneInv'
<1>1. CleanState => \A p \in procs' : p \in procs /\ Kind(p) \notin Cleaned
  BY KilledProcs DEF CleanState, Cleaned
<1>2. Cleared'
  <2>1. SUFFICES ASSUME Mid', InBatch(run)', pc' \notin {"construct", "clean"},
                        NEW q \in procs', Kind(q) = "receiver"
                 PROVE  RunOf(q) = run'
    BY DEF Cleared
  <2>2. CASE CleanState
    BY <1>1, <2>1, <2>2 DEF Cleaned
  <2>3. CASE Mid /\ InBatch(run) /\ pc \notin {"construct", "clean"} /\ UNCHANGED run
    <3>1. q \in procs \/ RunOf(q) = run  BY <2>1, NewProcs, FewerProcs DEF Own, RunOf
    <3>2. QED  BY <2>1, <2>3, <3>1 DEF AloneInv, Cleared
  <2>4. QED  BY <2>1, <2>2, <2>3, BatchPlaces
<1>3. Controllers'
  <2>1. \A p, q \in procs' : Kind(p) = "ccp" /\ Kind(q) = "ccp" => p = q
    <3>1. CASE Fewer
      BY <3>1, FewerProcs DEF AloneInv, Controllers
    <3>2. CASE \E kinds : /\ procs' = procs \union {Own(k) : k \in kinds}
                          /\ "ccp" \in kinds => pc = "control" /\ pc' = "launch"
      <4>1. PICK kinds : /\ procs' = procs \union {Own(k) : k \in kinds}
                         /\ "ccp" \in kinds => pc = "control"
        BY <3>2
      <4>2. \A p \in procs' : Kind(p) = "ccp" => p \in procs \/ (p = Own("ccp") /\ pc = "control")
        BY <4>1 DEF Own, Kind
      <4>3. QED  BY <4>2 DEF AloneInv, Controllers
    <3>3. QED  BY NewProcs, <3>1, <3>2
  <2>2. pc' = "control" => \A p \in procs' : Kind(p) # "ccp"
    BY <1>1, ControlPlace DEF AloneInv, Controllers, Cleaned
  <2>3. QED  BY <2>1, <2>2 DEF Controllers
<1>4. SenderReachesOwn'
  <2>1. SUFFICES ASSUME NEW n \in Runs', InBatch(n)'  PROVE peer'[n] \in {0, n}
    BY DEF SenderReachesOwn
  <2>2. run \in Nat /\ run' \in Nat /\ run' <= MaxRuns /\ MaxRuns \in Nat
        /\ peer \in [1 .. MaxRuns -> 0 .. run]
        /\ \A m \in Runs : jobs'[m] = jobs[m]
    BY QueueStep, MachineAssumption DEF TypeInv, Queue, TypeOK, run
  <2>3. n \in 1 .. MaxRuns /\ (n \in Runs => InBatch(n))  BY <2>1, <2>2 DEF Runs, InBatch
  <2>4. peer[n] \in {0, n}
    BY <2>2, <2>3 DEF AloneInv, SenderReachesOwn, TypeInv, Unreached, Runs
  <2>5. CASE Reaches
    <3>1. PICK p \in procs, q \in up :
            /\ Kind(p) = "sender" /\ <<"mm", RunOf(p)>> \in procs /\ q \in Reachable(p)
            /\ peer' = [peer EXCEPT ![RunOf(p)] = RunOf(q)]
      BY <2>5 DEF Reaches
    <3>2. RunOf(p) = run /\ Mid  BY <3>1 DEF ProcsInv, LinksEnd, Kind, RunOf
    <3>3. CASE n = run
      <4>1. run \in Runs /\ InBatch(run)  BY <2>2, <2>3, <3>2, <3>3 DEF TypeInv, Queue, Runs
      <4>2. job.script = "runmm2"  BY <4>1, BatchScript DEF job
      <4>3. pc \notin {"construct", "clean"}
        BY <3>1, <3>2, <4>2 DEF ProcsInv, OwnProcs, Mm2Own, Only
      <4>4. q \in procs /\ (Kind(q) = "receiver" \/ q = <<"innerReceiver", run>>)
        BY <3>1, <3>2 DEF Reachable, TypeInv, TypeOK
      <4>5. RunOf(q) = run  BY <3>2, <4>1, <4>3, <4>4 DEF AloneInv, Cleared, RunOf
      <4>6. QED  BY <2>2, <2>3, <3>1, <3>2, <3>3, <4>5
    <3>4. QED  BY <2>2, <2>3, <2>4, <3>1, <3>2, <3>3
  <2>6. CASE Closes
    BY <2>2, <2>3, <2>4, <2>6 DEF Closes
  <2>7. CASE Keeps \/ Starts \/ Removes \/ Comes
    BY <2>4, <2>7 DEF Keeps, Starts, Removes, Comes, procVars
  <2>8. QED  BY Processes, <2>5, <2>6, <2>7
<1>5. QED  BY <1>2, <1>3, <1>4 DEF AloneInv

\* Nothing that interrupted runs, runs by hand or earlier runs of the batch have left takes
\* part in a run of the batch: its sender reaches its own receiver, and one controller steers.
THEOREM BatchIsAlone == Spec => []BatchRunsAlone
<1>1. MachineInit => AloneInv
  BY DEF MachineInit, AloneInv, Cleared, Controllers, SenderReachesOwn, Mid, Runs, run
<1>2. AloneInv => BatchRunsAlone
  <2>1. SUFFICES ASSUME AloneInv  PROVE Cardinality({p \in procs : Kind(p) = "ccp"}) <= 1
    BY DEF BatchRunsAlone, OneController, AloneInv
  <2>2. CASE {p \in procs : Kind(p) = "ccp"} = {}
    BY <2>2, FS_EmptySet
  <2>3. CASE {p \in procs : Kind(p) = "ccp"} # {}
    <3>1. PICK c \in procs : Kind(c) = "ccp"  BY <2>3
    <3>2. {p \in procs : Kind(p) = "ccp"} = {c}  BY <2>1, <3>1 DEF AloneInv, Controllers
    <3>3. QED  BY <3>2, FS_Singleton
  <2>4. QED  BY <2>2, <2>3
<1>3. QED
  BY <1>1, <1>2, TypeInit, TypeStep, ProcsInit, ProcsInvStep, AloneStep, PTL DEF Spec

-----------------------------------------------------------------------------
(* The batch tries all *)

\* The last runs are the first of the grid, what is left are the others.
Progress(args) ==
  LET grid == Grid(args)
      done == Len(grid) - Len(left)
  IN /\ done \in 0 .. run /\ (Mid => done > 0)
     /\ \A i \in 1 .. done : jobs[run - done + i] = grid[i]
     /\ \A i \in 1 .. Len(left) : left[i] = grid[done + i]

BatchInv == pc = "next" \/ (Mid /\ InBatch(run)) => \E args \in BatchArgs : Progress(args)

\* The batch takes the next configuration of its grid.
LEMMA ProgressNext ==
  ASSUME TypeInv, NEW args \in BatchArgs, Progress(args), BatchNext, left # <<>>
  PROVE  Progress(args)'
<1> DEFINE grid == Grid(args)
           done == Len(grid) - Len(left)
<1>1. Len(grid) \in Nat  BY GridIsSeq
<1>2. /\ done \in 0 .. run
      /\ \A i \in 1 .. done : jobs[run - done + i] = grid[i]
      /\ \A i \in 1 .. Len(left) : left[i] = grid[done + i]
  BY DEF Progress
<1>3. run \in Nat /\ jobs \in Seq(HandJobs \union BatchJobs) /\ left \in Seq(BatchJobs)
  BY DEF TypeInv, Queue, run
<1>4. jobs' = Append(jobs, Head(left)) /\ left' = Tail(left)  BY DEF BatchNext
<1> HIDE DEF grid
<1>5. Len(left) \in Nat /\ Len(left) > 0  BY <1>3
<1>6. Head(left) = left[1] /\ Len(left') = Len(left) - 1
      /\ \A i \in 1 .. Len(left) - 1 : left'[i] = left[i + 1]
  BY <1>3, <1>4, <1>5
<1>7. run' = run + 1 /\ jobs'[run + 1] = left[1] /\ \A i \in 1 .. run : jobs'[i] = jobs[i]
  BY <1>3, <1>4, <1>5, <1>6 DEF run
<1> DEFINE d == done + 1
<1>8. Len(grid) - Len(left') = d /\ d \in 1 .. run' /\ run' - d = run - done
  BY <1>1, <1>2, <1>3, <1>5, <1>6, <1>7
<1>9. \A i \in 1 .. d : jobs'[run' - d + i] = grid[i]
  <2>1. TAKE i \in 1 .. d
  <2>2. CASE i = d
    BY <1>1, <1>2, <1>3, <1>5, <1>7, <1>8, <2>2
  <2>3. CASE i # d
    <3>1. done \in Nat /\ done <= run /\ run \in Nat  BY <1>2, <1>3
    <3>2. i \in 1 .. done  BY <2>3, <3>1
    <3>3. run - done + i \in 1 .. run  BY <3>1, <3>2
    <3>4. QED  BY <1>2, <1>7, <1>8, <3>2, <3>3
  <2>4. QED  BY <2>2, <2>3
<1>10. \A i \in 1 .. Len(left') : left'[i] = grid[d + i]
  BY <1>1, <1>2, <1>5, <1>6
<1>11. Grid(args)' = grid  BY DEF grid, Grid, Config
<1>12. d \in 0 .. run' /\ d > 0  BY <1>1, <1>2, <1>3, <1>8
<1> HIDE DEF d, done
<1>13. QED  BY <1>8, <1>9, <1>10, <1>11, <1>12 DEF Progress

LEMMA BatchStep ==
  ASSUME TypeInv, TypeInv', BatchInv, BatchComplete, [Next]_vars
  PROVE  BatchInv' /\ BatchComplete'
<1>1. \A args : Grid(args)' = Grid(args)  BY DEF Grid, Config
<1>2. ASSUME NEW args \in BatchArgs, Progress(args), UNCHANGED <<jobs, left>>, Mid' => Mid
      PROVE  Progress(args)'
  BY <1>1, <1>2 DEF Progress, run
<1>3. CASE UserRuns
  <2>1. PICK j \in HandJobs : jobs' = Append(jobs, j) /\ pc' = "construct"  BY <1>3 DEF UserRuns
  <2>2. ~InBatch(run)'
    BY <2>1, HandAssumption DEF InBatch, run, TypeInv, Queue
  <2>3. QED  BY <2>1, <2>2 DEF BatchInv, BatchComplete
<1>4. CASE BatchStart
  <2>1. PICK args \in BatchArgs : left' = Grid(args)  BY <1>4 DEF BatchStart
  <2>2. pc' = "next" /\ UNCHANGED <<jobs, run>>  BY <1>4 DEF BatchStart, run
  <2>3. Len(Grid(args)) \in Nat /\ run \in Nat  BY GridIsSeq DEF TypeInv, Queue, run
  <2>4. Progress(args)'  BY <1>1, <2>1, <2>2, <2>3 DEF Progress, Mid
  <2>5. QED  BY <2>2, <2>4 DEF BatchInv, BatchComplete
<1>5. CASE BatchNext
  <2>1. PICK args \in BatchArgs : Progress(args)  BY <1>5 DEF BatchNext, BatchInv
  <2>2. CASE left # <<>>
    <3>1. Progress(args)'  BY <2>1, <2>2, <1>5, ProgressNext
    <3>2. pc' # "idle"  BY <1>5, <2>2 DEF BatchNext
    <3>3. QED  BY <3>1, <3>2 DEF BatchInv, BatchComplete
  <2>3. CASE left = <<>>
    <3> DEFINE grid == Grid(args)
    <3>1. grid \in Seq(BatchJobs) /\ Len(grid) \in Nat  BY GridIsSeq
    <3>2. run \in Nat /\ run' = run /\ jobs' = jobs /\ pc' = "idle" /\ run <= MaxRuns
          /\ jobs \in Seq(HandJobs \union BatchJobs) /\ MaxRuns \in Nat
      BY <1>5, <2>3, MachineAssumption DEF BatchNext, TypeInv, TypeOK, Queue, run
    <3>3. Len(grid) <= run /\ \A i \in 1 .. Len(grid) : jobs[run - Len(grid) + i] = grid[i]
      BY <2>1, <2>3, <3>1, <3>2 DEF Progress
    <3>4. Grid(args)' = grid  BY <1>1
    <3> HIDE DEF grid
    <3>5. SubSeq(jobs, run - Len(grid) + 1, run) = grid
      <4>1. /\ Len(SubSeq(jobs, run - Len(grid) + 1, run)) = Len(grid)
            /\ \A i \in 1 .. Len(grid) :
                 SubSeq(jobs, run - Len(grid) + 1, run)[i] = jobs[run - Len(grid) + i]
            /\ SubSeq(jobs, run - Len(grid) + 1, run) \in Seq(HandJobs \union BatchJobs)
        BY <3>1, <3>2, <3>3 DEF run
      <4>2. grid \in Seq(HandJobs \union BatchJobs)  BY <3>1
      <4>3. QED  BY <3>3, <4>1, <4>2
    <3>6. \A n \in run - Len(grid) + 1 .. run : outcome'[n] # "going"
      BY <3>1, <3>2, <3>3 DEF TypeInv, Outcomes, Mid
    <3>7. BatchComplete'
      BY <3>2, <3>3, <3>4, <3>5, <3>6 DEF BatchComplete
    <3>8. QED  BY <3>2, <3>7 DEF BatchInv, Mid
  <2>4. QED  BY <2>2, <2>3
<1>6. CASE Moves \/ Finishes
  <2>1. UNCHANGED <<jobs, left, run>> /\ Mid /\ (pc' = "idle" => ~InBatch(run))
        /\ InBatch(run)' = InBatch(run)
    BY <1>6 DEF Moves, Finishes, Finish, InBatch, job, run, Mid
  <2>2. BatchInv'
    <3>1. SUFFICES ASSUME InBatch(run)' \/ pc' = "next"
                   PROVE \E args \in BatchArgs : Progress(args)'
      BY DEF BatchInv
    <3>2. InBatch(run)
      BY <1>6, <2>1, <3>1 DEF Moves, Finishes, Finish, InBatch, job, Mid
    <3>3. QED  BY <1>2, <2>1, <3>2 DEF BatchInv
  <2>3. QED  BY <2>1, <2>2 DEF BatchComplete
<1>7. CASE GivesUp
  <2>1. pc' = "idle" /\ Cardinality(Modes(job)') # 1
    <3>1. UNCHANGED jobs /\ Cardinality(Modes(job)) > 1 /\ pc' = "idle"  BY <1>7 DEF GivesUp
    <3>2. job' = job  BY <3>1 DEF job, run
    <3>3. Modes(job)' = Modes(job)  BY <3>2 DEF Modes
    <3>4. QED  BY <3>1, <3>3
  <2>2. QED  BY <2>1 DEF BatchInv, BatchComplete, Mid
<1>8. CASE UNCHANGED scriptVars
  <2>1. UNCHANGED <<jobs, left, pc, outcome, run, job>>  BY <1>8 DEF scriptVars, run, job
  <2>2. BatchInv'  BY <1>2, <2>1 DEF BatchInv, InBatch, Mid
  <2>3. BatchComplete'  BY <1>1, <2>1 DEF BatchComplete, InBatch, Modes
  <2>4. QED  BY <2>2, <2>3
<1>9. QED  BY Control, <1>3, <1>4, <1>5, <1>6, <1>7, <1>8

\* A batch that has started its runs ends after all of them, each tried once and in the order
\* of its loops, whatever fails or is interrupted (script_runmm2.py: "Something failed in
\* scenario ... continue").
THEOREM BatchTriesAll == Spec => []BatchComplete
<1>1. MachineInit => BatchInv /\ BatchComplete
  BY DEF MachineInit, BatchInv, BatchComplete, Mid, run
<1>2. QED  BY <1>1, TypeInit, TypeStep, BatchStep, PTL DEF Spec

-----------------------------------------------------------------------------
(* Whose logs a run plots *)

\* The file is there and tells of the run that is under way.
Holds(file) == Exists(file) /\ files[file] = run
WillHold(file) == file \in DOMAIN files' /\ files'[file] = run'

\* The two captures of a run.
Dumpers == {"dumpS", "dumpR"}
Pcap(kind) == IF kind = "dumpS" THEN PcapS(job) ELSE PcapR(job)

\* At each place of a script: which files are of its run.
Mm2Logs ==
  /\ pc \in {"traffic", "wait", "kill", "extract", "plot", "unlink"} => Holds(Log(job))
  /\ pc \in {"link", "traffic", "wait"} => Own("dumpR") \in procs
  /\ pc = "wait" => Own("dumpS") \in procs
  /\ ~Disturbed(run) =>
       /\ \A kind \in Dumpers :
            /\ pc \in {"link", "traffic", "wait"} /\ Own(kind) \in up => Holds(Pcap(kind))
            /\ pc \in {"kill", "extract"} => Holds(Pcap(kind))
       /\ pc = "plot" => Content(Rtt(job)) \in {0, run} /\ Content(Tput(job)) \in {0, run}
VaticLogs ==
  /\ pc = "construct" => peer[run] = 0
  /\ pc # "construct" => Holds(VaticLog(job))
  /\ peer[run] # 0 /\ ~Disturbed(run) =>
       \A name \in {"cwnd", "alpha", "centroids"} : Holds(Dat(job, name))
MmLogs ==
  ~Switched(run) =>
    /\ pc = "traffic" /\ Side(job) # "sender" => Holds(PlotLog(job))
    /\ pc \in {"waitSender", "waitReceiver", "plot"} => Holds(PlotLog(job))
LogsInv == Mid =>
  /\ job.script = "runmm2" => Mm2Logs
  /\ job.script = "vatic" => VaticLogs
  /\ job.script \in {"runmm", "multi"} => MmLogs

\* Only a run that comes to its plots shows something.
ShownInv ==
  \A n \in 1 .. MaxRuns :
    shown[n] # {} =>
      /\ n <= run /\ outcome[n] # "interrupted"
      /\ n = run /\ Mid => \/ job.script = "runmm2" /\ pc = "unlink"
                           \/ job.script = "vatic" /\ pc = "plot"

\* Of an undisturbed run nobody else captures, and no other server writes.
LEMMA OwnWriters ==
  ASSUME TypeInv, ProcsInv, Mid, ~Disturbed(run), NEW p \in procs
  PROVE  /\ Kind(p) \in {"dumpS", "dumpR"} /\ job.script = "runmm2" => RunOf(p) = run
         /\ Kind(p) = "server" /\ job.script = "vatic" => RunOf(p) = run
<1>1. RunOf(p) \in 1 .. run /\ run \in Nat  BY DEF TypeInv, TypeOK, Queue, Runs, run
<1>2. RunOf(p) # run /\ Kind(p) \notin {"ccp", "ending"} => outcome[RunOf(p)] = "interrupted"
  BY <1>1 DEF ProcsInv, Leftovers, Past
<1>3. QED  BY <1>1, <1>2 DEF ProcsInv, ByScript, Disturbed, job

\* What a run has written is overwritten only by itself: links start one at a time,
\* captures and servers of others are excluded, tables have names of their own.
LEMMA FileKept ==
  ASSUME [Next]_vars, UNCHANGED run, NEW file, Holds(file),
         \/ file[3] \in {"uplink", "downlink"}
         \/ /\ file[3] \in {"sender.pcap", "receiver.pcap"} /\ ~Unlink
            /\ \A p \in procs : Kind(p) \in {"dumpS", "dumpR"} => RunOf(p) = run
         \/ /\ file[3] \in {"cwnd", "alpha", "centroids"}
            /\ \A p \in procs : Kind(p) = "server" => RunOf(p) = run
  PROVE  WillHold(file)
<1>1. file \in DOMAIN files /\ files[file] = run  BY DEF Holds, Exists
<1>2. SUFFICES file \in DOMAIN files' /\ files'[file] = run  BY DEF WillHold
<1>3. CASE UNCHANGED files
  BY <1>1, <1>3
<1>4. CASE LogStarts
  <2>1. PICK log : files' = Written(log, run)  BY <1>4 DEF LogStarts
  <2>2. QED  BY <1>1, <2>1, WrittenFile
<1>5. CASE Extract
  <2>1. file \notin {Rtt(job), Tput(job)}  BY DEF Rtt, Tput, File
  <2>2. QED  BY <1>1, <1>5, <2>1 DEF Extract, Overwritten
<1>6. CASE Plot
  <2>1. file # MmTput(job)  BY DEF MmTput, File
  <2>2. files' = Written(MmTput(job), Content(Log(job)))  BY <1>6 DEF Plot
  <2>3. QED  BY <1>1, <2>1, <2>2, WrittenFile
<1>7. CASE Unlink
  <2>1. file \notin {PcapS(job), PcapR(job)}  BY <1>7 DEF PcapS, PcapR, File
  <2>2. QED  BY <1>1, <1>7, <2>1 DEF Unlink, Without
<1>8. CASE \E p \in procs : Captures(p)
  <2>1. PICK p \in procs : Captures(p)  BY <1>8
  <2>2. PICK other : /\ files' = Written(other, RunOf(p)) /\ Kind(p) \in {"dumpS", "dumpR"}
                     /\ other[3] \in {"sender.pcap", "receiver.pcap"}
    BY <2>1 DEF Captures, PcapS, PcapR, File
  <2>3. other = file => RunOf(p) = run  BY <2>2
  <2>4. QED  BY <1>1, <2>2, <2>3, WrittenFile
<1>9. CASE \E p \in procs : \/ ServerLogs(p, {"cwnd", "alpha"})
                            \/ ServerLogs(p, {"cwnd", "alpha", "centroids"})
  <2>1. PICK p \in procs, names \in SUBSET {"cwnd", "alpha", "centroids"} : ServerLogs(p, names)
    BY <1>9
  <2>2. CASE file[3] \in {"cwnd", "alpha", "centroids"}
    BY <1>1, <2>1, <2>2 DEF ServerLogs, Overwritten
  <2>3. CASE file[3] \notin {"cwnd", "alpha", "centroids"}
    <3>1. file \notin {Dat(jobs[RunOf(p)], name) : name \in names}  BY <2>1, <2>3 DEF Dat
    <3>2. QED  BY <1>1, <2>1, <3>1 DEF ServerLogs, Overwritten
  <2>4. QED  BY <2>2, <2>3
<1>10. QED  BY FileWrites, <1>3, <1>4, <1>5, <1>6, <1>7, <1>8, <1>9

\* Outcomes of the past are final, and with them what was disturbed.
LEMMA PastIsFinal ==
  ASSUME TypeInv, [Next]_vars
  PROVE  /\ \A m \in Runs : Past(m) => outcome'[m] = outcome[m]
         /\ \A n \in Runs : Disturbed(n)' <=> Disturbed(n)
<1>1. run \in Nat /\ run <= MaxRuns /\ outcome \in [1 .. MaxRuns -> {"going", "ok", "failed", "interrupted"}]
      /\ \A m \in Runs : jobs'[m] = jobs[m]
  BY QueueStep DEF TypeInv, TypeOK, Queue, run
<1>2. \A m \in Runs : Past(m) => outcome'[m] = outcome[m]
  <2>1. CASE Finishes
    <3>1. PICK result : outcome' = [outcome EXCEPT ![run] = result]
      BY <2>1 DEF Finishes, Finish
    <3>2. Mid  BY <2>1 DEF Finishes
    <3>3. QED  BY <1>1, <3>1, <3>2 DEF Past, Runs
  <2>2. CASE GivesUp
    BY <1>1, <2>2 DEF GivesUp, Past, Runs
  <2>3. CASE UserRuns \/ BatchStart \/ BatchNext \/ Moves \/ UNCHANGED scriptVars
    BY <2>3 DEF UserRuns, BatchStart, BatchNext, Moves, scriptVars
  <2>4. QED  BY Control, <2>1, <2>2, <2>3
<1>3. ASSUME NEW n \in Runs  PROVE Disturbed(n)' <=> Disturbed(n)
  <2>1. \A m \in 1 .. n - 1 : m \in Runs /\ Past(m)  BY <1>1 DEF Runs, Past
  <2>2. QED  BY <1>1, <1>2, <2>1 DEF Disturbed
<1>4. QED  BY <1>2, <1>3

\* While a script waits: a capture that was started is there, and comes up with a new file.
LEMMA Capturing ==
  ASSUME ProcsInv, Background, run > 0, NEW kind \in Dumpers
  PROVE  /\ Own(kind) \in procs => Own(kind) \in procs'
         /\ Own(kind) \in up' => Own(kind) \in up \/ files' = Written(Pcap(kind), run)
<1>1. PICK p \in procs : Process(p)  BY DEF Background
<1>2. p = Own(kind) => Kind(p) \in Dumpers  BY DEF Own, Kind
<1>3. CASE Bind(p)
  BY <1>2, <1>3 DEF Bind, Dumpers
<1>4. CASE Connect(p)
  BY <1>2, <1>4 DEF Connect, Gone, Dumpers
<1>5. CASE Ends(p) \/ ServerEnds(p)
  BY <1>2, <1>5 DEF Ends, ServerEnds, Gone, Dumpers
<1>6. CASE Dumps(p)
  <2>1. p = Own(kind) => Kind(p) = kind /\ RunOf(p) = run  BY DEF Own, Kind, RunOf
  <2>2. QED  BY <1>6, <2>1 DEF Dumps, Capture, Pcap, job
<1>7. QED  BY <1>1, <1>3, <1>4, <1>5, <1>6 DEF Process

\* Processes write captures and the logs of servers.
LEMMA ProcessFiles ==
  ASSUME Background, NEW file,
         file[3] \notin {"sender.pcap", "receiver.pcap", "cwnd", "alpha", "centroids"}
  PROVE  /\ file \in DOMAIN files' <=> file \in DOMAIN files
         /\ file \in DOMAIN files => files'[file] = files[file]
<1>1. PICK p \in procs : Process(p)  BY DEF Background
<1>2. CASE Dumps(p)
  <2>1. PICK other : files' = Written(other, RunOf(p)) /\ other # file
    BY <1>2 DEF Dumps, Capture, PcapS, PcapR, File
  <2>2. QED  BY <2>1, WrittenFile
<1>3. CASE ServerEnds(p)
  <2>1. CASE UNCHANGED files
    BY <2>1
  <2>2. CASE files' # files
    <3>1. PICK names \in SUBSET {"cwnd", "alpha", "centroids"} :
            files' = Overwritten([f \in {Dat(jobs[RunOf(p)], name) : name \in names} |-> RunOf(p)])
      BY <1>3, <2>2 DEF ServerEnds
    <3>2. \A name : Dat(jobs[RunOf(p)], name)[3] = name  BY DEF Dat
    <3>3. file \notin {Dat(jobs[RunOf(p)], name) : name \in names}  BY <3>1, <3>2
    <3>4. QED  BY <3>1, <3>3 DEF Overwritten
  <2>3. QED  BY <2>1, <2>2
<1>4. CASE Bind(p) \/ Connect(p) \/ Ends(p)
  BY <1>4 DEF Bind, Connect, Ends
<1>5. QED  BY <1>1, <1>2, <1>3, <1>4 DEF Process

\* What other processes do leaves the files of the run as they are, or makes them its own.
LEMMA LogsWait ==
  ASSUME TypeInv, ProcsInv, LogsInv, Background  PROVE LogsInv'
<1>1. UNCHANGED <<pc, jobs, outcome, run, job>> /\ ~Unlink
  BY DEF Background, scriptVars, run, job, Unlink, At, Finish
<1>2. UNCHANGED Mid /\ (Disturbed(run)' <=> Disturbed(run))
  BY <1>1 DEF Mid, Disturbed
<1>3. SUFFICES ASSUME Mid
               PROVE  /\ job.script = "runmm2" => Mm2Logs'
                      /\ job.script = "vatic" => VaticLogs'
                      /\ job.script \in {"runmm", "multi"} => MmLogs'
  BY <1>1, <1>2 DEF LogsInv
<1>4. [Next]_vars /\ run > 0 /\ run \in Runs  BY <1>3 DEF Next, TypeInv, Queue, Runs, run
<1>5. \A file : file[3] \in {"uplink", "downlink"} /\ Holds(file) => WillHold(file)
  BY <1>1, <1>4, FileKept
<1>6. CASE job.script = "runmm2"
  <2>1. Mm2Logs  BY <1>3, <1>6 DEF LogsInv
  <2>2. /\ Log(job)[3] = "uplink" /\ Rtt(job)[3] = "sender_RTT" /\ Tput(job)[3] = "receiver_tput"
        /\ \A kind : Pcap(kind)[3] \in {"sender.pcap", "receiver.pcap"}
    BY DEF Log, Pcap, PcapS, PcapR, Rtt, Tput, File
  <2>3. /\ Log(job)' = Log(job) /\ Rtt(job)' = Rtt(job) /\ Tput(job)' = Tput(job)
        /\ \A kind : Own(kind)' = Own(kind) /\ Pcap(kind)' = Pcap(kind)
    BY <1>1 DEF Log, Pcap, PcapS, PcapR, Rtt, Tput, Own
  <2>4. pc \in {"traffic", "wait", "kill", "extract", "plot", "unlink"} => Holds(Log(job))'
    BY <1>5, <2>1, <2>2, <2>3 DEF Mm2Logs, Holds, WillHold, Exists
  <2>5. ASSUME ~Disturbed(run), NEW kind \in Dumpers, Holds(Pcap(kind))  PROVE Holds(Pcap(kind))'
    <3>1. \A p \in procs : Kind(p) \in {"dumpS", "dumpR"} => RunOf(p) = run
      BY <1>3, <1>6, <2>5, OwnWriters
    <3>2. WillHold(Pcap(kind))  BY <1>1, <1>4, <2>2, <2>5, <3>1, FileKept
    <3>3. QED  BY <2>3, <3>2 DEF Holds, WillHold, Exists
  <2>6. ASSUME pc \in {"link", "traffic", "wait"}, ~Disturbed(run), NEW kind \in Dumpers,
               Own(kind) \in up'
        PROVE  Holds(Pcap(kind))'
    <3>1. CASE Own(kind) \in up
      BY <2>1, <2>5, <2>6, <3>1 DEF Mm2Logs
    <3>2. CASE files' = Written(Pcap(kind), run)
      BY <1>1, <2>3, <3>2, WrittenFile DEF Holds, Exists
    <3>3. QED  BY <1>4, <2>6, <3>1, <3>2, Capturing
  <2>7. /\ Content(Rtt(job))' = Content(Rtt(job))
        /\ Content(Tput(job))' = Content(Tput(job))
    BY <2>2, <2>3, ProcessFiles DEF Content, Exists
  <2>8. \A kind \in Dumpers : Own(kind) \in procs => Own(kind)' \in procs'
    BY <1>4, <2>3, Capturing
  <2>9. Mm2Logs'
    <3>1. /\ pc \in {"link", "traffic", "wait"} => Own("dumpR")' \in procs'
          /\ pc = "wait" => Own("dumpS")' \in procs'
      BY <2>1, <2>8 DEF Mm2Logs, Dumpers
    <3>2. ASSUME ~Disturbed(run), NEW kind \in Dumpers
          PROVE  /\ pc \in {"link", "traffic", "wait"} /\ Own(kind)' \in up' => Holds(Pcap(kind))'
                 /\ pc \in {"kill", "extract"} => Holds(Pcap(kind))'
      BY <2>1, <2>3, <2>5, <2>6, <3>2 DEF Mm2Logs
    <3>3. QED  BY <1>1, <1>2, <2>1, <2>4, <2>7, <3>1, <3>2 DEF Mm2Logs
  <2>10. QED  BY <1>6, <2>9
<1>7. CASE job.script = "vatic"
  <2>1. VaticLogs  BY <1>3, <1>7 DEF LogsInv
  <2>2. VaticLog(job)[3] = "uplink" /\ \A name : Dat(job, name)[3] = name
    BY DEF VaticLog, Dat, File
  <2>3. VaticLog(job)' = VaticLog(job) /\ \A name : Dat(job, name)' = Dat(job, name)
    BY <1>1 DEF VaticLog, Dat
  <2>4. PICK p \in procs : Process(p)  BY DEF Background
  <2>5. Kind(p) = "sender" => RunOf(p) # run
    BY <1>7 DEF ProcsInv, ByScript, job
  <2>6. CASE peer'[run] # 0 /\ peer[run] = 0
    <3>1. peer \in [1 .. MaxRuns -> 0 .. run] /\ run \in 1 .. MaxRuns
      BY <1>4, MachineAssumption DEF TypeInv, TypeOK, Queue, Runs, run
    <3>2. ServerEnds(p) /\ RunOf(p) = run
      BY <2>4, <2>5, <2>6, <3>1
      DEF Process, Bind, Connect, Ends, Dumps, Capture, ServerEnds
    <3>3. files' = Overwritten([f \in {Dat(job, name) : name \in {"cwnd", "alpha", "centroids"}} |->
                                  RunOf(p)])
      BY <2>6, <3>2 DEF ServerEnds, job
    <3>4. \A name \in {"cwnd", "alpha", "centroids"} : Holds(Dat(job, name))'
      BY <1>1, <2>3, <3>2, <3>3 DEF Holds, Exists, Overwritten
    <3>5. pc # "construct"
      BY <1>3, <1>7, <3>2 DEF ProcsInv, OwnProcs, VaticOwn, Only
    <3>6. Holds(VaticLog(job))'
      BY <1>5, <2>1, <2>2, <2>3, <3>5 DEF VaticLogs, Holds, WillHold, Exists
    <3>7. QED  BY <1>1, <1>7, <3>4, <3>5, <3>6 DEF VaticLogs
  <2>7. CASE ~(peer'[run] # 0 /\ peer[run] = 0)
    <3>1. ASSUME ~Disturbed(run), NEW name \in {"cwnd", "alpha", "centroids"}, Holds(Dat(job, name))
          PROVE  Holds(Dat(job, name))'
      <4>1. \A q \in procs : Kind(q) = "server" => RunOf(q) = run
        BY <1>3, <1>7, <3>1, OwnWriters
      <4>2. WillHold(Dat(job, name))  BY <1>1, <1>4, <2>2, <3>1, <4>1, FileKept
      <4>3. QED  BY <2>3, <4>2 DEF Holds, WillHold, Exists
    <3>2. pc # "construct" => Holds(VaticLog(job))'
      BY <1>5, <2>1, <2>2, <2>3 DEF VaticLogs, Holds, WillHold, Exists
    <3>3. pc = "construct" => peer'[run] = 0  BY <2>1, <2>7 DEF VaticLogs
    <3>4. QED  BY <1>1, <1>2, <1>7, <2>1, <2>7, <3>1, <3>2, <3>3 DEF VaticLogs
  <2>8. QED  BY <2>6, <2>7
<1>8. CASE job.script \in {"runmm", "multi"}
  <2>1. MmLogs  BY <1>3, <1>8 DEF LogsInv
  <2>2. PlotLog(job)[3] \in {"uplink", "downlink"}  BY DEF PlotLog, LogName, File
  <2>3. /\ PlotLog(job)' = PlotLog(job) /\ Side(job)' = Side(job)
        /\ Switched(run)' <=> Switched(run)
    BY <1>1 DEF PlotLog, Side, Switched
  <2>4. Holds(PlotLog(job)) => Holds(PlotLog(job))'
    BY <1>5, <2>2, <2>3 DEF Holds, WillHold, Exists
  <2>5. QED  BY <1>1, <1>8, <2>1, <2>3, <2>4 DEF MmLogs
<1>9. QED  BY <1>6, <1>7, <1>8

LEMMA LogsMm2 ==
  ASSUME TypeInv, ProcsInv, LogsInv, Mm2Step, Moves  PROVE LogsInv'
<1>1. UNCHANGED <<jobs, outcome, run, job>> /\ Mid /\ Mid' /\ run > 0
  BY DEF Moves, run, job
<1>2. job.script = "runmm2" /\ [Next]_vars /\ run \in Runs
  BY <1>1
  DEF Mm2Step, BatchNext, Construct, CleanState, RunCCP, Launch, Link, Traffic, Wait, KillAll,
      Extract, Plot, PlotFails, Unlink, At, Mid, Next, Script, TypeInv, Queue, Runs, run
<1>3. Mm2Logs  BY <1>1, <1>2 DEF LogsInv
<1>4. Disturbed(run)' <=> Disturbed(run)  BY <1>1 DEF Disturbed
<1>5. Log(job)[3] = "uplink"  BY DEF Log, File
<1>6. /\ Log(job)' = Log(job) /\ Rtt(job)' = Rtt(job) /\ Tput(job)' = Tput(job)
      /\ \A kind : Own(kind)' = Own(kind) /\ Pcap(kind)' = Pcap(kind)
  BY <1>1 DEF Log, Pcap, PcapS, PcapR, Rtt, Tput, Own
<1>7. Holds(Log(job)) => Holds(Log(job))'
  BY <1>1, <1>2, <1>5, <1>6, FileKept DEF Holds, WillHold, Exists
<1>8. SUFFICES Mm2Logs'  BY <1>1, <1>2 DEF LogsInv
<1>9. CASE Construct \/ CleanState \/ RunCCP
  BY <1>9 DEF Construct, CleanState, RunCCP, At, Goto, Mm2Logs
<1>10. CASE Launch
  <2>1. pc = "launch" /\ pc' = "link" /\ Own("dumpR") \in procs' /\ UNCHANGED up
    BY <1>10 DEF Launch, At, Goto, Start
  <2>2. \A kind \in Dumpers : Own(kind) \notin up
    BY <1>1, <1>2, <2>1
    DEF Dumpers, ProcsInv, OwnProcs, Mm2Own, Only, TypeInv, TypeOK, Own, Kind, RunOf
  <2>3. QED  BY <1>6, <2>1, <2>2 DEF Mm2Logs
<1>11. CASE Link
  <2>1. /\ files' = Written(Log(job), run) /\ pc = "link" /\ pc' = "traffic" /\ UNCHANGED up
        /\ procs \subseteq procs'
    BY <1>11 DEF Link, At, Goto, Start
  <2>2. Holds(Log(job))'  BY <1>1, <1>6, <2>1, WrittenFile DEF Holds, Exists
  <2>3. \A kind : Pcap(kind) # Log(job)  BY DEF Pcap, PcapS, PcapR, Log, File
  <2>4. \A kind : Holds(Pcap(kind)) => Holds(Pcap(kind))'
    BY <1>1, <1>6, <2>1, <2>3, WrittenFile DEF Holds, Exists
  <2>5. Own("dumpR")' \in procs'  BY <1>3, <1>6, <2>1 DEF Mm2Logs
  <2>6. QED  BY <1>3, <1>4, <1>6, <2>1, <2>2, <2>4, <2>5 DEF Mm2Logs
<1>12. UNCHANGED files => \A kind : Holds(Pcap(kind)) => Holds(Pcap(kind))'
  BY <1>1, <1>6 DEF Holds, Exists
<1>13. CASE Traffic
  <2>1. pc = "traffic" /\ pc' = "wait" /\ Own("dumpS") \in procs' /\ UNCHANGED <<up, files>>
        /\ procs \subseteq procs'
    BY <1>13 DEF Traffic, At, Goto, Start
  <2>2. Own("dumpR")' \in procs' /\ Own("dumpS")' \in procs'  BY <1>3, <1>6, <2>1 DEF Mm2Logs
  <2>3. QED  BY <1>3, <1>4, <1>6, <1>7, <1>12, <2>1, <2>2 DEF Mm2Logs
<1>14. CASE Wait
  <2>1. pc = "wait" /\ pc' = "kill" /\ UNCHANGED files
        /\ \A p \in procs : RunOf(p) = run /\ p \notin up => Kind(p) \in {"mm", "ccp"}
    BY <1>14 DEF Wait, At, Goto, Starting
  <2>2. \A kind \in Dumpers : Own(kind) \in up
    BY <1>3, <2>1 DEF Mm2Logs, Dumpers, Own, Kind, RunOf
  <2>3. ~Disturbed(run) => \A kind \in Dumpers : Holds(Pcap(kind))
    BY <1>3, <2>1, <2>2 DEF Mm2Logs
  <2>4. QED  BY <1>3, <1>4, <1>7, <1>12, <2>1, <2>3 DEF Mm2Logs
<1>15. CASE KillAll
  <2>1. pc = "kill" /\ pc' = "extract" /\ UNCHANGED files  BY <1>15 DEF KillAll, At, Goto
  <2>2. QED  BY <1>3, <1>4, <1>7, <1>12, <2>1 DEF Mm2Logs
<1>16. CASE Extract
  <2>1. pc = "extract" /\ pc' = "plot"  BY <1>16 DEF Extract, At, Goto
  <2>2. \A file \in {Rtt(job), Tput(job)} :
          /\ file \in DOMAIN files'
          /\ files'[file] \in {0, Content(Pcap("dumpS")), Content(Pcap("dumpR"))}
    BY <1>16 DEF Extract, Overwritten, Pcap
  <2>3. ~Disturbed(run) => \A kind \in Dumpers : Content(Pcap(kind)) = run
    BY <1>3, <2>1 DEF Mm2Logs, Holds, Content
  <2>4. ~Disturbed(run) => Content(Rtt(job))' \in {0, run} /\ Content(Tput(job))' \in {0, run}
    BY <1>6, <2>2, <2>3 DEF Content, Exists, Dumpers
  <2>5. QED  BY <1>1, <1>3, <1>4, <1>7, <2>1, <2>4 DEF Mm2Logs
<1>17. CASE Plot
  BY <1>3, <1>7, <1>17 DEF Plot, At, Goto, Mm2Logs
<1>18. QED
  BY <1>1, <1>9, <1>10, <1>11, <1>13, <1>14, <1>15, <1>16, <1>17
  DEF Mm2Step, BatchNext, PlotFails, Unlink, Finish, Mid

LEMMA LogsVatic ==
  ASSUME TypeInv, ProcsInv, LogsInv, VaticStep, Moves  PROVE LogsInv'
<1>1. UNCHANGED <<jobs, outcome, run, job>> /\ Mid /\ Mid' /\ run > 0
  BY DEF Moves, run, job
<1>2. /\ job.script = "vatic" /\ [Next]_vars /\ run \in Runs /\ ~Unlink
      /\ peer' = peer /\ pc' # "construct"
  BY <1>1
  DEF VaticStep, VaticLaunch, VaticClient, VaticServer, Communicate, VaticKill, PlotVatic,
      VaticPlot, VaticAt, Next, Script, TypeInv, Queue, Runs, run, Start, Kill, procVars,
      Goto, Finish, Unlink, At
<1>3. VaticLogs  BY <1>1, <1>2 DEF LogsInv
<1>4. Disturbed(run)' <=> Disturbed(run)  BY <1>1 DEF Disturbed
<1>5. VaticLog(job)[3] = "uplink" /\ \A name : Dat(job, name)[3] = name
  BY DEF VaticLog, Dat, File
<1>6. VaticLog(job)' = VaticLog(job) /\ \A name : Dat(job, name)' = Dat(job, name)
  BY <1>1 DEF VaticLog, Dat
<1>7. ASSUME ~Disturbed(run), NEW name \in {"cwnd", "alpha", "centroids"}, Holds(Dat(job, name))
      PROVE  Holds(Dat(job, name))'
  <2>1. \A q \in procs : Kind(q) = "server" => RunOf(q) = run
    BY <1>1, <1>2, <1>7, OwnWriters
  <2>2. WillHold(Dat(job, name))  BY <1>1, <1>2, <1>5, <1>7, <2>1, FileKept
  <2>3. QED  BY <1>6, <2>2 DEF Holds, WillHold, Exists
<1>8. Holds(VaticLog(job))'
  <2>1. CASE VaticLaunch
    BY <1>1, <1>6, <2>1, WrittenFile DEF VaticLaunch, Holds, Exists
  <2>2. CASE ~VaticLaunch
    <3>1. pc # "construct"
      BY <2>2
      DEF VaticStep, VaticClient, VaticServer, Communicate, VaticKill, PlotVatic, VaticPlot,
          VaticAt
    <3>2. QED  BY <1>1, <1>2, <1>3, <1>5, <1>6, <3>1, FileKept DEF VaticLogs, Holds, WillHold, Exists
  <2>3. QED  BY <2>1, <2>2
<1>9. VaticLogs'  BY <1>1, <1>2, <1>3, <1>4, <1>7, <1>8 DEF VaticLogs
<1>10. QED  BY <1>1, <1>2, <1>9 DEF LogsInv

LEMMA LogsMm ==
  ASSUME TypeInv, ProcsInv, LogsInv, MmStep, Moves  PROVE LogsInv'
<1>1. UNCHANGED <<jobs, outcome, run, job>> /\ Mid /\ Mid' /\ run > 0
  BY DEF Moves, run, job
<1>2. job.script \in {"runmm", "multi"}
  BY DEF MmStep, MmConstruct, MmLaunch, MmTraffic, MmWaitSender, MmWaitReceiver, MmPlot, MmAt
<1>3. MmLogs  BY <1>1, <1>2 DEF LogsInv
<1>4. /\ PlotLog(job)' = PlotLog(job) /\ Side(job)' = Side(job)
      /\ Switched(run)' <=> Switched(run)
  BY <1>1 DEF PlotLog, Side, Switched
<1>5. ~Switched(run) => LinkLog(job) = PlotLog(job)
  BY DEF Switched, LinkLog, PlotLog, job
<1>6. SUFFICES ASSUME ~Switched(run)
               PROVE  /\ pc' = "traffic" /\ Side(job) # "sender" => Holds(PlotLog(job))'
                      /\ pc' \in {"waitSender", "waitReceiver", "plot"} => Holds(PlotLog(job))'
  BY <1>1, <1>2, <1>4 DEF LogsInv, MmLogs
<1>7. UNCHANGED files /\ Holds(PlotLog(job)) => Holds(PlotLog(job))'
  BY <1>1, <1>4 DEF Holds, Exists
<1>8. files' = Written(LinkLog(job), run) => Holds(PlotLog(job))'
  BY <1>1, <1>4, <1>5, <1>6, WrittenFile DEF Holds, Exists
<1>9. CASE MmLaunch
  BY <1>8, <1>9 DEF MmLaunch, MmAt, Goto
<1>10. CASE MmTraffic
  BY <1>3, <1>6, <1>7, <1>8, <1>10 DEF MmTraffic, MmAt, Goto, MmLogs
<1>11. CASE MmWaitSender \/ MmWaitReceiver
  BY <1>3, <1>6, <1>7, <1>11 DEF MmWaitSender, MmWaitReceiver, MmAt, Goto, MmLogs
<1>12. CASE MmConstruct \/ MmPlot
  BY <1>1, <1>12 DEF MmConstruct, MmPlot, MmAt, Goto, Finish, Mid
<1>13. QED  BY <1>9, <1>10, <1>11, <1>12 DEF MmStep

LEMMA LogsStep ==
  ASSUME TypeInv, TypeInv', ProcsInv, LogsInv, [Next]_vars  PROVE LogsInv'
<1>1. CASE ~Mid'
  BY <1>1 DEF LogsInv
<1>2. CASE Mid' /\ run' = run + 1
  <2>1. pc' = "construct" /\ ~Mid /\ UNCHANGED peer
    BY <1>2, Control
    DEF UserRuns, BatchStart, BatchNext, Moves, Finishes, Finish, GivesUp, scriptVars, run,
        procVars, Mid, TypeInv, Queue
  <2>2. peer'[run'] = 0
    BY <1>2, <2>1, MachineAssumption DEF TypeInv, Unreached, TypeOK, Queue, run
  <2>3. QED  BY <2>1, <2>2 DEF LogsInv, Mm2Logs, VaticLogs, MmLogs
<1>3. CASE Mid' /\ run' # run + 1
  <2>1. Moves \/ UNCHANGED scriptVars
    BY <1>3, Control
    DEF UserRuns, BatchStart, BatchNext, Finishes, Finish, GivesUp, run, Mid, TypeInv, Queue
  <2>2. CASE Script
    <3>1. Moves
      BY <2>1, <2>2
      DEF Script, Mm2Step, BatchNext, Construct, CleanState, RunCCP, Launch, Link, Traffic, Wait,
          KillAll, Extract, Plot, PlotFails, Unlink, At, VaticStep, VaticLaunch, VaticClient,
          VaticServer, Communicate, VaticKill, PlotVatic, VaticPlot, VaticAt, MmStep,
          MmConstruct, MmLaunch, MmTraffic, MmWaitSender, MmWaitReceiver, MmPlot, MmAt, Goto,
          Finish, scriptVars
    <3>2. QED  BY <2>2, <3>1, LogsMm2, LogsVatic, LogsMm DEF Script
  <2>3. CASE Background
    BY <2>3, LogsWait
  <2>4. CASE Stopped \/ UNCHANGED vars
    <3>1. UNCHANGED <<scriptVars, procs, up, peer, files, run, job>>
      BY <2>4 DEF Stopped, vars, scriptVars, procVars, run, job
    <3>2. UNCHANGED <<Mid, Mm2Logs, VaticLogs, MmLogs>>
      BY <3>1
      DEF scriptVars, Mid, Mm2Logs, VaticLogs, MmLogs, Disturbed, Switched, Holds, Exists,
          Content, Own, Pcap
    <3>3. QED  BY <3>1, <3>2 DEF LogsInv
  <2>5. CASE UserRuns \/ BatchStart \/ Mm2Interrupt \/ VaticInterrupt \/ MmInterrupt
    <3>1. ~(UNCHANGED scriptVars)
      BY <2>5
      DEF UserRuns, BatchStart, Mm2Interrupt, VaticInterrupt, MmInterrupt, Interrupt, Finish,
          scriptVars
    <3>2. ~Moves
      BY <2>5
      DEF UserRuns, BatchStart, Mm2Interrupt, VaticInterrupt, MmInterrupt, Interrupt, Finish,
          Moves, Mid
    <3>3. QED  BY <2>1, <3>1, <3>2
  <2>6. QED  BY <2>2, <2>3, <2>4, <2>5 DEF Next
<1>4. QED  BY <1>1, <1>2, <1>3

\* When a run plots, the files it plots are its own.
LEMMA PlotsOwn ==
  ASSUME TypeInv, LogsInv, ShownInv, ShowsOwnLogs, [Next]_vars, shown' # shown
  PROVE  /\ run \in Runs /\ Mid /\ UNCHANGED <<jobs, peer>>
         /\ \A n \in 1 .. MaxRuns : n # run => shown'[n] = shown[n]
         /\ peer[run] # 0 /\ ~Disturbed(run) /\ ~Switched(run) => shown'[run] \subseteq {run}
         /\ outcome'[run] # "interrupted"
         /\ Mid' => \/ job.script = "runmm2" /\ pc' = "unlink"
                    \/ job.script = "vatic" /\ pc' = "plot"
<1>1. /\ shown \in [1 .. MaxRuns -> SUBSET (0 .. run)] /\ run \in Nat /\ run <= MaxRuns
      /\ outcome \in [1 .. MaxRuns -> {"going", "ok", "failed", "interrupted"}]
      /\ MaxRuns \in Nat
  BY MachineAssumption DEF TypeInv, TypeOK, Queue, run
<1>2. Mid /\ run > 0 => outcome[run] = "going" /\ run \in 1 .. MaxRuns
  BY <1>1 DEF TypeInv, Outcomes
<1>3. CASE Plot
  <2>1. /\ run > 0 /\ Mid /\ pc' = "unlink" /\ job.script = "runmm2" /\ pc = "plot"
        /\ UNCHANGED <<jobs, peer, outcome>> /\ CanPlot
        /\ shown' =
             [shown EXCEPT ![run] = {Content(Log(job)), Content(Rtt(job)), Content(Tput(job))}]
    BY <1>3 DEF Plot, At, Goto, Mid, procVars
  <2>2. Mm2Logs  BY <2>1 DEF LogsInv
  <2>3. Content(Log(job)) = run  BY <2>1, <2>2 DEF Mm2Logs, Holds, Content
  <2>4. ~Disturbed(run) => Content(Rtt(job)) = run /\ Content(Tput(job)) = run
    BY <2>1, <2>2 DEF Mm2Logs, CanPlot
  <2>5. QED  BY <1>1, <1>2, <2>1, <2>3, <2>4 DEF Runs
<1>4. CASE PlotVatic
  <2>1. /\ run > 0 /\ Mid /\ job.script = "vatic" /\ pc = "plotVatic"
        /\ pc' = "plot" /\ UNCHANGED <<jobs, peer, outcome>>
        /\ shown' = [shown EXCEPT ![run] =
             @ \union {files[dat] : dat \in {Dat(job, name) : name \in {"cwnd", "alpha", "centroids"}}}]
    BY <1>4 DEF PlotVatic, VaticAt, Goto, Mid, procVars
  <2>2. shown[run] = {}  BY <1>2, <2>1 DEF ShownInv
  <2>3. peer[run] # 0 /\ ~Disturbed(run) =>
          \A name \in {"cwnd", "alpha", "centroids"} : files[Dat(job, name)] = run
    BY <2>1 DEF LogsInv, VaticLogs, Holds
  <2>4. QED  BY <1>1, <1>2, <2>1, <2>2, <2>3 DEF Runs
<1>5. CASE VaticPlot
  <2>1. /\ run > 0 /\ Mid /\ job.script = "vatic" /\ pc = "plot" /\ ~Mid'
        /\ UNCHANGED <<jobs, peer>> /\ outcome' = [outcome EXCEPT ![run] = "ok"]
        /\ shown' = [shown EXCEPT ![run] = @ \union {Content(VaticLog(job))}]
    BY <1>5 DEF VaticPlot, VaticAt, Finish, Mid, procVars
  <2>2. Content(VaticLog(job)) = run  BY <2>1 DEF LogsInv, VaticLogs, Holds, Content
  <2>3. QED  BY <1>1, <1>2, <2>1, <2>2 DEF ShowsOwnLogs, Runs
<1>6. CASE MmPlot
  <2>1. /\ run > 0 /\ Mid /\ job.script \in {"runmm", "multi"} /\ pc = "plot" /\ ~Mid'
        /\ UNCHANGED <<jobs, peer>> /\ outcome' = [outcome EXCEPT ![run] = "ok"]
        /\ shown' = [shown EXCEPT ![run] = {Content(PlotLog(job))}]
    BY <1>6 DEF MmPlot, MmAt, Finish, Mid, procVars
  <2>2. ~Switched(run) => Content(PlotLog(job)) = run
    BY <2>1 DEF LogsInv, MmLogs, Holds, Content
  <2>3. QED  BY <1>1, <1>2, <2>1, <2>2 DEF Runs
<1>7. QED  BY Shows, <1>3, <1>4, <1>5, <1>6

\* A run is interrupted only while it waits, before it plots anything.
LEMMA InterruptedEarly ==
  ASSUME TypeInv, ShownInv, [Next]_vars, NEW n \in Runs, shown[n] # {}
  PROVE  outcome'[n] # "interrupted"
<1>1. /\ outcome \in [1 .. MaxRuns -> {"going", "ok", "failed", "interrupted"}]
      /\ n \in 1 .. MaxRuns /\ run \in Nat /\ n <= run
  BY MachineAssumption DEF TypeInv, TypeOK, Queue, Runs, run
<1>2. outcome[n] # "interrupted"  BY <1>1 DEF ShownInv
<1>3. CASE Past(n)
  BY <1>2, <1>3, PastIsFinal
<1>4. CASE ~Past(n)
  <2>1. n = run /\ Mid /\ \/ job.script = "runmm2" /\ pc = "unlink"
                          \/ job.script = "vatic" /\ pc = "plot"
    BY <1>1, <1>4 DEF Past, ShownInv
  <2>2. CASE Mm2Interrupt \/ VaticInterrupt \/ MmInterrupt
    BY <2>1, <2>2 DEF Mm2Interrupt, VaticInterrupt, MmInterrupt, Interrupt
  <2>3. CASE Script
    <3>1. Unlink \/ VaticPlot
      BY <2>1, <2>3
      DEF Script, Mm2Step, BatchNext, Construct, CleanState, RunCCP, Launch, Link, Traffic, Wait,
          KillAll, Extract, Plot, PlotFails, At, VaticStep, VaticLaunch, VaticClient,
          VaticServer, Communicate, VaticKill, PlotVatic, VaticAt, MmStep,
          MmConstruct, MmLaunch, MmTraffic, MmWaitSender, MmWaitReceiver, MmPlot, MmAt
    <3>2. PICK result \in {"ok", "failed"} : outcome' = [outcome EXCEPT ![run] = result]
      BY <3>1 DEF Unlink, VaticPlot, Finish
    <3>3. QED  BY <1>1, <2>1, <3>2
  <2>4. CASE UserRuns \/ BatchStart \/ Background \/ Stopped \/ UNCHANGED vars
    BY <1>2, <2>4 DEF UserRuns, BatchStart, Background, Stopped, vars, scriptVars
  <2>5. QED  BY <2>2, <2>3, <2>4 DEF Next
<1>5. QED  BY <1>3, <1>4

LEMMA ShownStep ==
  ASSUME TypeInv, TypeInv', LogsInv, ShownInv, ShowsOwnLogs, [Next]_vars
  PROVE  ShownInv'
<1>1. /\ run \in Nat /\ run' \in Nat /\ run <= run' /\ run' <= MaxRuns /\ MaxRuns \in Nat
      /\ \A m \in Runs : jobs'[m] = jobs[m]
  BY QueueStep, MachineAssumption DEF TypeInv, Queue, run
<1>2. SUFFICES ASSUME NEW n \in 1 .. MaxRuns, shown'[n] # {}
               PROVE  /\ n <= run' /\ outcome'[n] # "interrupted"
                      /\ n = run' /\ Mid' => \/ job'.script = "runmm2" /\ pc' = "unlink"
                                             \/ job'.script = "vatic" /\ pc' = "plot"
  BY DEF ShownInv
<1>3. CASE shown'[n] # shown[n]
  <2>1. shown' # shown /\ n = run  BY <1>3, PlotsOwn
  <2>2. job' = job  BY <2>1, PlotsOwn DEF job, run
  <2>3. QED  BY <1>1, <2>1, <2>2, PlotsOwn
<1>4. CASE shown'[n] = shown[n]
  <2>1. shown[n] # {}  BY <1>2, <1>4
  <2>2. n \in Runs /\ n <= run  BY <1>1, <2>1 DEF ShownInv, Runs
  <2>3. outcome'[n] # "interrupted"  BY <2>1, <2>2, InterruptedEarly
  <2>4. ASSUME n = run', Mid'
        PROVE  \/ job'.script = "runmm2" /\ pc' = "unlink"
               \/ job'.script = "vatic" /\ pc' = "plot"
    <3>1. run' = run /\ n = run  BY <1>1, <2>2, <2>4
    <3>2. Moves \/ UNCHANGED scriptVars
      BY <1>1, <2>4, <3>1, Control
      DEF UserRuns, BatchStart, BatchNext, Finishes, Finish, GivesUp, run, Mid, TypeInv, Queue
    <3>3. Mid /\ UNCHANGED jobs /\ UNCHANGED job
      BY <2>4, <3>2 DEF Moves, scriptVars, Mid, job, run
    <3>4. \/ job.script = "runmm2" /\ pc = "unlink"
          \/ job.script = "vatic" /\ pc = "plot"
      BY <2>1, <3>1, <3>3 DEF ShownInv
    <3>5. CASE UNCHANGED scriptVars
      BY <3>3, <3>4, <3>5 DEF scriptVars
    <3>6. CASE Script
      <4>1. Unlink \/ VaticPlot
        BY <3>4, <3>6
        DEF Script, Mm2Step, BatchNext, Construct, CleanState, RunCCP, Launch, Link, Traffic,
            Wait, KillAll, Extract, Plot, PlotFails, At, VaticStep, VaticLaunch, VaticClient,
            VaticServer, Communicate, VaticKill, PlotVatic, VaticAt, MmStep, MmConstruct,
            MmLaunch, MmTraffic, MmWaitSender, MmWaitReceiver, MmPlot, MmAt
      <4>2. QED  BY <2>4, <4>1 DEF Unlink, VaticPlot, Finish, Mid
    <3>7. CASE ~Script /\ Moves
      <4>1. UNCHANGED scriptVars
        BY <3>7
        DEF Next, vars, UserRuns, BatchStart, Background, Mm2Interrupt, VaticInterrupt,
            MmInterrupt, Interrupt, Finish, Stopped, Moves, Mid
      <4>2. QED  BY <3>5, <4>1
    <3>8. QED  BY <3>2, <3>5, <3>6, <3>7
  <2>5. QED  BY <1>1, <2>2, <2>3, <2>4
<1>5. QED  BY <1>3, <1>4

\* Once a run shows something, what its sender or server reached does not change.
LEMMA PeerIsFinal ==
  ASSUME TypeInv, ProcsInv, ShownInv, [Next]_vars, NEW n \in Runs, shown[n] # {}
  PROVE  peer'[n] = peer[n]
<1>1. /\ peer \in [1 .. MaxRuns -> 0 .. run] /\ run \in Nat /\ n \in 1 .. MaxRuns /\ n <= run
  BY MachineAssumption DEF TypeInv, TypeOK, Queue, Runs, run
<1>2. outcome[n] # "interrupted"  BY <1>1 DEF ShownInv
<1>3. \A p \in procs : Kind(p) \in {"sender", "server"} => RunOf(p) # n
  <2>1. SUFFICES ASSUME NEW p \in procs, Kind(p) \in {"sender", "server"}, RunOf(p) = n
                 PROVE  FALSE
    OBVIOUS
  <2>2. ~Past(n)  BY <1>2, <2>1 DEF ProcsInv, Leftovers
  <2>3. n = run /\ Mid  BY <1>1, <2>2 DEF Past
  <2>4. \/ job.script = "runmm2" /\ pc = "unlink"
        \/ job.script = "vatic" /\ pc = "plot"
    BY <1>1, <2>3 DEF ShownInv
  <2>5. QED  BY <2>1, <2>3, <2>4 DEF ProcsInv, OwnProcs, Mm2Own, VaticOwn, Only
<1>4. CASE Reaches
  BY <1>1, <1>3, <1>4 DEF Reaches
<1>5. CASE Closes
  BY <1>1, <1>3, <1>5 DEF Closes
<1>6. CASE Keeps \/ Starts \/ Removes \/ Comes
  BY <1>6 DEF Keeps, Starts, Removes, Comes, procVars
<1>7. QED  BY Processes, <1>4, <1>5, <1>6

LEMMA ShowsStep ==
  ASSUME TypeInv, TypeInv', ProcsInv, LogsInv, ShownInv, ShowsOwnLogs, [Next]_vars
  PROVE  ShowsOwnLogs'
<1>1. /\ run \in Nat /\ run' \in Nat /\ run <= run' /\ run' <= MaxRuns /\ MaxRuns \in Nat
      /\ \A m \in Runs : jobs'[m] = jobs[m]
  BY QueueStep, MachineAssumption DEF TypeInv, Queue, run
<1>2. SUFFICES ASSUME NEW n \in Runs', peer'[n] # 0, ~Disturbed(n)', ~Switched(n)'
               PROVE  shown'[n] \subseteq {n}
  BY DEF ShowsOwnLogs
<1>3. n \in 1 .. MaxRuns  BY <1>1 DEF Runs
<1>4. CASE shown'[n] # shown[n]
  <2>1. shown' # shown /\ n = run /\ n \in Runs  BY <1>3, <1>4, PlotsOwn
  <2>2. ~Disturbed(n) /\ ~Switched(n) /\ peer[n] # 0
    BY <1>1, <1>2, <2>1, PastIsFinal, PlotsOwn DEF Switched, Side
  <2>3. QED  BY <2>1, <2>2, PlotsOwn
<1>5. CASE shown'[n] = shown[n] /\ shown[n] # {}
  <2>1. n \in Runs  BY <1>1, <1>3, <1>5 DEF ShownInv, Runs
  <2>2. ~Disturbed(n) /\ ~Switched(n)
    BY <1>1, <1>2, <2>1, PastIsFinal DEF Switched, Side
  <2>3. peer[n] # 0  BY <1>2, <1>5, <2>1, PeerIsFinal
  <2>4. QED  BY <1>5, <2>1, <2>2, <2>3 DEF ShowsOwnLogs
<1>6. QED  BY <1>4, <1>5

LEMMA LogsInit == MachineInit => LogsInv /\ ShownInv /\ ShowsOwnLogs
BY DEF MachineInit, LogsInv, ShownInv, ShowsOwnLogs, Mid, Runs, run

\* The plots of a run whose sender (or server) was heard show logs of that run only, however
\* often a configuration is run in a directory, unless an interrupted run of the same script
\* came before it or its side was switched (runmm2.py, runmmVatic.py, runmm.py).
THEOREM PlotsShowOwnLogs == Spec => []ShowsOwnLogs
BY LogsInit, TypeInit, TypeStep, ProcsInit, ProcsInvStep, LogsStep, ShownStep, ShowsStep, PTL
DEF Spec

-----------------------------------------------------------------------------
(* The table of results *)

\* The content of a file is a run of runmm2.py whose configuration gave it its name.
Named(file) ==
  LET n == files[file]
  IN /\ n \in Runs /\ jobs[n].script = "runmm2"
     /\ file[1] = jobs[n].dir /\ file[2] = Prefix(jobs[n])

\* What a file tells of: a capture of a run that has not succeeded, as the capture is removed
\* then, and a table's columns of runs with the configuration in the name.
TellsRight(file) ==
  /\ file = <<file[1], file[2], file[3]>>
  /\ file[3] = "sender.pcap" => Named(file) /\ outcome[files[file]] # "ok"
  /\ file[3] = "sender_RTT" => files[file] = 0 \/ Named(file)
  /\ file[3] = "uplink_mmtput" => Named(file)
NamesInv == \A file \in DOMAIN files : TellsRight(file)

\* The RTTs of a run that succeeded stand beside its throughput.
PairInv ==
  \A file \in DOMAIN files :
    file[3] = "sender_RTT" /\ files[file] # 0 /\ outcome[files[file]] = "ok" =>
      Exists(TputOf(file)) /\ files[TputOf(file)] = files[file]

\* Between its RTTs and its throughput a run has not overwritten those of another.
TableInv ==
  Mid /\ job.script = "runmm2" =>
    /\ pc = "plot" => Content(Rtt(job)) = 0 \/ outcome[Content(Rtt(job))] # "ok"
    /\ pc = "unlink" => Holds(MmTput(job))

RowsInv == NamesInv /\ PairInv /\ TableInv

LEMMA DivLess ==
  ASSUME NEW a \in Nat, NEW m \in Nat, NEW i \in Nat, 1 <= i, i <= a * m
  PROVE  (i - 1) \div m + 1 \in 1 .. a
<1>1. m > 0  BY SMT
<1> DEFINE d == (i - 1) \div m
<1>2. d \in Nat /\ d * m <= i - 1  BY <1>1, SMT
<1>3. d >= a => d * m >= a * m  BY <1>1, <1>2, SMT
<1> HIDE DEF d
<1>4. a * m \in Nat /\ d * m \in Nat  BY <1>2, SMT
<1>5. d < a  BY <1>2, <1>3, <1>4
<1>6. QED  BY <1>2, <1>5 DEF d

\* Every trace of the batch is one of its list.
LEMMA GridReadable ==
  ASSUME NEW j \in BatchJobs  PROVE Readable(j.trace)
<1> DEFINE a == Len(TraceList)
           m == Len(DelayList) * Len(FactorList)
<1>1. PICK args \in BatchArgs, i \in 1 .. a * Len(DelayList) * Len(FactorList) : j = Grid(args)[i]
  BY DEF BatchJobs, Grid
<1>2. j.trace = TraceList[(i - 1) \div m + 1].name  BY <1>1 DEF Grid, Config
<1>3. a \in Nat /\ m \in Nat  BY GridAssumption
<1>4. i <= a * m  BY <1>1, GridAssumption
<1> HIDE DEF a, m
<1>5. (i - 1) \div m + 1 \in 1 .. a  BY <1>1, <1>3, <1>4, DivLess
<1>6. QED  BY <1>2, <1>5, TraceAssumption DEF a

LEMMA JobReadable ==
  ASSUME TypeInv, NEW n \in Runs  PROVE Readable(jobs[n].trace)
<1>1. jobs[n] \in HandJobs \union BatchJobs  BY DEF TypeInv, Queue, Runs, run
<1>2. QED  BY <1>1, HandAssumption, GridReadable

LEMMA Parts ==
  ASSUME NEW S, NEW s \in Seq(S), NEW t \in Seq(S)
  PROVE  /\ s \o t \in Seq(S) /\ Len(s \o t) = Len(s) + Len(t)
         /\ \A i \in 1 .. Len(s) : (s \o t)[i] = s[i]
         /\ \A i \in 1 .. Len(t) : (s \o t)[Len(s) + i] = t[i]
OBVIOUS

\* A name that parses is the name of the configuration that the row is about.
LEMMA RowConfig ==
  ASSUME NEW j, Readable(j.trace), NEW file, file[2] = Prefix(j), Parses(file)
  PROVE  LET w == Words(file)
         IN /\ <<w[1]>> = j.trace /\ w[2].val = j.ttr /\ w[3].val = j.blk
            /\ (IF HasQ(file) THEN w[4].val ELSE None) = j.q
            /\ w[IF HasQ(file) THEN 5 ELSE 4].val = j.delay
<1> DEFINE t == j.trace
           head == <<Word("T", j.ttr), Word("KiB", j.blk)>>
           q == Optional(j.q # None, "Q", j.q)
           d == Optional(j.delay > 0, "delay", j.delay)
           tail == <<Word("sender", 0), Word("RTT", 0)>>
           w == Words(file)
           S == {t[i] : i \in 1 .. Len(t)} \union
                {Word("T", j.ttr), Word("KiB", j.blk), Word("Q", j.q), Word("delay", j.delay),
                 Word("sender", 0), Word("RTT", 0)}
<1>1. /\ t \in Seq([tag : STRING, val : Int]) /\ Len(t) \in Nat
      /\ Len(t) > 1 => t[2].tag \notin {"T", "Q"}
  BY DEF Readable
<1>2. file[2] = ((t \o head) \o q) \o d /\ w = file[2] \o tail
  BY DEF Prefix, Words
<1>3. t \in Seq(S)
  <2>1. t \in [1 .. Len(t) -> S]  BY <1>1
  <2>2. QED  BY <1>1, <2>1
<1>4. head \in Seq(S) /\ q \in Seq(S) /\ d \in Seq(S) /\ tail \in Seq(S)
  <2>1. {Word("T", j.ttr), Word("KiB", j.blk), Word("Q", j.q), Word("delay", j.delay),
         Word("sender", 0), Word("RTT", 0)} \subseteq S
    OBVIOUS
  <2> HIDE DEF S, w, t
  <2>2. head \in Seq(S) /\ tail \in Seq(S)  BY <2>1
  <2>3. q \in Seq(S)  BY <2>1 DEF Optional
  <2>4. d \in Seq(S)  BY <2>1 DEF Optional
  <2>5. QED  BY <2>2, <2>3, <2>4
<1>5. /\ Len(head) = 2 /\ head[1] = Word("T", j.ttr) /\ head[2] = Word("KiB", j.blk)
      /\ Len(tail) = 2 /\ tail[1] = Word("sender", 0) /\ tail[2] = Word("RTT", 0)
  OBVIOUS
<1>6. /\ Len(q) = IF j.q # None THEN 1 ELSE 0
      /\ j.q # None => q[1] = Word("Q", j.q)
      /\ Len(d) = IF j.delay > 0 THEN 1 ELSE 0
      /\ j.delay > 0 => d[1] = Word("delay", j.delay)
  BY DEF Optional
<1> DEFINE p1 == t \o head
           p2 == p1 \o q
           p3 == p2 \o d
<1> HIDE DEF t, head, q, d, tail, w, S
<1>7. /\ p1 \in Seq(S) /\ Len(p1) = Len(t) + 2
      /\ \A i \in 1 .. Len(t) : p1[i] = t[i]
      /\ p1[Len(t) + 1] = head[1] /\ p1[Len(t) + 2] = head[2]
  <2>1. /\ p1 \in Seq(S) /\ Len(p1) = Len(t) + Len(head)
        /\ \A i \in 1 .. Len(t) : p1[i] = t[i]
        /\ \A i \in 1 .. Len(head) : p1[Len(t) + i] = head[i]
    BY <1>3, <1>4, Parts
  <2> HIDE DEF p1
  <2>2. QED  BY <1>5, <2>1
<1>8. /\ p2 \in Seq(S) /\ Len(p2) = Len(p1) + Len(q)
      /\ \A i \in 1 .. Len(p1) : p2[i] = p1[i]
      /\ \A i \in 1 .. Len(q) : p2[Len(p1) + i] = q[i]
  <2> HIDE DEF p1
  <2>1. p1 \in Seq(S) /\ q \in Seq(S)  BY <1>4, <1>7
  <2>2. QED  BY <2>1, Parts
<1>9. /\ p3 \in Seq(S) /\ Len(p3) = Len(p2) + Len(d)
      /\ \A i \in 1 .. Len(p2) : p3[i] = p2[i]
      /\ \A i \in 1 .. Len(d) : p3[Len(p2) + i] = d[i]
  <2> HIDE DEF p2
  <2>1. p2 \in Seq(S) /\ d \in Seq(S)  BY <1>4, <1>8
  <2>2. QED  BY <2>1, Parts
<1>10. /\ Len(w) = Len(p3) + 2
       /\ \A i \in 1 .. Len(p3) : w[i] = p3[i]
       /\ w[Len(p3) + 1] = tail[1] /\ w[Len(p3) + 2] = tail[2]
  <2>1. w = p3 \o tail  BY <1>2
  <2> HIDE DEF p3
  <2>2. p3 \in Seq(S) /\ tail \in Seq(S)  BY <1>4, <1>9
  <2>3. /\ Len(p3 \o tail) = Len(p3) + Len(tail)
        /\ \A i \in 1 .. Len(p3) : (p3 \o tail)[i] = p3[i]
        /\ \A i \in 1 .. Len(tail) : (p3 \o tail)[Len(p3) + i] = tail[i]
    BY <2>2, Parts
  <2>4. QED  BY <1>5, <2>1, <2>3
<1>11. file[2] = p3  BY <1>2
<1> HIDE DEF p1, p2, p3
<1> DEFINE delayAt == IF HasQ(file) THEN 5 ELSE 4
<1>12. /\ Len(w) > delayAt
       /\ w[2].tag \in {"T", "Q"} /\ w[delayAt].tag = "delay"
  BY DEF Parses, w
<1>13. HasQ(file) <=> \E i \in 2 .. Len(p3) : p3[i].tag = "Q"
  BY <1>11 DEF HasQ
<1>14. Len(t) = 1
  <2>1. Len(t) # 0
    <3>1. SUFFICES ASSUME Len(t) = 0 PROVE FALSE  OBVIOUS
    <3>2. w[2] = Word("KiB", j.blk)  BY <1>5, <1>6, <1>7, <1>8, <1>9, <1>10, <3>1
    <3>3. QED  BY <1>12, <3>2 DEF Word
  <2>2. Len(t) < 2
    <3>1. SUFFICES ASSUME Len(t) >= 2 PROVE FALSE  BY <1>1
    <3>2. w[2] = t[2]  BY <1>1, <1>6, <1>7, <1>8, <1>9, <1>10, <3>1
    <3>3. QED  BY <1>1, <1>12, <3>1, <3>2
  <2>3. Len(t) \in Nat  BY <1>1
  <2>4. \A n \in Nat : n # 0 /\ n < 2 => n = 1  OBVIOUS
  <2>5. QED  BY <2>1, <2>2, <2>3, <2>4
<1>15. w[1] = t[1] /\ w[2] = Word("T", j.ttr) /\ w[3] = Word("KiB", j.blk)
  BY <1>5, <1>6, <1>7, <1>8, <1>9, <1>10, <1>14
<1>16. <<w[1]>> = t
  BY <1>1, <1>14, <1>15
<1>17. (IF HasQ(file) THEN w[4].val ELSE None) = j.q /\ w[delayAt].val = j.delay
  <2>1. CASE j.q # None
    <3>1. Len(p1) = 3 /\ Len(p2) = 4 /\ w[4] = Word("Q", j.q) /\ p3[4] = w[4] /\ Len(p3) \in {4, 5}
      BY <1>6, <1>7, <1>8, <1>9, <1>10, <1>14, <2>1
    <3>2. HasQ(file)  BY <1>13, <3>1 DEF Word
    <3>3. CASE j.delay > 0
      <4>1. w[5] = Word("delay", j.delay)  BY <1>6, <1>9, <1>10, <3>1, <3>3
      <4>2. QED  BY <3>1, <3>2, <4>1 DEF Word
    <3>4. CASE ~(j.delay > 0)
      <4>1. w[5] = Word("sender", 0)  BY <1>5, <1>6, <1>9, <1>10, <3>1, <3>4
      <4>2. QED  BY <1>12, <3>2, <4>1 DEF Word
    <3>5. QED  BY <3>3, <3>4
  <2>2. CASE j.q = None
    <3>1. Len(p1) = 3 /\ Len(p2) = 3  BY <1>6, <1>7, <1>8, <1>14, <2>2
    <3>2. CASE j.delay > 0
      <4>1. /\ Len(p3) = 4 /\ w[4] = Word("delay", j.delay) /\ w[5] = Word("sender", 0)
            /\ p3[4] = w[4]
        BY <1>5, <1>6, <1>9, <1>10, <3>1, <3>2
      <4>2. ~HasQ(file)  BY <1>12, <4>1 DEF Word
      <4>3. QED  BY <2>2, <4>1, <4>2 DEF Word
    <3>3. CASE ~(j.delay > 0)
      <4>1. Len(p3) = 3 /\ w[4] = Word("sender", 0) /\ w[5] = Word("RTT", 0)
        BY <1>5, <1>6, <1>9, <1>10, <3>1, <3>3
      <4>2. QED  BY <1>12, <4>1 DEF Word
    <3>4. QED  BY <3>2, <3>3
  <2>3. QED  BY <2>1, <2>2
<1>18. QED  BY <1>15, <1>16, <1>17 DEF t, w, Word

\* A run of runmm2.py reports success when it removes its captures.
LEMMA OkBy ==
  ASSUME TypeInv, [Next]_vars, NEW n \in Runs, outcome[n] # "ok", outcome'[n] = "ok"
  PROVE  n = run /\ Mid /\ (Unlink \/ job.script # "runmm2")
<1>1. /\ run \in Nat /\ n <= run /\ n \in 1 .. MaxRuns
      /\ outcome \in [1 .. MaxRuns -> {"going", "ok", "failed", "interrupted"}]
  BY MachineAssumption DEF TypeInv, TypeOK, Queue, Runs, run
<1>2. n = run /\ Mid
  BY <1>1, PastIsFinal DEF Past
<1>3. SUFFICES ASSUME job.script = "runmm2", ~Unlink PROVE FALSE  BY <1>2
<1>4. outcome' # outcome /\ outcome'[run] = "ok"  BY <1>2
<1>5. outcome' # [outcome EXCEPT ![run] = "failed"] /\ outcome' # [outcome EXCEPT ![run] = "interrupted"]
  BY <1>1, <1>2, <1>4
<1>6. CASE Mm2Step
  BY <1>3, <1>4, <1>5, <1>6
  DEF Mm2Step, BatchNext, Construct, CleanState, RunCCP, Launch, Link, Traffic, Wait, KillAll,
      Extract, Plot, PlotFails, Goto, Finish
<1>7. CASE VaticStep \/ MmStep
  BY <1>3, <1>7
  DEF VaticStep, VaticLaunch, VaticClient, VaticServer, Communicate, VaticKill, PlotVatic,
      VaticPlot, VaticAt, MmStep, MmConstruct, MmLaunch, MmTraffic, MmWaitSender,
      MmWaitReceiver, MmPlot, MmAt
<1>8. CASE Mm2Interrupt \/ VaticInterrupt \/ MmInterrupt
  BY <1>5, <1>8 DEF Mm2Interrupt, VaticInterrupt, MmInterrupt, Interrupt, Finish
<1>9. CASE UserRuns \/ BatchStart \/ Background \/ Stopped \/ UNCHANGED vars
  BY <1>4, <1>9 DEF UserRuns, BatchStart, Background, Stopped, vars, scriptVars
<1>10. QED  BY <1>6, <1>7, <1>8, <1>9 DEF Next, Script

\* A capture that is there is of a run that has not reported success.
LEMMA CaptureOpen ==
  ASSUME TypeInv, [Next]_vars, NEW file, file \in DOMAIN files',
         file = <<file[1], file[2], "sender.pcap">>, NEW n \in Runs, jobs[n].script = "runmm2",
         file[1] = jobs[n].dir, file[2] = Prefix(jobs[n]), outcome[n] # "ok"
  PROVE  outcome'[n] # "ok"
<1>1. SUFFICES ASSUME outcome'[n] = "ok" PROVE FALSE  OBVIOUS
<1>2. n = run /\ Unlink  BY <1>1, OkBy DEF job
<1>3. file = PcapS(job)  BY <1>2 DEF PcapS, File, job
<1>4. QED  BY <1>2, <1>3 DEF Unlink, Without

LEMMA KeptFile ==
  ASSUME TypeInv, NamesInv, [Next]_vars, NEW file \in DOMAIN files, file \in DOMAIN files',
         files'[file] = files[file]
  PROVE  TellsRight(file)'
<1>1. run \in Nat /\ run' \in Nat /\ run <= run' /\ \A n \in Runs : jobs'[n] = jobs[n]
  BY QueueStep DEF TypeInv, Queue, run
<1>2. TellsRight(file)  BY DEF NamesInv
<1>3. Named(file) => Named(file)'
  <2>1. ASSUME Named(file) PROVE Named(file)'
    <3>1. files[file] \in Runs /\ files[file] \in Runs' /\ jobs'[files[file]] = jobs[files[file]]
      BY <1>1, <2>1 DEF Named, Runs
    <3>2. QED  BY <2>1, <3>1 DEF Named, Prefix
  <2>2. QED  BY <2>1
<1>4. file[3] = "sender.pcap" => outcome'[files[file]] # "ok"
  BY <1>2, CaptureOpen DEF TellsRight, Named
<1>5. QED  BY <1>2, <1>3, <1>4 DEF TellsRight

LEMMA NamesStep ==
  ASSUME TypeInv, ProcsInv, LogsInv, LeavesNothing, NamesInv, [Next]_vars
  PROVE  NamesInv'
<1>1. /\ run \in Nat /\ run' \in Nat /\ run <= run' /\ \A n \in Runs : jobs'[n] = jobs[n]
      /\ \A n \in Runs : n \in Runs'
  BY QueueStep DEF TypeInv, Queue, Runs, run
<1>2. SUFFICES ASSUME NEW file \in DOMAIN files',
                      ~(file \in DOMAIN files /\ files'[file] = files[file])
               PROVE  TellsRight(file)'
  BY KeptFile DEF NamesInv
<1>3. CASE UNCHANGED files \/ Unlink
  BY <1>2, <1>3 DEF Unlink, Without
<1>4. CASE LogStarts
  <2>1. PICK log : /\ files' = Written(log, run) /\ log = <<log[1], log[2], log[3]>>
                   /\ log[3] \in {"uplink", "downlink"}
    BY <1>4 DEF LogStarts, Log, VaticLog, LinkLog, LogName, File
  <2>2. file = log  BY <1>2, <2>1, WrittenFile
  <2>3. QED  BY <2>1, <2>2 DEF TellsRight
<1>5. CASE Extract
  <2>1. run > 0 /\ run \in Runs /\ job.script = "runmm2" /\ UNCHANGED <<jobs, run, job>>
    BY <1>1, <1>5 DEF Extract, At, Goto, Runs, run, job
  <2>2. file \in {Rtt(job), Tput(job)}  BY <1>2, <1>5 DEF Extract, Overwritten
  <2>3. CASE file = Tput(job)
    BY <2>3 DEF Tput, File, TellsRight
  <2>4. CASE file = Rtt(job)
    <3>1. files'[file] \in {0, Content(PcapS(job))}  BY <1>5, <2>4 DEF Extract, Overwritten
    <3>2. file[1] = job.dir /\ file[2] = Prefix(job) /\ file = <<file[1], file[2], "sender_RTT">>
      BY <2>4 DEF Rtt, File
    <3>3. CASE files'[file] = 0
      BY <3>2, <3>3 DEF TellsRight
    <3>4. CASE files'[file] # 0
      <4>1. PcapS(job) \in DOMAIN files /\ files'[file] = files[PcapS(job)]
        BY <3>1, <3>4 DEF Content, Exists
      <4>2. /\ files'[file] \in Runs /\ jobs[files'[file]].script = "runmm2"
            /\ jobs[files'[file]].dir = job.dir /\ Prefix(jobs[files'[file]]) = Prefix(job)
        BY <4>1 DEF NamesInv, TellsRight, Named, PcapS, File
      <4>3. Named(file)'  BY <1>1, <2>1, <3>2, <4>2 DEF Named, Prefix
      <4>4. QED  BY <3>2, <4>3 DEF TellsRight
    <3>5. QED  BY <3>3, <3>4
  <2>5. QED  BY <2>2, <2>3, <2>4
<1>6. CASE Plot
  <2>1. /\ run > 0 /\ run \in Runs /\ job.script = "runmm2" /\ UNCHANGED <<jobs, run, job>>
        /\ Mid /\ pc = "plot" /\ files' = Written(MmTput(job), Content(Log(job)))
    BY <1>1, <1>6 DEF Plot, At, Goto, Mid, Runs, run, job
  <2>2. Content(Log(job)) = run  BY <2>1 DEF LogsInv, Mm2Logs, Holds, Content
  <2>3. file = MmTput(job) /\ files'[file] = run  BY <1>2, <2>1, <2>2, WrittenFile
  <2>4. file[1] = job.dir /\ file[2] = Prefix(job) /\ jobs'[run] = job
    BY <2>1, <2>3 DEF MmTput, File, job
  <2>5. Named(file)'  BY <1>1, <2>1, <2>3, <2>4 DEF Named, Prefix
  <2>6. QED  BY <2>3, <2>5 DEF TellsRight, MmTput, File
<1>7. CASE \E p \in procs : Captures(p)
  <2>1. PICK p \in procs : Captures(p)  BY <1>7
  <2>2. /\ RunOf(p) \in Runs /\ jobs'[RunOf(p)] = jobs[RunOf(p)] /\ RunOf(p) \in Runs'
    BY <1>1 DEF TypeInv, TypeOK
  <2>3. CASE Kind(p) = "dumpR" /\ files' = Written(PcapR(jobs[RunOf(p)]), RunOf(p))
    <3>1. file = PcapR(jobs[RunOf(p)])  BY <1>2, <2>3, WrittenFile
    <3>2. QED  BY <3>1 DEF PcapR, File, TellsRight
  <2>4. CASE Kind(p) = "dumpS" /\ files' = Written(PcapS(jobs[RunOf(p)]), RunOf(p))
    <3>1. file = PcapS(jobs[RunOf(p)]) /\ files'[file] = RunOf(p)
      BY <1>2, <2>4, WrittenFile
    <3>2. jobs[RunOf(p)].script = "runmm2" /\ outcome[RunOf(p)] # "ok"
      BY <2>4 DEF ProcsInv, ByScript, LeavesNothing
    <3>3. /\ file = <<file[1], file[2], "sender.pcap">> /\ file[1] = jobs[RunOf(p)].dir
          /\ file[2] = Prefix(jobs[RunOf(p)])
      BY <3>1 DEF PcapS, File
    <3>4. outcome'[RunOf(p)] # "ok"  BY <2>2, <3>2, <3>3, CaptureOpen
    <3>5. Named(file)'  BY <2>2, <3>1, <3>2, <3>3 DEF Named, Prefix
    <3>6. QED  BY <3>1, <3>3, <3>4, <3>5 DEF TellsRight
  <2>5. QED  BY <2>1, <2>3, <2>4 DEF Captures
<1>8. CASE \E p \in procs : \/ ServerLogs(p, {"cwnd", "alpha"})
                            \/ ServerLogs(p, {"cwnd", "alpha", "centroids"})
  <2>1. PICK p \in procs, names \in SUBSET {"cwnd", "alpha", "centroids"} : ServerLogs(p, names)
    BY <1>8
  <2>2. PICK name \in names : file = Dat(jobs[RunOf(p)], name)
    BY <1>2, <2>1 DEF ServerLogs, Overwritten
  <2>3. QED  BY <2>2 DEF Dat, TellsRight
<1>9. QED  BY FileWrites, <1>3, <1>4, <1>5, <1>6, <1>7, <1>8


\* The files of the table change when they are extracted and plotted.
LEMMA TableFiles ==
  ASSUME [Next]_vars, NEW file, file[3] \in {"sender_RTT", "uplink_mmtput"}
  PROVE  \/ /\ file \in DOMAIN files' <=> file \in DOMAIN files
            /\ file \in DOMAIN files => files'[file] = files[file]
         \/ Extract /\ file = Rtt(job)
         \/ Plot /\ file = MmTput(job)
<1>1. CASE UNCHANGED files
  BY <1>1
<1>2. CASE LogStarts
  <2>1. PICK log : files' = Written(log, run) /\ log[3] \in {"uplink", "downlink"}
    BY <1>2 DEF LogStarts, Log, VaticLog, LinkLog, LogName, File
  <2>2. QED  BY <2>1, WrittenFile
<1>3. CASE Extract
  <2>1. file = Rtt(job) \/ file \notin {Rtt(job), Tput(job)}  BY DEF Tput, File
  <2>2. QED  BY <1>3, <2>1 DEF Extract, Overwritten
<1>4. CASE Plot
  <2>1. files' = Written(MmTput(job), Content(Log(job)))  BY <1>4 DEF Plot
  <2>2. QED  BY <1>4, <2>1, WrittenFile
<1>5. CASE Unlink
  <2>1. file \notin {PcapS(job), PcapR(job)}  BY DEF PcapS, PcapR, File
  <2>2. QED  BY <1>5, <2>1 DEF Unlink, Without
<1>6. CASE \E p \in procs : Captures(p)
  <2>1. PICK p \in procs : Captures(p)  BY <1>6
  <2>2. PICK other : /\ files' = Written(other, RunOf(p))
                     /\ other[3] \in {"sender.pcap", "receiver.pcap"}
    BY <2>1 DEF Captures, PcapS, PcapR, File
  <2>3. QED  BY <2>1, <2>2, WrittenFile
<1>7. CASE \E p \in procs : \/ ServerLogs(p, {"cwnd", "alpha"})
                            \/ ServerLogs(p, {"cwnd", "alpha", "centroids"})
  <2>1. PICK p \in procs, names \in SUBSET {"cwnd", "alpha", "centroids"} : ServerLogs(p, names)
    BY <1>7
  <2>2. \A name : Dat(jobs[RunOf(p)], name)[3] = name  BY DEF Dat
  <2>3. file \notin {Dat(jobs[RunOf(p)], name) : name \in names}  BY <2>2
  <2>4. QED  BY <2>1, <2>3 DEF ServerLogs, Overwritten
<1>8. QED  BY FileWrites, <1>1, <1>2, <1>3, <1>4, <1>5, <1>6, <1>7

\* What is extracted comes from a capture, of a run that has not reported success.
LEMMA Extracted ==
  ASSUME NamesInv, Extract
  PROVE  /\ Rtt(job) \in DOMAIN files' /\ UNCHANGED <<jobs, outcome, run, job>>
         /\ files'[Rtt(job)] = 0 \/ outcome[files'[Rtt(job)]] # "ok"
<1>1. Rtt(job) \in DOMAIN files' /\ files'[Rtt(job)] \in {0, Content(PcapS(job))}
  BY DEF Extract, Overwritten
<1>2. Content(PcapS(job)) = 0 \/ outcome[Content(PcapS(job))] # "ok"
  <2>1. PcapS(job)[3] = "sender.pcap"  BY DEF PcapS, File
  <2>2. QED  BY <2>1 DEF NamesInv, TellsRight, Content, Exists
<1>3. UNCHANGED <<jobs, outcome, run, job>>  BY DEF Extract, Goto, run, job
<1>4. QED  BY <1>1, <1>2, <1>3

LEMMA PairStep ==
  ASSUME TypeInv, NamesInv, NamesInv', PairInv, TableInv, [Next]_vars
  PROVE  PairInv'
<1>1. SUFFICES ASSUME NEW file, file \in DOMAIN files', file[3] = "sender_RTT",
                      NEW v, v = files'[file], v # 0, outcome'[v] = "ok"
               PROVE  TputOf(file) \in DOMAIN files' /\ files'[TputOf(file)] = v
  BY DEF PairInv, Exists, TputOf
<1>2. TputOf(file)[3] = "uplink_mmtput" /\ TputOf(file)[1] = file[1] /\ TputOf(file)[2] = file[2]
  BY DEF TputOf
<1>3. CASE file \in DOMAIN files /\ files[file] = v
  <2>1. /\ v \in Runs /\ jobs[v].script = "runmm2" /\ file[1] = jobs[v].dir
        /\ file[2] = Prefix(jobs[v]) /\ file = <<file[1], file[2], "sender_RTT">>
    BY <1>1, <1>3 DEF NamesInv, TellsRight, Named
  <2>2. CASE outcome[v] = "ok"
    <3>1. TputOf(file) \in DOMAIN files /\ files[TputOf(file)] = v
      BY <1>1, <1>3, <2>2 DEF PairInv, Exists
    <3>2. CASE Plot /\ TputOf(file) = MmTput(job)
      <4>1. file = Rtt(job)
        BY <1>2, <2>1, <3>2 DEF MmTput, Rtt, File
      <4>2. Mid /\ pc = "plot" /\ job.script = "runmm2"  BY <3>2 DEF Plot, At, Mid
      <4>3. Content(Rtt(job)) = v  BY <1>3, <4>1 DEF Content, Exists
      <4>4. QED  BY <1>1, <2>2, <4>2, <4>3 DEF TableInv
    <3>3. CASE ~(Plot /\ TputOf(file) = MmTput(job))
      <4>1. TputOf(file) # Rtt(job)  BY <1>2 DEF Rtt, File
      <4>2. QED  BY <1>2, <3>1, <3>3, <4>1, TableFiles
    <3>4. QED  BY <3>2, <3>3
  <2>3. CASE outcome[v] # "ok"
    <3>1. v = run /\ Mid /\ Unlink  BY <1>1, <2>1, <2>3, OkBy DEF job
    <3>2. TputOf(file) = MmTput(job)  BY <2>1, <3>1 DEF TputOf, MmTput, File, job
    <3>3. pc = "unlink" /\ job.script = "runmm2"  BY <3>1 DEF Unlink, At
    <3>4. TputOf(file) \in DOMAIN files /\ files[TputOf(file)] = v
      BY <3>1, <3>2, <3>3 DEF TableInv, Holds, Exists
    <3>5. TputOf(file) \notin {PcapS(job), PcapR(job)}  BY <1>2 DEF PcapS, PcapR, File
    <3>6. QED  BY <3>1, <3>4, <3>5 DEF Unlink, Without
  <2>4. QED  BY <2>2, <2>3
<1>4. CASE ~(file \in DOMAIN files /\ files[file] = v)
  <2>1. file # MmTput(job)  BY <1>1 DEF MmTput, File
  <2>2. Extract /\ file = Rtt(job)  BY <1>1, <1>4, <2>1, TableFiles
  <2>3. QED  BY <1>1, <2>2, Extracted
<1>5. QED  BY <1>3, <1>4

LEMMA TableStep ==
  ASSUME TypeInv, LogsInv, NamesInv, TableInv, [Next]_vars
  PROVE  TableInv'
<1>1. SUFFICES ASSUME Mid', job'.script = "runmm2", pc' \in {"plot", "unlink"}
               PROVE  /\ pc' = "plot" => Content(Rtt(job))' = 0 \/ outcome'[Content(Rtt(job))'] # "ok"
                      /\ pc' = "unlink" => Holds(MmTput(job))'
  BY DEF TableInv
<1>2. Moves \/ UNCHANGED scriptVars
  BY <1>1, Control
  DEF UserRuns, BatchStart, BatchNext, Finishes, Finish, GivesUp
<1>3. UNCHANGED <<jobs, outcome, run, job>> /\ Mid /\ job.script = "runmm2"
  BY <1>1, <1>2 DEF Moves, scriptVars, run, job, Mid
<1>4. Rtt(job)' = Rtt(job) /\ MmTput(job)' = MmTput(job)
  BY <1>3 DEF Rtt, MmTput
<1>5. Rtt(job)[3] = "sender_RTT" /\ MmTput(job)[3] = "uplink_mmtput"
  BY DEF Rtt, MmTput, File
<1>6. CASE Extract
  <2>1. pc' = "plot"  BY <1>6 DEF Extract, Goto
  <2>2. Content(Rtt(job))' = files'[Rtt(job)]  BY <1>4, <1>6, Extracted DEF Content, Exists
  <2>3. QED  BY <1>3, <1>6, <2>1, <2>2, Extracted
<1>7. CASE Plot
  <2>1. pc' = "unlink" /\ pc = "plot" /\ files' = Written(MmTput(job), Content(Log(job)))
    BY <1>7 DEF Plot, At, Goto
  <2>2. Content(Log(job)) = run
    BY <1>3, <2>1 DEF LogsInv, Mm2Logs, Holds, Content
  <2>3. Holds(MmTput(job))'  BY <1>3, <1>4, <2>1, <2>2, WrittenFile DEF Holds, Exists
  <2>4. QED  BY <2>1, <2>3
<1>8. CASE ~Extract /\ ~Plot
  <2>1. pc' = pc
    <3>1. CASE Mm2Step
      BY <1>1, <1>2, <1>3, <1>8, <3>1
      DEF Mm2Step, BatchNext, Construct, CleanState, RunCCP, Launch, Link, Traffic, Wait,
          KillAll, PlotFails, Unlink, Goto, Finish, Moves, Mid, scriptVars
    <3>2. CASE VaticStep \/ MmStep
      BY <1>3, <3>2
      DEF VaticStep, VaticLaunch, VaticClient, VaticServer, Communicate, VaticKill, PlotVatic,
          VaticPlot, VaticAt, MmStep, MmConstruct, MmLaunch, MmTraffic, MmWaitSender,
          MmWaitReceiver, MmPlot, MmAt
    <3>3. CASE Mm2Interrupt \/ VaticInterrupt \/ MmInterrupt
      BY <1>1, <3>3 DEF Mm2Interrupt, VaticInterrupt, MmInterrupt, Interrupt, Finish
    <3>4. CASE UserRuns \/ BatchStart \/ Background \/ Stopped \/ UNCHANGED vars
      BY <1>1, <3>4 DEF UserRuns, BatchStart, Background, Stopped, vars, scriptVars
    <3>5. QED  BY <3>1, <3>2, <3>3, <3>4 DEF Next, Script
  <2>2. /\ Rtt(job) \in DOMAIN files' <=> Rtt(job) \in DOMAIN files
        /\ Rtt(job) \in DOMAIN files => files'[Rtt(job)] = files[Rtt(job)]
        /\ MmTput(job) \in DOMAIN files' <=> MmTput(job) \in DOMAIN files
        /\ MmTput(job) \in DOMAIN files => files'[MmTput(job)] = files[MmTput(job)]
    BY <1>5, <1>8, TableFiles
  <2>3. Content(Rtt(job))' = Content(Rtt(job)) /\ (Holds(MmTput(job)) => Holds(MmTput(job))')
    BY <1>3, <1>4, <2>2 DEF Content, Holds, Exists
  <2>4. QED  BY <1>1, <1>3, <2>1, <2>3 DEF TableInv
<1>9. QED  BY <1>6, <1>7, <1>8

\* A row of the table of results tells of one run and says which: its RTT is of the run its
\* throughput is of, or of one that failed before its throughput, and the columns read back
\* from the name of the file are the configuration of that run (make_table.py).
THEOREM RowsAreRight == Spec => []RowsAreTrue
<1>1. MachineInit => RowsInv
  BY DEF MachineInit, RowsInv, NamesInv, PairInv, TableInv, Mid
<1>2. TypeInv /\ ProcsInv => LeavesNothing
  BY SuccessNow
<1>3. TypeInv /\ TypeInv' /\ ProcsInv /\ LogsInv /\ RowsInv /\ [Next]_vars => RowsInv'
  BY <1>2, NamesStep, PairStep, TableStep DEF RowsInv
<1>4. TypeInv /\ RowsInv => RowsAreTrue
  <2>1. SUFFICES ASSUME TypeInv, RowsInv, NEW dir, NEW row \in Rows(dir)
                 PROVE  /\ row.rtt \notin {0, row.tput} => outcome[row.rtt] # "ok"
                        /\ LET j == jobs[row.tput]
                           IN /\ <<row.trace>> = j.trace /\ row.duration = j.ttr
                              /\ row.blksize = j.blk /\ row.qsize = j.q /\ row.mmdelay = j.delay
    BY DEF RowsAreTrue, RowsPaired, RowsAreConfigs
  <2>2. PICK file \in RttFiles(dir) : row = RowOf(file) /\ Parses(file) /\ Exists(TputOf(file))
    BY <2>1 DEF Rows
  <2>3. file \in DOMAIN files /\ file[3] = "sender_RTT"  BY <2>2 DEF RttFiles
  <2>4. row.rtt = files[file] /\ row.tput = files[TputOf(file)]  BY <2>2 DEF RowOf
  <2>5. row.rtt \notin {0, row.tput} => outcome[row.rtt] # "ok"
    BY <2>1, <2>3, <2>4 DEF RowsInv, PairInv
  <2> DEFINE j == jobs[row.tput]
             w == Words(file)
  <2>6. TputOf(file)[2] = file[2] /\ TputOf(file)[3] = "uplink_mmtput"  BY DEF TputOf
  <2>7. row.tput \in Runs /\ file[2] = Prefix(j)
    BY <2>1, <2>2, <2>4, <2>6 DEF RowsInv, NamesInv, TellsRight, Named, Exists
  <2>8. Readable(j.trace)  BY <2>1, <2>7, JobReadable
  <2>9. /\ row.trace = w[1] /\ row.duration = w[2].val /\ row.blksize = w[3].val
        /\ row.qsize = (IF HasQ(file) THEN w[4].val ELSE None)
        /\ row.mmdelay = w[IF HasQ(file) THEN 5 ELSE 4].val
    BY <2>2 DEF RowOf
  <2>10. /\ <<w[1]>> = j.trace /\ w[2].val = j.ttr /\ w[3].val = j.blk
         /\ (IF HasQ(file) THEN w[4].val ELSE None) = j.q
         /\ w[IF HasQ(file) THEN 5 ELSE 4].val = j.delay
    <3> HIDE DEF j
    <3>1. QED  BY <2>2, <2>7, <2>8, RowConfig
  <2> HIDE DEF w
  <2>11. QED  BY <2>5, <2>9, <2>10
<1>5. QED
  BY <1>1, <1>3, <1>4, TypeInit, TypeStep, ProcsInit, ProcsInvStep, LogsInit, LogsStep, PTL
  DEF Spec
=============================================================================
