---------------------------- MODULE Experiments ----------------------------
(***************************************************************************)
(* One machine on which a user runs the experiment scripts one after       *)
(* another, interrupts some, and leaves to the next what the last one left *)
(* behind.                                                                 *)
(***************************************************************************)
EXTENDS RunMm2, RunVatic, RunMm

CONSTANT HandJobs  \* what a user may run by hand

ASSUME HandAssumption == \A j \in HandJobs : j.driver = "hand" /\ Readable(j.trace)

UserRuns ==
  /\ pc = "idle" /\ run < MaxRuns
  /\ Cardinality({n \in 1 .. run : jobs[n].driver = "hand"}) < MaxHand
  /\ \E j \in HandJobs : jobs' = Append(jobs, j)
  /\ pc' = "construct"
  /\ UNCHANGED <<outcome, left, procVars, files, shown, interrupts>>

Script == Mm2Step \/ VaticStep \/ MmStep

Process(p) ==
  \/ Bind(p) \/ Connect(p) \/ Ends(p)
  \/ Dumps(p)
  \/ ServerEnds(p)

Background == \E p \in procs : Process(p) /\ UNCHANGED <<scriptVars, shown, interrupts>>

\* The bounds are used up, or a script waits for a receiver without a sender.
Stopped ==
  /\ \/ pc = "idle"
     \/ pc = "waitReceiver"
  /\ UNCHANGED vars

Next ==
  \/ UserRuns \/ BatchStart \/ Script \/ Background
  \/ Mm2Interrupt \/ VaticInterrupt \/ MmInterrupt
  \/ Stopped

Spec == MachineInit /\ [][Next]_vars

\* Scripts and processes run when they can.  What users do is not promised.  (A
\* process takes few steps, so that fairness for one of them is fairness for all.)
FairSpec == Spec /\ WF_vars(Script) /\ WF_vars(Background)

-----------------------------------------------------------------------------
(* Properties *)

Runs == 1 .. run
InBatch(n) == jobs[n].driver = "batch"

TypeOK ==
  /\ run <= MaxRuns /\ interrupts \in 0 .. MaxInterrupts
  /\ outcome \in [1 .. MaxRuns -> {"going", "ok", "failed", "interrupted"}]
  /\ up \subseteq procs /\ \A p \in procs : RunOf(p) \in Runs
  /\ peer \in [1 .. MaxRuns -> 0 .. run]
  /\ \A file \in DOMAIN files : files[file] \in 0 .. run
  /\ shown \in [1 .. MaxRuns -> SUBSET (0 .. run)]

\* script_runmm2.py: the traffic of a run of the batch goes to the receiver of
\* that run, whatever interrupted runs and runs by hand have left listening.
SenderReachesOwn == \A n \in Runs : InBatch(n) => peer[n] \in {0, n}

\* script_runmm2.py: one controller at a time steers the kernel's connections.
OneController ==
  pc \in {"launch", "link", "traffic", "wait"} =>
    Cardinality({p \in procs : Kind(p) = "ccp"}) <= 1

\* script_runmm2.py: nothing that an earlier run has left takes part in a run of
\* the batch, neither a receiver nor a controller.
BatchRunsAlone == SenderReachesOwn /\ OneController

\* runmm2.py, runmmVatic.py, runmm.py: a run that reports success leaves no
\* process behind, but for the controller of the batch and a client of Vatic that
\* was told to end.
LeavesNothing ==
  \A p \in procs : outcome[RunOf(p)] = "ok" => Kind(p) \in {"ccp", "ending"}

\* An interrupted run may have left a server or a tcpdump that writes later.
Disturbed(n) ==
  \E m \in 1 .. n - 1 : jobs[m].script = jobs[n].script /\ outcome[m] = "interrupted"
Switched(n) == Side(jobs[n]) # jobs[n].side

\* All scripts: the plots of a run whose sender (or server) was heard show logs of
\* that run only, however often a configuration is run in the same directory.
ShowsOwnLogs ==
  \A n \in Runs : peer[n] # 0 /\ ~Disturbed(n) /\ ~Switched(n) => shown[n] \subseteq {n}

\* "this is automatically set to 'receiver' when n_senders > 1"
\* (runmm_multi.py:80): also then the plot shows the log of the run.
SwitchedShowsOwnLog == \A n \in Runs : Switched(n) => shown[n] \subseteq {n}

Dirs == {jobs[n].dir : n \in Runs}

\* make_table.py: a row of the table puts the RTT and the throughput of one run
\* side by side, unless the run that left the RTT did not get as far as its throughput.
RowsPaired ==
  pc = "idle" =>
    \A dir \in Dirs : \A row \in Rows(dir) :
      row.rtt \notin {0, row.tput} => outcome[row.rtt] # "ok"

\* make_table.py: what a row says of the configuration, read back from the name of
\* the file, is the configuration of the run its throughput is of.
RowsAreConfigs ==
  \A dir \in Dirs : \A row \in Rows(dir) :
    LET j == jobs[row.tput]
    IN /\ <<row.trace>> = j.trace /\ row.duration = j.ttr /\ row.blksize = j.blk
       /\ row.qsize = j.q /\ row.mmdelay = j.delay

\* make_table.py: a row of the table is about one run, and says which.
RowsAreTrue == RowsPaired /\ RowsAreConfigs

\* script_runmm2.py: "Something failed in scenario ... continue": a batch that has
\* started its runs ends after all of them, each tried once and in order.
BatchComplete ==
  pc = "idle" /\ run > 0 /\ InBatch(run) /\ Cardinality(Modes(job)) = 1 =>
    \E args \in BatchArgs :
      LET grid == Grid(args)
      IN /\ Len(grid) <= run
         /\ SubSeq(jobs, run - Len(grid) + 1, run) = grid
         /\ \A n \in run - Len(grid) + 1 .. run : outcome[n] # "going"

\* Every script ends, but runmm.py and runmm_multi.py when their receiver has not
\* been reached by their sender.
ScriptsEnd ==
  pc # "idle" ~>
    \/ pc = "idle"
    \/ pc = "waitReceiver" /\ peer[run] # run
=============================================================================
