------------------------------- MODULE Machine -------------------------------
(***************************************************************************)
(* The machine on which the scripts run their experiments, as they use it: *)
(* processes and files that outlive a script, names of result files, and   *)
(* what a signal does.  A process is <<kind, run>>; it comes up some time  *)
(* after it was started.  A file is the number of the run it tells of, 0   *)
(* when there is nothing in it.                                            *)
(* An operator X_bug is a wrong variant of X, see RttClusters.             *)
(***************************************************************************)
EXTENDS Integers, Sequences, FiniteSets

CONSTANTS
  MaxRuns,       \* runs, a bound
  MaxHand,       \* of them by hand, a bound
  MaxInterrupts  \* times a user presses Ctrl-C, a bound

None == -1  \* Python's None, where a number is expected

ASSUME MachineAssumption == MaxRuns \in Nat /\ MaxHand \in Nat /\ MaxInterrupts \in Nat

VARIABLES
  jobs,       \* the runs so far, the last one is under way or the latest
  outcome,    \* run -> "going", "ok", "failed" or "interrupted"
  pc,         \* where its script is
  left,       \* configurations that the batch script has not come to
  procs,      \* the processes
  up,         \* those that are bound, connected or capturing
  peer,       \* run -> the run whose receiver its sender reached, or 0
  files,      \* <<directory, prefix, ending>> -> run
  shown,      \* history: run -> the runs whose logs its plots show
  interrupts

procVars == <<procs, up, peer>>
scriptVars == <<jobs, outcome, pc, left>>
vars == <<scriptVars, procVars, files, shown, interrupts>>

run == Len(jobs)
job == jobs[run]
Kind(p) == p[1]
RunOf(p) == p[2]
Own(kind) == <<kind, run>>
OfKinds(kinds) == {p \in procs : Kind(p) \in kinds}

-----------------------------------------------------------------------------
(* Names.  A prefix is the sequence of its words, which '_' separates. *)

Word(tag, val) == [tag |-> tag, val |-> val]
Optional(condition, tag, val) == IF condition THEN <<Word(tag, val)>> ELSE <<>>

\* The side that runs behind the link: several senders share one.
Side(j) == IF j.script = "multi" /\ j.senders > 1 THEN "receiver" ELSE j.side

File(j, prefix, ending) == <<j.dir, prefix, ending>>
Exists(file) == file \in DOMAIN files
\* Files are overwritten, others are kept.
Overwritten(new) ==
  [file \in DOMAIN new \union DOMAIN files |-> IF file \in DOMAIN new THEN new[file] ELSE files[file]]
Written(file, content) == Overwritten([f \in {file} |-> content])
Content(file) == IF Exists(file) THEN files[file] ELSE 0
Without(gone) == [file \in DOMAIN files \ gone |-> files[file]]

-----------------------------------------------------------------------------
(* What the scripts do to processes *)

Start(kinds) == procs' = procs \union {Own(k) : k \in kinds} /\ UNCHANGED <<up, peer>>

Gone_bug(ended) == procs' = procs \ ended /\ UNCHANGED up
Gone(ended) == procs' = procs \ ended /\ up' = up \ ended

\* A signal ends a process at once, but for the two of Vatic, which catch it: a server
\* notes it and runs on, a client ends within the second that its main thread sleeps.
\* (The scripts that look at what killed processes leave sleep before they do.)
Ending(p) == <<"ending", RunOf(p)>>
Signalled(ended, told) ==
  /\ procs' = (procs \ (ended \union told)) \union {Ending(p) : p \in told}
  /\ up' = up \ (ended \union told)
Kill(kinds) ==
  /\ Signalled(OfKinds(kinds \ {"server", "client"}), OfKinds(kinds \intersect {"client"}))
  /\ UNCHANGED peer

-----------------------------------------------------------------------------
(* What processes do by themselves *)

Starting(p) == p \in procs \ up

\* Receivers share their port (SO_REUSEPORT).
Bind(p) ==
  /\ Starting(p) /\ Kind(p) \in {"receiver", "innerReceiver"}
  /\ up' = up \union {p}
  /\ UNCHANGED <<procs, peer, files>>

\* Through the link of its run a sender reaches what listens at the other end: on
\* the host the kernel picks one of the receivers.
Reachable(p) ==
  {q \in up :
     /\ <<"mm", RunOf(p)>> \in procs
     /\ IF Side(jobs[RunOf(p)]) = "sender"
        THEN Kind(q) = "receiver"
        ELSE q = <<"innerReceiver", RunOf(p)>>}

Connect(p) ==
  /\ Starting(p) /\ Kind(p) = "sender"
  /\ IF Reachable(p) = {}
     THEN Gone({p}) /\ UNCHANGED peer
     ELSE /\ \E q \in Reachable(p) : peer' = [peer EXCEPT ![RunOf(p)] = RunOf(q)]
          /\ up' = up \union {p}
          /\ UNCHANGED procs
  /\ UNCHANGED files

\* tcpdump truncates its file when it starts.
Capture(p, file) ==
  /\ Starting(p) /\ Kind(p) \in {"dumpS", "dumpR"}
  /\ up' = up \union {p}
  /\ files' = Written(file, RunOf(p))
  /\ UNCHANGED <<procs, peer>>

\* A sender ends when its time is over, the receiver of one connection after its
\* sender, a client once it was told to.
Ends(p) ==
  /\ p \in procs
  /\ \/ Kind(p) = "sender" /\ p \in up
     \/ Kind(p) = "ending"
     \/ /\ Kind(p) \in {"receiver", "innerReceiver"}
        /\ \E n \in 1 .. run : peer[n] = RunOf(p) /\ <<"sender", n>> \notin procs
  /\ Gone({p})
  /\ UNCHANGED <<peer, files>>

-----------------------------------------------------------------------------
(* How a run starts and ends *)

Goto(next) == pc' = next /\ UNCHANGED <<jobs, outcome, left>>

Finish_bug(result) ==
  /\ outcome' = [outcome EXCEPT ![run] = result]
  /\ pc' = IF job.driver = "batch" /\ result = "ok" THEN "next" ELSE "idle"
  /\ UNCHANGED <<jobs, left>>

\* The batch goes on with its next configuration, a script run by hand ends.
Finish(result) ==
  /\ outcome' = [outcome EXCEPT ![run] = result]
  /\ pc' = IF job.driver = "batch" THEN "next" ELSE "idle"
  /\ UNCHANGED <<jobs, left>>

\* Ctrl-C raises an exception in the script, ends the link that it waits for and
\* whatever else of the run does not catch or ignore the signal; a client that has
\* come as far as to catch it is told to end.
Interrupt(places) ==
  /\ pc \in places /\ interrupts < MaxInterrupts
  /\ interrupts' = interrupts + 1
  /\ Finish("interrupted")
  /\ LET own == {p \in procs : RunOf(p) = run}
     IN \E ended \in SUBSET {p \in own : Kind(p) \notin {"server", "client"}},
           told \in SUBSET {p \in own : Kind(p) = "client"} :
          /\ Own("mm") \in own => Own("mm") \in ended
          /\ Signalled(ended, told)
  /\ UNCHANGED <<peer, files, shown>>

\* A command line that names a mode passes the default time as well, and the
\* constructor takes one of them only.
Modes(j) == {"ttr", j.mode}

MachineInit ==
  /\ jobs = <<>> /\ pc = "idle" /\ left = <<>>
  /\ outcome = [n \in 1 .. MaxRuns |-> "going"]
  /\ procs = {} /\ up = {}
  /\ peer = [n \in 1 .. MaxRuns |-> 0]
  /\ shown = [n \in 1 .. MaxRuns |-> {}]
  /\ files = [file \in {} |-> 0]
  /\ interrupts = 0
=============================================================================
