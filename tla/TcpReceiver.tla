---------------------------- MODULE TcpReceiver ----------------------------
(***************************************************************************)
(* The main process of receiver.cc and the children it forks: the accept   *)
(* loop, the handlers of SIGINT and SIGCHLD that run between any two of    *)
(* its steps, and the wait for the children.  What a child does with its   *)
(* connection is in TcpFlow; here it reads until the sender has closed.    *)
(* An operator X_bug is a wrong variant of X, see RttClusters.             *)
(***************************************************************************)
EXTENDS Integers, FiniteSets

CONSTANTS
  Conns,        \* connections that senders may open
  MaxBlocks,    \* blocks a sender sends on one, at most
  ClientsMax,   \* values of the argument <maxclients>
  Restarts,     \* what sa_flags of SIGINT, never initialised, says of SA_RESTART
  Interrupts,   \* bound: how often the user interrupts the receiver
  Faults        \* bound: how often fork() or accept() fails

ASSUME ReceiverAssumption ==
  /\ IsFiniteSet(Conns)
  /\ ClientsMax \subseteq Nat
  /\ Restarts \subseteq BOOLEAN
  /\ {MaxBlocks, Interrupts, Faults} \subseteq Nat

VARIABLES
  mainPc,      \* where main of the receiver is
  quit,        \* the flag that the handler of SIGINT sets
  nClients,    \* n_clients
  clientsMax,  \* n_clients_max
  restart,     \* SA_RESTART of SIGINT
  accepted,    \* sockfd_client: {} or the connection accepted last
  child,       \* connection -> its child process
  sigchld,     \* TRUE if a SIGCHLD is pending
  conn,        \* connection -> its state as the kernel keeps it
  unread,      \* connection -> blocks in it
  ints, faults \* how often these happened

mainVars == <<mainPc, quit, nClients, clientsMax, restart, accepted>>
procVars == <<child, sigchld>>
connVars == <<conn, unread>>
receiverVars == <<mainVars, procVars, connVars, ints, faults>>

Queue    == {c \in Conns : conn[c] \in {"queued", "queuedClosed"}}
Running  == {c \in Conns : child[c] = "running"}
Zombies  == {c \in Conns : child[c] = "zombie"}
Listening == mainPc \notin {"boot", "done"}

ReceiverInit ==
  /\ mainPc = "boot"
  /\ quit = FALSE
  /\ nClients = 0
  /\ clientsMax \in ClientsMax
  /\ restart \in Restarts
  /\ accepted = {}
  /\ child = [c \in Conns |-> "none"]
  /\ sigchld = FALSE
  /\ conn = [c \in Conns |-> "closed"]
  /\ unread = [c \in Conns |-> 0]
  /\ ints = 0
  /\ faults = 0

-----------------------------------------------------------------------------
(* main *)

Listen ==
  /\ mainPc = "boot"
  /\ mainPc' = "test"
  /\ UNCHANGED <<quit, nClients, clientsMax, restart, accepted, procVars, connVars, ints, faults>>

\* The condition of the accept loop.
WantsMore_bug == ~quit /\ (nClients <= clientsMax \/ clientsMax = 0)
WantsMore_bug2 == nClients < clientsMax \/ clientsMax = 0
WantsMore == ~quit /\ (nClients < clientsMax \/ clientsMax = 0)

TestLoop ==
  /\ mainPc = "test"
  /\ mainPc' = IF WantsMore THEN "accept" ELSE "wait"
  /\ UNCHANGED <<quit, nClients, clientsMax, restart, accepted, procVars, connVars, ints, faults>>

Accept ==
  /\ mainPc = "accept"
  /\ \E c \in Queue :
       /\ accepted' = {c}
       /\ conn' = [conn EXCEPT ![c] = IF @ = "queued" THEN "open" ELSE "openClosed"]
  /\ nClients' = nClients + 1
  /\ mainPc' = "fork"
  /\ UNCHANGED <<quit, clientsMax, restart, procVars, unread, ints, faults>>

\* An error other than EINTR: a network error of the connection, or no
\* descriptor left.
AcceptError ==
  /\ mainPc = "accept"
  /\ faults < Faults
  /\ faults' = faults + 1
  /\ mainPc' = "wait"
  /\ UNCHANGED <<quit, nClients, clientsMax, restart, accepted, procVars, connVars, ints>>

Fork ==
  /\ mainPc = "fork"
  /\ child' = [c \in Conns |-> IF c \in accepted THEN "running" ELSE child[c]]
  /\ mainPc' = "test"
  /\ accepted' = {}
  /\ UNCHANGED <<quit, nClients, clientsMax, restart, sigchld, connVars, ints, faults>>

\* fork() returns -1 and main goes on as the parent: it closes the only
\* descriptor of the connection, and has counted it.
ForkError ==
  /\ mainPc = "fork"
  /\ faults < Faults
  /\ faults' = faults + 1
  /\ conn' = [c \in Conns |-> IF c \in accepted THEN "reset" ELSE conn[c]]
  /\ unread' = [c \in Conns |-> IF c \in accepted THEN 0 ELSE unread[c]]
  /\ mainPc' = "test"
  /\ accepted' = {}
  /\ UNCHANGED <<quit, nClients, clientsMax, restart, procVars, ints>>

\* The end of the process closes the listening socket: the kernel resets what
\* is still in its queue.
Exit_bug == mainPc' = "done" /\ UNCHANGED connVars

Exit ==
  /\ mainPc' = "done"
  /\ conn' = [c \in Conns |-> IF c \in Queue THEN "reset" ELSE conn[c]]
  /\ unread' = [c \in Conns |-> IF c \in Queue THEN 0 ELSE unread[c]]

\* waitpid() returns a child.
WaitOne ==
  /\ mainPc = "wait"
  /\ \E c \in Zombies : child' = [child EXCEPT ![c] = "reaped"]
  /\ UNCHANGED <<mainVars, sigchld, connVars, ints, faults>>

\* There is none left: it fails.
WaitNone_bug ==
  /\ mainPc = "wait"
  /\ Zombies = {}
  /\ Exit
  /\ UNCHANGED <<quit, nClients, clientsMax, restart, accepted, procVars, ints, faults>>

WaitNone ==
  /\ mainPc = "wait"
  /\ Zombies \union Running = {}
  /\ Exit
  /\ UNCHANGED <<quit, nClients, clientsMax, restart, accepted, procVars, ints, faults>>

MainNext ==
  \/ Listen \/ TestLoop \/ Accept \/ AcceptError \/ Fork \/ ForkError
  \/ WaitOne \/ WaitNone

-----------------------------------------------------------------------------
(* Signals *)

\* handle_sigchld reaps whatever has ended: signals that arrive while one is
\* pending are not queued.  SA_RESTART restarts accept() and waitpid().
HandleSigchld_bug ==
  /\ sigchld /\ mainPc # "done"
  /\ sigchld' = FALSE
  /\ IF Zombies = {} THEN UNCHANGED child
     ELSE \E c \in Zombies : child' = [child EXCEPT ![c] = "reaped"]
  /\ UNCHANGED <<mainVars, connVars, ints, faults>>

HandleSigchld ==
  /\ sigchld /\ mainPc # "done"
  /\ sigchld' = FALSE
  /\ child' = [c \in Conns |-> IF child[c] = "zombie" THEN "reaped" ELSE child[c]]
  /\ UNCHANGED <<mainVars, connVars, ints, faults>>

\* handle_sigint.  accept() and waitpid() fail with EINTR if they had begun
\* and are not restarted: the loop is tested again, the wait is over.
HandleSigint ==
  /\ mainPc \notin {"boot", "done"}
  /\ ints < Interrupts
  /\ ints' = ints + 1
  /\ quit' = TRUE
  /\ \/ UNCHANGED <<mainPc, connVars>>
     \/ ~restart /\ mainPc = "accept" /\ mainPc' = "test" /\ UNCHANGED connVars
     \/ ~restart /\ mainPc = "wait" /\ Exit
  /\ UNCHANGED <<nClients, clientsMax, restart, accepted, procVars, faults>>

-----------------------------------------------------------------------------
(* The children *)

ChildRead ==
  \E c \in Running :
    /\ unread[c] > 0
    /\ unread' = [unread EXCEPT ![c] = @ - 1]
    /\ UNCHANGED <<mainVars, procVars, conn, ints, faults>>

\* The stream has ended, and so has the child.
ChildExit ==
  \E c \in Running :
    /\ unread[c] = 0 /\ conn[c] = "openClosed"
    /\ conn' = [conn EXCEPT ![c] = "closed"]
    /\ child' = [child EXCEPT ![c] = "zombie"]
    /\ sigchld' = TRUE
    /\ UNCHANGED <<mainVars, unread, ints, faults>>

\* Ctrl-C reaches the children too; it ends one whose recv() it cuts short
\* before anything was read (RcvEintr in TcpFlow).  The kernel resets the
\* connection if the sender still has it.
ChildEintr ==
  \E c \in Running :
    /\ quit
    /\ conn' = [conn EXCEPT ![c] = IF @ = "open" THEN "reset" ELSE "closed"]
    /\ unread' = [unread EXCEPT ![c] = 0]
    /\ child' = [child EXCEPT ![c] = "zombie"]
    /\ sigchld' = TRUE
    /\ UNCHANGED <<mainVars, ints, faults>>

ChildNext == ChildRead \/ ChildExit

ReceiverTypeOK ==
  /\ mainPc \in {"boot", "test", "accept", "fork", "wait", "done"}
  /\ quit \in BOOLEAN
  /\ nClients \in Nat
  /\ clientsMax \in ClientsMax
  /\ restart \in Restarts
  /\ accepted \in SUBSET Conns
  /\ child \in [Conns -> {"none", "running", "zombie", "reaped"}]
  /\ sigchld \in BOOLEAN
  /\ conn \in [Conns -> {"closed", "queued", "queuedClosed", "open", "openClosed", "reset"}]
  /\ unread \in [Conns -> Nat]
  /\ ints \in 0 .. Interrupts
  /\ faults \in 0 .. Faults
=============================================================================
