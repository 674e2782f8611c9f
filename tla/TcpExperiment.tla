--------------------------- MODULE TcpExperiment ---------------------------
(***************************************************************************)
(* An experiment with the TCP programs: the receiver, several senders, and *)
(* either the script that runs them (Simulation.run of runmm_multi.py, the *)
(* emulated link on the receiver's side) or a user who starts senders at   *)
(* any time and may interrupt the receiver.  A sender is what TcpFlow says *)
(* in detail, here as the blocks it has left.                              *)
(***************************************************************************)
EXTENDS TcpReceiver

CONSTANT SockBuf  \* blocks that the socket buffers of a connection hold

ASSUME ExperimentAssumption == SockBuf \in Nat \ {0} /\ 1 \in ClientsMax

VARIABLES
  scriptPc,  \* where Simulation.run is, "none" without a script
  sndPc,     \* sender -> where it is
  toSend,    \* sender -> blocks left
  failed     \* sender -> whether a send() has failed

senderVars == <<sndPc, toSend, failed>>
vars == <<receiverVars, scriptPc, senderVars>>

Ended(c) == sndPc[c] \in {"done", "refused", "killed"}

-----------------------------------------------------------------------------
(* The senders; sender c opens connection c *)

SndConnect(c) ==
  /\ sndPc[c] = "connect"
  /\ IF Listening
     THEN /\ sndPc' = [sndPc EXCEPT ![c] = "send"]
          /\ conn' = [conn EXCEPT ![c] = "queued"]
     ELSE /\ sndPc' = [sndPc EXCEPT ![c] = "refused"]
          /\ UNCHANGED conn
  /\ UNCHANGED <<mainVars, procVars, unread, ints, faults, scriptPc, toSend, failed>>

\* The kernel takes data for a connection that is not accepted yet.
SndSend(c) ==
  /\ sndPc[c] = "send" /\ toSend[c] > 0
  /\ conn[c] \in {"queued", "open"}
  /\ unread[c] < SockBuf
  /\ unread' = [unread EXCEPT ![c] = @ + 1]
  /\ toSend' = [toSend EXCEPT ![c] = @ - 1]
  /\ UNCHANGED <<mainVars, procVars, conn, ints, faults, scriptPc, sndPc, failed>>

\* A reset shows as an error first, which the sender reports and forgets, and
\* as SIGPIPE from then on.
SndFail(c) ==
  /\ sndPc[c] = "send" /\ toSend[c] > 0
  /\ conn[c] = "reset"
  /\ IF failed[c]
     THEN sndPc' = [sndPc EXCEPT ![c] = "killed"] /\ UNCHANGED <<toSend, failed>>
     ELSE /\ failed' = [failed EXCEPT ![c] = TRUE]
          /\ toSend' = [toSend EXCEPT ![c] = @ - 1]
          /\ UNCHANGED sndPc
  /\ UNCHANGED <<receiverVars, scriptPc>>

SndClose(c) ==
  /\ sndPc[c] = "send" /\ toSend[c] = 0
  /\ sndPc' = [sndPc EXCEPT ![c] = "done"]
  /\ conn' = [conn EXCEPT ![c] =
                 CASE @ = "queued" -> "queuedClosed"
                   [] @ = "open" -> "openClosed"
                   [] OTHER -> "closed"]
  /\ UNCHANGED <<mainVars, procVars, unread, ints, faults, scriptPc, toSend, failed>>

SenderNext(c) == SndConnect(c) \/ SndSend(c) \/ SndFail(c) \/ SndClose(c)

Start(c) ==
  /\ sndPc[c] = "off"
  /\ sndPc' = [sndPc EXCEPT ![c] = "connect"]
  /\ UNCHANGED <<receiverVars, toSend, failed>>

-----------------------------------------------------------------------------
(* The script, and the user without it *)

\* sleep(1) may or may not be long enough for the receiver to come up.
ScriptSettle ==
  /\ scriptPc = "settle"
  /\ scriptPc' = "start"
  /\ UNCHANGED <<receiverVars, senderVars>>

ScriptStart ==
  /\ scriptPc = "start"
  /\ \E c \in Conns : Start(c)
  /\ UNCHANGED scriptPc

\* As many as --num-senders says, one at least.
ScriptStarted ==
  /\ scriptPc = "start"
  /\ \E c \in Conns : sndPc[c] # "off"
  /\ scriptPc' = "waitSenders"
  /\ UNCHANGED <<receiverVars, senderVars>>

ScriptSendersEnded ==
  /\ scriptPc = "waitSenders"
  /\ \A c \in Conns : sndPc[c] = "off" \/ Ended(c)
  /\ scriptPc' = "waitReceiver"
  /\ UNCHANGED <<receiverVars, senderVars>>

ScriptReceiverEnded ==
  /\ scriptPc = "waitReceiver"
  /\ mainPc = "done"
  /\ scriptPc' = "done"
  /\ UNCHANGED <<receiverVars, senderVars>>

ScriptNext ==
  ScriptSettle \/ ScriptStart \/ ScriptStarted \/ ScriptSendersEnded \/ ScriptReceiverEnded

UserStart ==
  /\ scriptPc = "none"
  /\ \E c \in Conns : Start(c)
  /\ UNCHANGED scriptPc

UserInterrupt == scriptPc = "none" /\ HandleSigint /\ UNCHANGED <<scriptPc, senderVars>>

-----------------------------------------------------------------------------
\* The script has just started the receiver, for one connection.
Init ==
  /\ ReceiverInit
  /\ scriptPc \in {"none", "settle"}
  /\ scriptPc = "settle" => clientsMax = 1
  /\ sndPc = [c \in Conns |-> "off"]
  /\ toSend \in [Conns -> 1 .. MaxBlocks]
  /\ failed = [c \in Conns |-> FALSE]

\* Nothing is left to happen: the script is through, or waits for a receiver
\* that waits for senders.
Stopped ==
  /\ \A c \in Conns : sndPc[c] = "off" \/ Ended(c)
  /\ mainPc \in {"accept", "done"}
  /\ UNCHANGED vars

Lift(A) == A /\ UNCHANGED <<scriptPc, senderVars>>

Next ==
  \/ Lift(MainNext) \/ Lift(HandleSigchld) \/ Lift(ChildNext) \/ Lift(ChildEintr)
  \/ \E c \in Conns : SenderNext(c)
  \/ ScriptNext \/ UserStart \/ UserInterrupt
  \/ Stopped

Spec == Init /\ [][Next]_vars

\* Every process runs when it can.  What the user does, and faults, are not
\* promised.
FairSpec ==
  /\ Spec
  /\ WF_vars(Lift(Listen \/ TestLoop \/ Accept \/ Fork \/ WaitOne \/ WaitNone))
  /\ WF_vars(Lift(HandleSigchld))
  /\ \A c \in Conns : WF_vars(SenderNext(c))
  /\ WF_vars(Lift(ChildNext))
  /\ WF_vars(ScriptNext)

-----------------------------------------------------------------------------
(* Properties *)

TypeOK ==
  /\ ReceiverTypeOK
  /\ scriptPc \in {"none", "settle", "start", "waitSenders", "waitReceiver", "done"}
  /\ sndPc \in [Conns -> {"off", "connect", "send", "done", "refused", "killed"}]
  /\ toSend \in [Conns -> 0 .. MaxBlocks]
  /\ failed \in [Conns -> BOOLEAN]

Served == {c \in Conns : child[c] # "none"}

\* Not more connections than asked for are served, and each that was counted
\* has a child, is about to get one, or met a failing fork().
ServesWhatItCounts ==
  /\ clientsMax # 0 => nClients <= clientsMax
  /\ LET n == Cardinality(Served \union accepted) IN nClients \in n .. n + faults

\* Without an interrupt main outlives its children and leaves no zombie.
WaitsForChildren == mainPc = "done" /\ ~quit => Running \union Zombies = {}

\* After an interrupt main serves no further connection, but for the accept()
\* that it may already be in.
NoneAfterQuit ==
  [][quit /\ mainPc # "accept" => nClients' = nClients /\ mainPc' # "accept"]_vars

\* Signals of children that end together merge into one; their zombies do
\* not stay all the same.
ZombiesReaped ==
  \A c \in Conns : child[c] = "zombie" ~> child[c] = "reaped" \/ mainPc = "done"

\* An interrupt ends the receiver, unless it falls between the test of quit
\* and accept(), or does not cut accept() short.
QuitEnds == quit /\ mainPc \in {"test", "fork", "wait"} ~> mainPc = "done"

\* Every sender was refused, because the receiver was not up yet.
NobodyCame == \A c \in Conns : sndPc[c] \in {"off", "refused"}

\* The script, the senders and the receiver, started for one connection
\* however many senders there are, do not wait for each other for ever,
\* provided one sender found the receiver listening.
ScriptEnds == <>(scriptPc \in {"none", "done"} \/ (scriptPc = "waitReceiver" /\ NobodyCame))
=============================================================================
