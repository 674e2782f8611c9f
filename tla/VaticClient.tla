---------------------------- MODULE VaticClient ----------------------------
(***************************************************************************)
(* The Vatic client process (client_program.cpp, Client.cpp): the receiver *)
(* thread acknowledges every data packet it gets, the main thread polls    *)
(* QUIT and stops the receiver.  m_ackCountMtx is left out: the thread     *)
(* that would contend for it, Client::Send, is not started                 *)
(* (client_program.cpp:121).  An operator X_bug is a wrong variant of X,   *)
(* see RttClusters.                                                        *)
(***************************************************************************)
EXTENDS UdpLink

CONSTANT ClientSignals  \* TRUE if the client may get a signal that stops it

ASSUME ClientAssumption == ClientSignals \in BOOLEAN

VARIABLES
  cliPc,       \* where ReceiveCb is
  pkt,         \* id of the packet Client::Receive handles, 0 for none
  recvTimes,   \* ids in m_recvTimes
  lastNacked,  \* m_ackCount.m_lastNacked
  cliMain,     \* where main is
  cliQuit,     \* QUIT of the client
  cliShut      \* socketRecv is shut down

cliThread  == <<cliPc, pkt, recvTimes, lastNacked>>
clientVars == <<cliThread, cliMain, cliQuit, cliShut>>

CliLoop ==
  /\ cliPc = "loop"
  /\ cliPc' = IF cliQuit THEN "done" ELSE "recv"
  /\ UNCHANGED <<pkt, recvTimes, lastNacked, cliMain, cliQuit, cliShut, linkVars>>

\* recvfrom returns 0 on a socket that was shut down.
CliShutdown ==
  /\ cliPc = "recv"
  /\ cliShut
  /\ cliPc' = "loop"
  /\ UNCHANGED <<pkt, recvTimes, lastNacked, cliMain, cliQuit, cliShut, linkVars>>

\* A packet whose type byte reads ACK is not answered.
CliRecv ==
  /\ cliPc = "recv"
  /\ \E m \in Deliverable(toClient) :
       /\ toClient' \in Leftovers(toClient, m)
       /\ \/ m.type = "ACK" /\ cliPc' = "loop" /\ UNCHANGED pkt
          \/ m.type # "ACK" /\ cliPc' = "ack" /\ pkt' = m.id
  /\ UNCHANGED <<recvTimes, lastNacked, cliMain, cliQuit, cliShut, toServer, dropped>>


\* SendWithId: the ACK leaves before the reception is recorded, and carries
\* the id of the packet it answers.
AckFor(id) == [type |-> "ACK", id |-> id]

CliAck ==
  /\ cliPc = "ack"
  /\ toServer' = toServer \union {AckFor(pkt)}
  /\ cliPc' = "record"
  /\ UNCHANGED <<pkt, recvTimes, lastNacked, cliMain, cliQuit, cliShut, toClient, dropped>>

CliRecord ==
  /\ cliPc = "record"
  /\ recvTimes' = recvTimes \union {pkt}
  /\ lastNacked' = pkt
  /\ pkt' = 0
  /\ cliPc' = "loop"
  /\ UNCHANGED <<cliMain, cliQuit, cliShut, linkVars>>

CliThreadNext == CliLoop \/ CliShutdown \/ CliRecv \/ CliAck \/ CliRecord

\* main polls QUIT every second, then unblocks and joins its receiver.
CliMainQuit ==
  /\ cliMain = "poll"
  /\ cliQuit
  /\ cliMain' = "shutdown"
  /\ UNCHANGED <<cliThread, cliQuit, cliShut, linkVars>>

CliMainShut_bug ==
  /\ cliMain = "shutdown"
  /\ cliMain' = "join"
  /\ UNCHANGED <<cliThread, cliQuit, cliShut, linkVars>>

CliMainShut ==
  /\ cliMain = "shutdown"
  /\ cliShut' = TRUE
  /\ cliMain' = "join"
  /\ UNCHANGED <<cliThread, cliQuit, linkVars>>

CliMainJoin ==
  /\ cliMain = "join"
  /\ cliPc = "done"
  /\ cliMain' = "done"
  /\ UNCHANGED <<cliThread, cliQuit, cliShut, linkVars>>

CliMainNext == CliMainQuit \/ CliMainShut \/ CliMainJoin

CliSignal ==
  /\ ClientSignals
  /\ ~cliQuit
  /\ cliQuit' = TRUE
  /\ UNCHANGED <<cliThread, cliMain, cliShut, linkVars>>

ClientNext == CliThreadNext \/ CliMainNext \/ CliSignal

ClientInit ==
  /\ cliPc = "loop"
  /\ pkt = 0
  /\ recvTimes = {}
  /\ lastNacked = 0
  /\ cliMain = "poll"
  /\ cliQuit = FALSE
  /\ cliShut = FALSE

ClientTypeOK ==
  /\ cliPc \in {"loop", "recv", "ack", "record", "done"}
  /\ pkt \in Nat /\ lastNacked \in Nat /\ recvTimes \subseteq Nat
  /\ cliMain \in {"poll", "shutdown", "join", "done"}
  /\ cliQuit \in BOOLEAN /\ cliShut \in BOOLEAN
=============================================================================
