---------------------------- MODULE VaticSystem ----------------------------
(***************************************************************************)
(* The Vatic transport: one server and one client process over a UDP link. *)
(***************************************************************************)
EXTENDS VaticServer, VaticClient

vars == <<serverVars, clientVars, linkVars>>

Init == ServerInit /\ ClientInit /\ LinkInit

\* The server has ended or was terminated, the client has ended or waits for
\* the signal that tells it to.
Stopped == mainPc \in {"done", "aborted"} /\ cliMain \in {"poll", "done"}

Next ==
  \/ ServerNext /\ UNCHANGED clientVars
  \/ ClientNext /\ UNCHANGED serverVars
  \/ Lose /\ UNCHANGED <<serverVars, clientVars>>
  \/ Stopped /\ UNCHANGED vars

Spec == Init /\ [][Next]_vars

(***************************************************************************)
(* Every thread that can run is run.  A critical section of the receiver   *)
(* needs strong fairness: the sender takes the mutex once a burst and      *)
(* sleeps up to TRAFFIC_BURST_US (10 ms) between bursts without it.  Of    *)
(* the environment only recvfrom is fair: a datagram that is not lost      *)
(* arrives.  Signals, losses, the clock and the end of main's sleep are    *)
(* not promised.                                                           *)
(***************************************************************************)
Fairness ==
  /\ WF_vars(SenderNext /\ UNCHANGED clientVars)
  /\ WF_vars((RcvLoop \/ RcvShut \/ RcvRecv) /\ UNCHANGED clientVars)
  /\ SF_vars((RcvRetire \/ RcvUnknown) /\ UNCHANGED clientVars)
  /\ SF_vars((RcvReportLoss \/ RcvReportRtt) /\ UNCHANGED clientVars)
  /\ WF_vars((MainShutRecv \/ MainShutSend \/ MainJoinSend \/ MainJoinRecv) /\ UNCHANGED clientVars)
  /\ WF_vars(CliThreadNext /\ UNCHANGED serverVars)
  /\ WF_vars(CliMainNext /\ UNCHANGED serverVars)

LiveSpec == Spec /\ Fairness

-----------------------------------------------------------------------------
(* Types *)

TypeOK == LinkTypeOK /\ ServerTypeOK /\ ClientTypeOK

-----------------------------------------------------------------------------
(* Safety *)

\* Whoever takes m_cwndMtx finds the three counters of m_cwnd consistent with
\* each other and with the in-flight map, whichever thread left them last.
CwndAccounting ==
  cwndMtx = "none" =>
    /\ cwndUsed = UsedBytes(inflight)
    /\ cwndFree = FreeRoom(cwndSize, cwndUsed)

\* A burst that read its size once never overruns the window: what it has
\* still to send fits beside everything in flight.  Outside bursts a window
\* that shrank may be overfull, but never by more than the maximum window.
WindowRespected ==
  /\ sndPc \in Burst => UsedBytes(inflight) + dataToSend <= cwndSize
  /\ UsedBytes(inflight) <= CwndMax

\* The server never processes an acknowledgement of a packet that is not in
\* flight, what Vatic.cpp:240 asserts: map::at would end the process.
AckIsInFlight == rcvPc # "aborted"

\* A packet the client received is counted as lost only if its ACK was lost:
\* on a path that keeps the order a later ACK cannot overtake it.
LossMeansDrop ==
  (recvTimes \cap (1 .. currPktId - 1)) \ (DOMAIN inflight \union ackedIds) \subseteq dropped

\* Whatever the path does, the server only logs an RTT for a packet that the
\* client received, or whose reception it is about to record.
AckedWasReceived == ackedIds \subseteq recvTimes \union {pkt}

\* A round-trip time longer than the run comes only from an ACK that was
\* timed before the sender had recorded its packet.
WrappedRttIsEarly == rcvPc = "report" /\ ack.rtt > clock => ack.early

\* Nothing is under way and the window is full.
Stalled ==
  /\ toClient = {} /\ toServer = {}
  /\ cwndFree = 0
  /\ sndPc \in {"loop", "pdus", "done"}
  /\ rcvPc \in {"loop", "recv", "done"}
  /\ cliPc # "ack"

\* There is no retransmission timeout: once the last datagrams of a full
\* window are lost, the server sends nothing for the rest of the run.
StallIsPermanent == [][Stalled => Stalled']_vars

\* main returns, and the destructor reads the logs, only when both threads
\* have ended; the client likewise.
JoinedBeforeExit ==
  /\ mainPc = "done" => sndPc = "done" /\ rcvPc = "done" /\ cwndMtx = "none"
  /\ cliMain = "done" => cliPc = "done"

-----------------------------------------------------------------------------
(* Refinement *)

Lengths == [id \in DOMAIN inflight |-> inflight[id].len]

Abstract == INSTANCE SlidingWindow
  WITH MinWindow <- InitCwnd, MaxWindow <- CwndMax, MaxLen <- MaxPayload,
       window <- cwndSize, unacked <- Lengths, nextId <- currPktId

\* The threads together implement the sliding window: no interleaving of a
\* burst, an acknowledgement and a window change sends beyond the window or
\* drops a packet from the books that no acknowledgement covers.
ImplementsSlidingWindow == Abstract!Spec

-----------------------------------------------------------------------------
(* Liveness *)

\* Every packet in flight was lost on its way or on the way back, or the client has
\* not taken it for one (its type byte, never set, read as ACK).
Unanswered == DOMAIN inflight \cap recvTimes \subseteq dropped


\* The shutdown sequence of the server gets both threads out of their loops,
\* also a receiver blocked in recvfrom and a sender in the middle of a burst.
ServerStops == mainPc = "shutrecv" ~> mainPc = "done"

\* So does the client's.
ClientStops == cliQuit ~> cliMain = "done"
=============================================================================
