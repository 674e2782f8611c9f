---------------------------- MODULE VaticServer ----------------------------
(***************************************************************************)
(* The Vatic server process (server_program.cpp, Vatic.cpp): the sender    *)
(* thread bursts packets while the congestion window has room, the         *)
(* receiver thread turns acknowledgements into window changes, the main    *)
(* thread stops both after the sending time.  The threads share m_cwnd     *)
(* under m_cwndMtx, the QUIT flag and the two sockets.                     *)
(*                                                                         *)
(* m_bufferMtx is left out: only SendPdus takes it, since main no longer   *)
(* wires a traffic source to ReceiveSdu (server_program.cpp:140-146).      *)
(* An operator X_bug is a wrong variant of X, see RttClusters.             *)
(***************************************************************************)
EXTENDS UdpLink, RttClusters

CONSTANTS
  InitCwnd,    \* VaticConf::m_initCwnd
  CwndMax,     \* VaticConf::m_cwndMax
  MaxPayload,  \* MAX_PAYLOAD_LEN
  AlphaThres,  \* VaticConf::m_alphaThres, in units of 1/Scale
  SendTime,    \* TrafficConf::m_sendTime, in milliseconds
  ServerSignals, \* TRUE if the server may get a signal that stops it
  HdrTypes,    \* what the uninitialised PktHdr::m_pktType of a packet may hold
  MaxPktId,    \* bound: no burst starts after this packet id
  MaxClock     \* bound: last value of the clock, in milliseconds

ASSUME WindowAssumption ==
  /\ InitCwnd \in Nat \ {0}
  /\ CwndMax \in Nat
  /\ InitCwnd <= CwndMax
  /\ MaxPayload \in Nat \ {0}
  /\ AlphaThres \in 0 .. Scale

ASSUME ServerAssumption ==
  /\ HdrTypes \subseteq {"DATA", "ACK"}
  /\ MaxPktId \in Nat
  /\ MaxClock \in Nat
  /\ SendTime \in Nat
  /\ ServerSignals \in BOOLEAN
  /\ Rtts = 0 .. U32 - 1

VARIABLES
  cwndSize, cwndFree, cwndUsed,  \* m_cwnd
  inflight,    \* m_cwnd.m_timeSentInflight: id -> [time, len]
  cwndMtx,     \* m_cwndMtx: "none" or "sender"; the receiver's critical
               \* sections are single steps
  sndPc,       \* where Vatic::Send is
  dataToSend,  \* its local, in bytes
  currPktId,   \* m_currPktId
  rcvPc,       \* where ReceiveCb is
  ack,         \* the locals of Vatic::Receive
  ackedIds,    \* ids in m_logRtts
  mainPc,      \* where main is
  quit,        \* QUIT
  recvShut,    \* socketRecv is shut down
  sendShut,    \* socketSend is shut down
  clock        \* NOW(), in milliseconds

cwndVars == <<cwndSize, cwndFree, cwndUsed, inflight>>
sndVars  == <<cwndMtx, sndPc, dataToSend, currPktId>>
rcvVars  == <<rcvPc, ack, ackedIds>>
mainVars == <<mainPc, quit, recvShut, sendShut>>
serverVars == <<cwndVars, sndVars, rcvVars, mainVars, clock, clusterVars>>

NoAck == [id |-> 0, now |-> 0, rtt |-> 0, losses |-> FALSE, early |-> FALSE]

-----------------------------------------------------------------------------
(* The congestion window *)

\* The loop over m_timeSentInflight that adds up the payload lengths.
UsedBytes(sent) == Total([id \in DOMAIN sent |-> sent[id].len], DOMAIN sent)

FreeRoom(size, used) == IF used < size THEN size - used ELSE 0

\* size *= 1 - alpha / 2, not below the initial window.
Shrunk(size, a) ==
  LET s == (size * (2 * Scale - a)) \div (2 * Scale) IN
  IF s < InitCwnd THEN InitCwnd ELSE s

\* size += (max - size) / 2.0, truncated, not above the maximum.
Grown(size) ==
  LET s == (size + CwndMax) \div 2 IN
  IF s > CwndMax THEN CwndMax ELSE s

Resized(size, a) == IF a > AlphaThres THEN Shrunk(size, a) ELSE Grown(size)

SetSize_bug(size) == cwndSize' = size /\ UNCHANGED <<cwndFree, cwndUsed, inflight>>

\* Every path that changes the window recomputes the free room.
SetSize(size) ==
  /\ cwndSize' = size
  /\ cwndFree' = FreeRoom(size, cwndUsed)
  /\ UNCHANGED <<cwndUsed, inflight>>

-----------------------------------------------------------------------------
(* Sender thread: Vatic::Send and SendPdus *)

LockCwnd_bug == UNCHANGED cwndMtx

\* The lock_guard at the top of SendPdus, held for the whole burst.
LockCwnd == cwndMtx = "none" /\ cwndMtx' = "sender"

BurstSize_bug == cwndSize

\* The bytes SendPdus sets out to send.
BurstSize == cwndFree

\* while (QUIT.load() == false)
SndLoop ==
  /\ sndPc = "loop"
  /\ sndPc' = IF quit THEN "done" ELSE "pdus"
  /\ UNCHANGED <<cwndVars, cwndMtx, dataToSend, currPktId, rcvVars, mainVars, clock,
                 clusterVars, linkVars>>

\* SendPdus with no room, or past the bound of the model, returns at once.
SndNoRoom ==
  /\ sndPc = "pdus"
  /\ cwndMtx = "none"
  /\ BurstSize = 0 \/ currPktId > MaxPktId
  /\ sndPc' = "loop"
  /\ UNCHANGED <<cwndVars, cwndMtx, dataToSend, currPktId, rcvVars, mainVars, clock,
                 clusterVars, linkVars>>

\* SendPdus takes the lock for the whole burst and reads its size once.
SndBurst ==
  /\ sndPc = "pdus"
  /\ LockCwnd
  /\ BurstSize > 0
  /\ currPktId <= MaxPktId
  /\ dataToSend' = BurstSize
  /\ sndPc' = "sendto"
  /\ UNCHANGED <<cwndVars, currPktId, rcvVars, mainVars, clock, clusterVars, linkVars>>

\* A datagram leaves unless the socket is shut down; the result of sendto is
\* not looked at (MSG_ASSERT is compiled out).
SndSendto ==
  /\ sndPc = "sendto"
  /\ \/ sendShut /\ UNCHANGED toClient
     \/ /\ ~sendShut
        /\ \E t \in HdrTypes : toClient' = toClient \union {[type |-> t, id |-> currPktId]}
  /\ sndPc' = "record"
  /\ UNCHANGED <<cwndVars, cwndMtx, dataToSend, currPktId, rcvVars, mainVars, clock,
                 clusterVars, toServer, dropped>>

\* The packet enters the in-flight map after it was sent.
SndRecord ==
  /\ sndPc = "record"
  /\ LET len == IF dataToSend < MaxPayload THEN dataToSend ELSE MaxPayload IN
       /\ inflight' = [id \in DOMAIN inflight \union {currPktId} |->
                         IF id = currPktId THEN [time |-> clock, len |-> len]
                                           ELSE inflight[id]]
       /\ dataToSend' = dataToSend - len
       /\ sndPc' = IF dataToSend > len THEN "sendto" ELSE "finish"
  /\ currPktId' = currPktId + 1
  /\ UNCHANGED <<cwndSize, cwndFree, cwndUsed, cwndMtx, rcvVars, mainVars, clock,
                 clusterVars, linkVars>>

\* The end of SendPdus: used and free are recomputed and the lock released.
SndFinish ==
  /\ sndPc = "finish"
  /\ cwndUsed' = UsedBytes(inflight)
  /\ cwndFree' = FreeRoom(cwndSize, UsedBytes(inflight))
  /\ cwndMtx' = "none"
  /\ sndPc' = "loop"
  /\ UNCHANGED <<cwndSize, inflight, dataToSend, currPktId, rcvVars, mainVars, clock,
                 clusterVars, linkVars>>

SenderNext ==
  SndLoop \/ SndNoRoom \/ SndBurst \/ SndSendto \/ SndRecord \/ SndFinish

-----------------------------------------------------------------------------
(* Receiver thread: ReceiveCb, Vatic::Receive and ReportAck *)

RcvLoop ==
  /\ rcvPc = "loop"
  /\ rcvPc' = IF quit THEN "done" ELSE "recv"
  /\ UNCHANGED <<cwndVars, sndVars, ack, ackedIds, mainVars, clock, clusterVars, linkVars>>

\* recvfrom returns 0 once the socket is shut down and has nothing queued.
RcvShut ==
  /\ rcvPc = "recv"
  /\ recvShut
  /\ rcvPc' = "loop"
  /\ UNCHANGED <<cwndVars, sndVars, ack, ackedIds, mainVars, clock, clusterVars, linkVars>>

\* An ACK is timed before the lock is asked for.  (early is a history flag:
\* the packet it answers is not in the map yet.)
RcvRecv ==
  /\ rcvPc = "recv"
  /\ \E m \in Deliverable(toServer) :
       /\ toServer' \in Leftovers(toServer, m)
       /\ IF m.type = "ACK"
          THEN /\ ack' = [NoAck EXCEPT !.id = m.id, !.now = clock,
                                       !.early = m.id \notin DOMAIN inflight]
               /\ rcvPc' = "lock"
          ELSE UNCHANGED ack /\ rcvPc' = "loop"
  /\ UNCHANGED <<cwndVars, sndVars, ackedIds, mainVars, clock, clusterVars, toClient, dropped>>

RttOf_bug(now, sent) == (sent - now) % U32

\* DurationMs(now, sent) as the uint32 ReportAck takes: a clock read before
\* the packet was recorded wraps around.
RttOf(now, sent) == (now - sent) % U32

StillInFlight_bug(id) == {k \in DOMAIN inflight : k > id + 1}

StillInFlight_bug2(id) == DOMAIN inflight \ {id}

\* What an acknowledgement of id leaves in flight.
StillInFlight(id) == {k \in DOMAIN inflight : k > id}

Logged_bug(id) == {k \in DOMAIN inflight : k <= id}

\* The packets an acknowledgement of id adds to m_logRtts.
Logged(id) == {id}

\* The critical section of Receive: the packet is acknowledged and every
\* older one still in flight counts as lost.
RcvRetire ==
  /\ rcvPc = "lock"
  /\ cwndMtx = "none"
  /\ ack.id \in DOMAIN inflight
  /\ ack' = [ack EXCEPT !.rtt    = RttOf(ack.now, inflight[ack.id].time),
                        !.losses = \E id \in DOMAIN inflight : id < ack.id]
  /\ inflight' = Restrict(inflight, StillInFlight(ack.id))
  /\ cwndUsed' = UsedBytes(inflight')
  /\ cwndFree' = FreeRoom(cwndSize, cwndUsed')
  /\ ackedIds' = ackedIds \union Logged(ack.id)
  /\ rcvPc' = "report"
  /\ UNCHANGED <<cwndSize, sndVars, mainVars, clock, clusterVars, linkVars>>

\* map::at throws for a packet that is not in flight, nothing catches it and
\* std::terminate ends the process (the MSG_ASSERT before it is compiled out).
RcvUnknown ==
  /\ rcvPc = "lock"
  /\ cwndMtx = "none"
  /\ ack.id \notin DOMAIN inflight
  /\ sndPc' = "aborted"
  /\ rcvPc' = "aborted"
  /\ mainPc' = "aborted"
  /\ UNCHANGED <<cwndVars, cwndMtx, dataToSend, currPktId, ack, ackedIds, quit, recvShut,
                 sendShut, clock, clusterVars, linkVars>>

\* ReportAck after losses: the window shrinks and the RTT is not looked at.
RcvReportLoss ==
  /\ rcvPc = "report"
  /\ cwndMtx = "none"
  /\ ack.losses
  /\ SetSize(Shrunk(cwndSize, alpha))
  /\ ack' = NoAck
  /\ rcvPc' = "loop"
  /\ UNCHANGED <<sndVars, ackedIds, mainVars, clock, clusterVars, linkVars>>

\* ReportAck without losses: the classifier is this thread's own, so its
\* update and the locked window update are one step.
RcvReportRtt ==
  /\ rcvPc = "report"
  /\ cwndMtx = "none"
  /\ ~ack.losses
  /\ ProcessRtt(ack.rtt)
  /\ SetSize(Resized(cwndSize, alpha'))
  /\ ack' = NoAck
  /\ rcvPc' = "loop"
  /\ UNCHANGED <<sndVars, ackedIds, mainVars, clock, linkVars>>

ReceiverNext ==
  RcvLoop \/ RcvShut \/ RcvRecv \/ RcvRetire \/ RcvUnknown \/ RcvReportLoss \/ RcvReportRtt

-----------------------------------------------------------------------------
(* Main thread, signals and time *)

MainStep(from, to) ==
  /\ mainPc = from
  /\ mainPc' = to
  /\ UNCHANGED <<cwndVars, sndVars, rcvVars, clock, clusterVars, linkVars>>

\* QUIT is set once the sending time is over.
MainWake ==
  /\ MainStep("sleep", "shutrecv")
  /\ clock >= SendTime
  /\ quit' = TRUE
  /\ UNCHANGED <<recvShut, sendShut>>

MainShutRecv_bug ==
  MainStep("shutrecv", "shutsend") /\ UNCHANGED <<quit, recvShut, sendShut>>

MainShutRecv ==
  /\ MainStep("shutrecv", "shutsend")
  /\ recvShut' = TRUE
  /\ UNCHANGED <<quit, sendShut>>

MainShutSend ==
  /\ MainStep("shutsend", "joinsender")
  /\ sendShut' = TRUE
  /\ UNCHANGED <<quit, recvShut>>

MainJoinSend ==
  /\ MainStep("joinsender", "joinreceiver")
  /\ sndPc = "done"
  /\ UNCHANGED <<quit, recvShut, sendShut>>

MainJoinRecv ==
  /\ MainStep("joinreceiver", "done")
  /\ rcvPc = "done"
  /\ UNCHANGED <<quit, recvShut, sendShut>>

\* SignalHandler sets QUIT; main sleeps on, since sleep_for resumes.
Signal ==
  /\ ServerSignals
  /\ mainPc \notin {"done", "aborted"}
  /\ ~quit
  /\ quit' = TRUE
  /\ UNCHANGED <<cwndVars, sndVars, rcvVars, mainPc, recvShut, sendShut, clock, clusterVars,
                 linkVars>>

Tick ==
  /\ mainPc \notin {"done", "aborted"}
  /\ clock < MaxClock
  /\ clock' = clock + 1
  /\ UNCHANGED <<cwndVars, sndVars, rcvVars, mainVars, clusterVars, linkVars>>

MainNext == MainWake \/ MainShutRecv \/ MainShutSend \/ MainJoinSend \/ MainJoinRecv

ServerNext == SenderNext \/ ReceiverNext \/ MainNext \/ Signal \/ Tick

ServerInit ==
  /\ ClustersInit
  /\ cwndSize = InitCwnd
  /\ cwndFree = InitCwnd
  /\ cwndUsed = 0
  /\ inflight = <<>>
  /\ cwndMtx = "none"
  /\ sndPc = "loop" /\ dataToSend = 0 /\ currPktId = 1
  /\ rcvPc = "loop" /\ ack = NoAck /\ ackedIds = {}
  /\ mainPc = "sleep" /\ quit = FALSE /\ recvShut = FALSE /\ sendShut = FALSE
  /\ clock = 0

-----------------------------------------------------------------------------
(* Types *)

\* Where the sender is while it holds m_cwndMtx.
Burst == {"sendto", "record", "finish"}

CwndTypeOK ==
  /\ cwndSize \in InitCwnd .. CwndMax
  /\ cwndFree \in Nat /\ cwndUsed \in Nat
  /\ DOMAIN inflight \in SUBSET (1 .. currPktId - 1)
  /\ inflight \in [DOMAIN inflight -> [time : Nat, len : 1 .. MaxPayload]]

SenderTypeOK ==
  /\ cwndMtx \in {"none", "sender"}
  /\ sndPc \in {"loop", "pdus", "done", "aborted"} \union Burst
  /\ dataToSend \in Nat /\ currPktId \in Nat \ {0}

ReceiverTypeOK ==
  /\ rcvPc \in {"loop", "recv", "lock", "report", "done", "aborted"}
  /\ ack \in [id : Nat, now : Nat, rtt : 0 .. U32 - 1, losses : BOOLEAN, early : BOOLEAN]
  /\ ackedIds \subseteq Nat

MainTypeOK ==
  /\ mainPc \in {"sleep", "shutrecv", "shutsend", "joinsender", "joinreceiver", "done", "aborted"}
  /\ quit \in BOOLEAN /\ recvShut \in BOOLEAN /\ sendShut \in BOOLEAN
  /\ clock \in Nat

ServerTypeOK ==
  ClustersTypeOK /\ CwndTypeOK /\ SenderTypeOK /\ ReceiverTypeOK /\ MainTypeOK
=============================================================================
