-------------------------- MODULE VaticSystemProofs --------------------------
(***************************************************************************)
(* The Vatic transport for every window, packet size, link and RTT: types, *)
(* the books of the congestion window, the sliding window it implements,   *)
(* and what an acknowledgement means: it was sent for a packet the client  *)
(* got, its RTT is longer than the run only if it overtook the             *)
(* bookkeeping, and on a path that keeps the order its packet is in flight *)
(* and what it skips was lost.  Also the order in which the threads end,   *)
(* and that a stall is for good.                                           *)
(***************************************************************************)
EXTENDS VaticSystem, RttClustersProofs

\* The sender holds m_cwndMtx exactly during a burst.
MutexOwner == cwndMtx = "sender" <=> sndPc \in Burst

\* A burst that has not ended has something to send.
BurstHasData == sndPc \in {"sendto", "record"} => dataToSend > 0

\* The part of the inductive invariant that concerns m_cwnd.
CwndInv ==
  CwndTypeOK /\ SenderTypeOK /\ MutexOwner /\ BurstHasData /\ CwndAccounting /\ WindowRespected

\* The inductive invariant.
SystemInv ==
  LinkTypeOK /\ ClientTypeOK /\ ReceiverTypeOK /\ MainTypeOK /\ ClustersInv /\ CwndInv

-----------------------------------------------------------------------------
(* The operators of the congestion window *)

\* The packets in flight are finitely many and their bytes a natural number.
LEMMA UsedBytesType ==
  ASSUME CwndTypeOK, SenderTypeOK
  PROVE  /\ IsFiniteSet(DOMAIN inflight)
         /\ \A id \in DOMAIN inflight :
              [k \in DOMAIN inflight |-> inflight[k].len][id] \in 0 .. MaxPayload
         /\ UsedBytes(inflight) \in Nat
<1>1. IsFiniteSet(1 .. currPktId - 1)  BY FS_Interval DEF SenderTypeOK
<1>2. IsFiniteSet(DOMAIN inflight)  BY <1>1, FS_Subset DEF CwndTypeOK
<1>3. \A id \in DOMAIN inflight :
        [k \in DOMAIN inflight |-> inflight[k].len][id] \in 0 .. MaxPayload
  BY WindowAssumption DEF CwndTypeOK
<1>4. MaxPayload \in Nat  BY WindowAssumption
<1>5. UsedBytes(inflight) \in Nat  BY <1>2, <1>3, <1>4, TotalUpper DEF UsedBytes
<1>6. QED  BY <1>2, <1>3, <1>5

\* A new packet adds its length.
LEMMA UsedBytesRecord ==
  ASSUME CwndTypeOK, SenderTypeOK, NEW sent, NEW len \in Nat,
         sent = [id \in DOMAIN inflight \union {currPktId} |->
                   IF id = currPktId THEN [time |-> clock, len |-> len] ELSE inflight[id]]
  PROVE  UsedBytes(sent) = UsedBytes(inflight) + len
<1> DEFINE f == [id \in DOMAIN inflight |-> inflight[id].len]
           g == [id \in DOMAIN sent |-> sent[id].len]
<1>1. IsFiniteSet(DOMAIN inflight) /\ \A id \in DOMAIN inflight : f[id] \in 0 .. MaxPayload
  BY UsedBytesType
<1>2. currPktId \notin DOMAIN inflight  BY DEF CwndTypeOK, SenderTypeOK
<1>3. DOMAIN sent = DOMAIN inflight \union {currPktId}  OBVIOUS
<1>4. g[currPktId] = len /\ \A id \in DOMAIN inflight : g[id] = f[id]  BY <1>2, <1>3
<1>5. MaxPayload \in Nat  BY WindowAssumption
<1> HIDE DEF f, g
<1>6. Total(g, DOMAIN inflight \union {currPktId}) = Total(f, DOMAIN inflight) + len
  BY <1>1, <1>2, <1>4, <1>5, TotalInsert
<1>7. QED  BY <1>3, <1>6 DEF UsedBytes, f, g

\* Fewer packets have fewer bytes.
LEMMA UsedBytesRestrict ==
  ASSUME CwndTypeOK, SenderTypeOK, NEW K \in SUBSET DOMAIN inflight
  PROVE  /\ UsedBytes(Restrict(inflight, K)) \in Nat
         /\ UsedBytes(Restrict(inflight, K)) <= UsedBytes(inflight)
<1> DEFINE f == [id \in DOMAIN inflight |-> inflight[id].len]
           r == Restrict(inflight, K)
           g == [id \in DOMAIN r |-> r[id].len]
<1>1. IsFiniteSet(DOMAIN inflight) /\ \A id \in DOMAIN inflight : f[id] \in 0 .. MaxPayload
  BY UsedBytesType
<1>2. MaxPayload \in Nat  BY WindowAssumption
<1>3. DOMAIN r = K /\ \A id \in K : g[id] = f[id]  BY DEF Restrict
<1> HIDE DEF f, g, r
<1>4. IsFiniteSet(K)  BY <1>1, FS_Subset
<1>5. Total(g, K) = Total(f, K)  BY <1>3, TotalSame
<1>6. Total(f, K) <= Total(f, DOMAIN inflight)  BY <1>1, <1>2, TotalSubset
<1>7. Total(f, K) \in Nat  BY <1>1, <1>2, <1>4, TotalUpper
<1>8. QED  BY <1>3, <1>5, <1>6, <1>7 DEF UsedBytes, f, g, r

LEMMA FreeRoomType ==
  ASSUME NEW size \in Nat, NEW used \in Nat
  PROVE  /\ FreeRoom(size, used) \in Nat
         /\ FreeRoom(size, used) > 0 => used + FreeRoom(size, used) <= size
BY DEF FreeRoom

\* The window never leaves [initial, maximum].
LEMMA ShrunkRange ==
  ASSUME NEW size \in InitCwnd .. CwndMax, NEW a \in 0 .. Scale
  PROVE  Shrunk(size, a) \in InitCwnd .. CwndMax
<1> DEFINE d == 2 * Scale
           n == size * (d - a)
           s == n \div d
<1>1. d \in Nat \ {0} /\ d - a \in Nat /\ d - a <= d  BY ScaleAssumption
<1>2. size \in Nat /\ InitCwnd \in Nat /\ CwndMax \in Nat  BY WindowAssumption
<1> HIDE DEF d
<1>3. n \in Nat /\ n <= size * d  BY <1>1, <1>2, MultMonotone
<1>4. s \in Nat /\ s * d <= n
  <2> HIDE DEF n
  <2>1. QED  BY <1>1, <1>3
<1> HIDE DEF s, n
<1>5. s <= size
  <2>1. SUFFICES ASSUME size + 1 <= s  PROVE FALSE  BY <1>2, <1>4
  <2>2. d * (size + 1) <= d * s  BY <1>1, <1>2, <1>4, <2>1, MultMonotone
  <2>3. d * (size + 1) = size * d + d /\ d * s = s * d  BY <1>1, <1>2, <1>4
  <2>4. size * d \in Nat /\ s * d \in Nat  BY <1>1, <1>2, <1>4
  <2>5. QED  BY <1>1, <1>3, <1>4, <2>2, <2>3, <2>4
<1>6. Shrunk(size, a) = IF s < InitCwnd THEN InitCwnd ELSE s  BY DEF Shrunk, s, n, d
<1>7. QED  BY <1>2, <1>4, <1>5, <1>6

LEMMA ResizedRange ==
  ASSUME NEW size \in InitCwnd .. CwndMax, NEW a \in 0 .. Scale
  PROVE  Resized(size, a) \in InitCwnd .. CwndMax
<1>1. Grown(size) \in InitCwnd .. CwndMax  BY WindowAssumption DEF Grown
<1>2. QED  BY <1>1, ShrunkRange DEF Resized

-----------------------------------------------------------------------------
(* The congestion window through one step *)

\* The critical section of an acknowledgement, with any set of packets kept.
LEMMA RetireKeepsCwnd ==
  ASSUME CwndInv, NEW K \in SUBSET DOMAIN inflight,
         cwndMtx = "none",
         inflight' = Restrict(inflight, K),
         cwndUsed' = UsedBytes(inflight'),
         cwndFree' = FreeRoom(cwndSize, cwndUsed'),
         UNCHANGED <<cwndSize, sndVars>>
  PROVE  CwndInv'
<1> USE DEF sndVars
<1>1. CwndTypeOK /\ SenderTypeOK  BY DEF CwndInv
<1>2. cwndUsed' \in Nat /\ cwndUsed' <= UsedBytes(inflight) /\ UsedBytes(inflight) \in Nat
  BY <1>1, UsedBytesRestrict, UsedBytesType
<1>3. cwndSize \in Nat /\ cwndFree' \in Nat
  BY <1>1, <1>2, FreeRoomType, WindowAssumption DEF CwndTypeOK
<1>4. CwndTypeOK'
  <2>1. DOMAIN inflight' = K /\ \A id \in K : inflight'[id] = inflight[id]  BY DEF Restrict
  <2>2. inflight' \in [K -> [time : Nat, len : 1 .. MaxPayload]]
    BY <1>1 DEF Restrict, CwndTypeOK
  <2>3. QED  BY <1>1, <1>2, <1>3, <2>1, <2>2 DEF CwndTypeOK
<1>5. SenderTypeOK'  BY <1>1 DEF SenderTypeOK
<1>6. MutexOwner' /\ BurstHasData' /\ sndPc' \notin Burst
  BY DEF CwndInv, MutexOwner, BurstHasData
<1>7. CwndAccounting'  BY DEF CwndAccounting
<1>8. WindowRespected'
  BY <1>2, <1>6, WindowAssumption DEF CwndInv, WindowRespected
<1>9. QED  BY <1>4, <1>5, <1>6, <1>7, <1>8 DEF CwndInv

\* A window change of the receiver.
LEMMA SetSizeKeepsCwnd ==
  ASSUME CwndInv, NEW size \in InitCwnd .. CwndMax,
         cwndMtx = "none", SetSize(size), UNCHANGED sndVars
  PROVE  CwndInv'
<1> USE DEF sndVars, SetSize
<1>1. CwndTypeOK /\ SenderTypeOK  BY DEF CwndInv
<1>2. size \in Nat /\ cwndFree' \in Nat
  BY <1>1, FreeRoomType, WindowAssumption DEF CwndTypeOK
<1>3. CwndTypeOK'  BY <1>1, <1>2 DEF CwndTypeOK
<1>4. SenderTypeOK'  BY <1>1 DEF SenderTypeOK
<1>5. MutexOwner' /\ BurstHasData' /\ sndPc' \notin Burst
  BY DEF CwndInv, MutexOwner, BurstHasData
<1>6. CwndAccounting'  BY DEF CwndInv, CwndAccounting
<1>7. WindowRespected'  BY <1>5 DEF CwndInv, WindowRespected
<1>8. QED  BY <1>3, <1>4, <1>5, <1>6, <1>7 DEF CwndInv

\* A step that leaves the window, the mutex and the packets alone and does not
\* move the sender into or within a burst.
LEMMA FrameKeepsCwnd ==
  ASSUME CwndInv, UNCHANGED <<cwndVars, cwndMtx, dataToSend, currPktId>>,
         \/ sndPc' = sndPc
         \/ sndPc \notin Burst /\ sndPc' \in {"loop", "pdus", "done", "aborted"}
         \/ sndPc = "sendto" /\ sndPc' = "record"
  PROVE  CwndInv'
<1> USE DEF cwndVars
<1>1. CwndTypeOK'  BY DEF CwndInv, CwndTypeOK
<1>2. SenderTypeOK' /\ MutexOwner' /\ BurstHasData'
  BY DEF CwndInv, SenderTypeOK, MutexOwner, BurstHasData, Burst
<1>3. CwndAccounting' /\ WindowRespected'
  BY DEF CwndInv, CwndAccounting, WindowRespected, Burst
<1>4. QED  BY <1>1, <1>2, <1>3 DEF CwndInv

\* The lock is taken and the room read: what is to be sent fits.
LEMMA BurstKeepsCwnd ==
  ASSUME CwndInv, SndBurst  PROVE CwndInv'
<1> USE DEF SndBurst, LockCwnd, BurstSize, cwndVars
<1>1. CwndTypeOK /\ SenderTypeOK  BY DEF CwndInv
<1>2. CwndTypeOK' /\ SenderTypeOK' /\ MutexOwner' /\ BurstHasData' /\ CwndAccounting'
  BY <1>1 DEF CwndTypeOK, SenderTypeOK, MutexOwner, BurstHasData, CwndAccounting, Burst
<1>3. cwndUsed = UsedBytes(inflight) /\ cwndFree = FreeRoom(cwndSize, cwndUsed)
  BY DEF CwndInv, CwndAccounting
<1>4. cwndUsed + cwndFree <= cwndSize
  BY <1>1, <1>3, FreeRoomType, WindowAssumption DEF CwndTypeOK
<1>5. WindowRespected'  BY <1>3, <1>4 DEF CwndInv, WindowRespected
<1>6. QED  BY <1>2, <1>5 DEF CwndInv

\* A packet moves from the bytes to be sent to the bytes in flight.
LEMMA RecordKeepsCwnd ==
  ASSUME CwndInv, clock \in Nat, SndRecord  PROVE CwndInv'
<1> DEFINE len == IF dataToSend < MaxPayload THEN dataToSend ELSE MaxPayload
<1>1. CwndTypeOK /\ SenderTypeOK /\ dataToSend \in Nat /\ dataToSend > 0
  BY DEF CwndInv, BurstHasData, SenderTypeOK, SndRecord
<1>2. len \in 1 .. MaxPayload /\ len \in Nat /\ len <= dataToSend
  BY <1>1, WindowAssumption
<1>3. /\ inflight' = [id \in DOMAIN inflight \union {currPktId} |->
                        IF id = currPktId THEN [time |-> clock, len |-> len]
                                          ELSE inflight[id]]
      /\ dataToSend' = dataToSend - len
      /\ sndPc = "record" /\ sndPc' = IF dataToSend > len THEN "sendto" ELSE "finish"
      /\ currPktId' = currPktId + 1
      /\ UNCHANGED <<cwndSize, cwndFree, cwndUsed, cwndMtx, clock>>
  BY DEF SndRecord, mainVars
<1> HIDE DEF len
<1>4. UsedBytes(inflight') = UsedBytes(inflight) + len /\ UsedBytes(inflight) \in Nat
  BY <1>1, <1>2, <1>3, UsedBytesRecord, UsedBytesType
<1>5. CwndTypeOK'
  <2>1. DOMAIN inflight' = DOMAIN inflight \union {currPktId}  BY <1>3
  <2>2. DOMAIN inflight' \in SUBSET (1 .. currPktId' - 1)
    BY <1>1, <1>3, <2>1 DEF CwndTypeOK, SenderTypeOK
  <2>3. inflight' \in [DOMAIN inflight' -> [time : Nat, len : 1 .. MaxPayload]]
    <3>1. [time |-> clock, len |-> len] \in [time : Nat, len : 1 .. MaxPayload]  BY <1>2
    <3>2. \A id \in DOMAIN inflight : inflight[id] \in [time : Nat, len : 1 .. MaxPayload]
      BY <1>1 DEF CwndTypeOK
    <3>3. QED  BY <1>3, <2>1, <3>1, <3>2
  <2>4. QED  BY <1>1, <1>3, <2>2, <2>3 DEF CwndTypeOK
<1>6. SenderTypeOK' /\ MutexOwner' /\ BurstHasData' /\ CwndAccounting'
  BY <1>1, <1>2, <1>3
  DEF CwndInv, SenderTypeOK, MutexOwner, BurstHasData, CwndAccounting, Burst
<1>7. cwndSize <= CwndMax /\ cwndSize \in Nat /\ CwndMax \in Nat
  BY <1>1, WindowAssumption DEF CwndTypeOK
<1>8. UsedBytes(inflight) + dataToSend <= cwndSize
  BY <1>3 DEF CwndInv, WindowRespected, Burst
<1>9. WindowRespected'  BY <1>1, <1>2, <1>3, <1>4, <1>7, <1>8 DEF WindowRespected
<1>10. QED  BY <1>5, <1>6, <1>9 DEF CwndInv

\* The books are balanced before the lock is released.
LEMMA FinishKeepsCwnd ==
  ASSUME CwndInv, SndFinish  PROVE CwndInv'
<1> USE DEF SndFinish
<1>1. CwndTypeOK /\ SenderTypeOK  BY DEF CwndInv
<1>2. UsedBytes(inflight) \in Nat /\ cwndSize \in Nat
  BY <1>1, UsedBytesType, WindowAssumption DEF CwndTypeOK
<1>3. CwndTypeOK'  BY <1>1, <1>2, FreeRoomType DEF CwndTypeOK
<1>4. SenderTypeOK' /\ MutexOwner' /\ BurstHasData'
  BY <1>1 DEF SenderTypeOK, MutexOwner, BurstHasData, Burst
<1>5. CwndAccounting' /\ WindowRespected'
  BY DEF CwndInv, CwndAccounting, WindowRespected, Burst
<1>6. QED  BY <1>3, <1>4, <1>5 DEF CwndInv

-----------------------------------------------------------------------------
(* The invariant *)

LEMMA NoAckType ==
  NoAck \in [id : Nat, now : Nat, rtt : 0 .. U32 - 1, losses : BOOLEAN, early : BOOLEAN]
BY RttsAssumption DEF NoAck

LEMMA SystemInitInv ==
  ASSUME Init  PROVE SystemInv
<1> USE DEF Init, ServerInit, ClientInit, LinkInit
<1>1. DOMAIN inflight = {}  OBVIOUS
<1>2. UsedBytes(inflight) = 0  BY <1>1, TotalEmpty DEF UsedBytes
<1>3. LinkTypeOK  BY FS_EmptySet DEF LinkTypeOK
<1>4. ClientTypeOK  BY DEF ClientTypeOK
<1>5. ReceiverTypeOK /\ MainTypeOK
  BY NoAckType DEF ReceiverTypeOK, MainTypeOK
<1>6. ClustersInv  BY ClustersInitInv
<1>7. CwndInv
  <2>1. CwndTypeOK  BY <1>1, WindowAssumption DEF CwndTypeOK
  <2>2. SenderTypeOK /\ MutexOwner /\ BurstHasData
    BY DEF SenderTypeOK, MutexOwner, BurstHasData, Burst
  <2>3. CwndAccounting /\ WindowRespected
    BY <1>2, WindowAssumption DEF CwndAccounting, WindowRespected, FreeRoom, Burst
  <2>4. QED  BY <2>1, <2>2, <2>3 DEF CwndInv
<1>8. QED  BY <1>3, <1>4, <1>5, <1>6, <1>7 DEF SystemInv

\* The sender moves its own state, the window under the mutex, and the flow to
\* the client.
LEMMA SenderKeepsInv ==
  ASSUME SystemInv, SenderNext, UNCHANGED clientVars
  PROVE  SystemInv'
<1> USE DEF SystemInv
<1>1. UNCHANGED <<rcvVars, mainVars, clock, clusterVars, clientVars, toServer, dropped>>
  BY DEF SenderNext, SndLoop, SndNoRoom, SndBurst, SndSendto, SndRecord, SndFinish, linkVars
<1>2. ClientTypeOK' /\ ReceiverTypeOK' /\ MainTypeOK'
  BY <1>1 DEF ClientTypeOK, ReceiverTypeOK, MainTypeOK, rcvVars, mainVars, clientVars, cliThread
<1>3. ClustersInv'  BY <1>1, ClustersStutter
<1>4. LinkTypeOK'
  <2>1. CASE SndSendto
    <3>1. \A t \in HdrTypes : [type |-> t, id |-> currPktId] \in Datagrams
      BY ServerAssumption DEF Datagrams, CwndInv, SenderTypeOK
    <3>2. QED  BY <1>1, <2>1, <3>1 DEF SndSendto, LinkTypeOK
  <2>2. CASE ~SndSendto
    <3>1. UNCHANGED toClient
      BY <2>2 DEF SenderNext, SndLoop, SndNoRoom, SndBurst, SndRecord, SndFinish, linkVars
    <3>2. QED  BY <1>1, <3>1 DEF LinkTypeOK
  <2>3. QED  BY <2>1, <2>2
<1>5. CwndInv'
  <2>1. CASE SndLoop    BY <2>1, FrameKeepsCwnd DEF SndLoop, Burst
  <2>2. CASE SndNoRoom  BY <2>2, FrameKeepsCwnd DEF SndNoRoom, Burst
  <2>3. CASE SndBurst   BY <2>3, BurstKeepsCwnd
  <2>4. CASE SndSendto  BY <2>4, FrameKeepsCwnd DEF SndSendto
  <2>5. CASE SndRecord  BY <2>5, RecordKeepsCwnd DEF MainTypeOK
  <2>6. CASE SndFinish  BY <2>6, FinishKeepsCwnd
  <2>7. QED  BY <2>1, <2>2, <2>3, <2>4, <2>5, <2>6 DEF SenderNext
<1>6. QED  BY <1>2, <1>3, <1>4, <1>5

\* The receiver moves its own state and the classifier's, takes from the flow
\* to the server and, in its critical sections, changes the window.
LEMMA ReceiverKeepsInv ==
  ASSUME SystemInv, ReceiverNext, UNCHANGED clientVars
  PROVE  SystemInv'
<1> USE DEF SystemInv
<1>1. ClientTypeOK'  BY DEF ClientTypeOK, clientVars, cliThread
<1>2. LinkTypeOK'
  <2>1. toServer' \subseteq toServer /\ UNCHANGED <<toClient, dropped>>
    BY DEF ReceiverNext, RcvLoop, RcvShut, RcvRecv, RcvRetire, RcvUnknown, RcvReportLoss,
           RcvReportRtt, linkVars, Leftovers
  <2>2. QED  BY <2>1 DEF LinkTypeOK
<1>3. MainTypeOK'
  BY DEF MainTypeOK, ReceiverNext, RcvLoop, RcvShut, RcvRecv, RcvRetire, RcvUnknown,
         RcvReportLoss, RcvReportRtt, mainVars
<1>4. CASE RcvLoop \/ RcvShut \/ RcvUnknown
  <2>1. ReceiverTypeOK'
    BY <1>4 DEF ReceiverTypeOK, RcvLoop, RcvShut, RcvUnknown
  <2>2. ClustersInv'  BY <1>4, ClustersStutter DEF RcvLoop, RcvShut, RcvUnknown
  <2>3. CwndInv'
    <3>1. CASE RcvLoop \/ RcvShut  BY <3>1, FrameKeepsCwnd DEF RcvLoop, RcvShut, sndVars
    <3>2. CASE RcvUnknown
      <4>1. sndPc \notin Burst  BY <3>2 DEF RcvUnknown, CwndInv, MutexOwner
      <4>2. QED  BY <3>2, <4>1, FrameKeepsCwnd DEF RcvUnknown
    <3>3. QED  BY <1>4, <3>1, <3>2
  <2>4. QED  BY <1>1, <1>2, <1>3, <2>1, <2>2, <2>3
<1>5. CASE RcvRecv
  <2>1. PICK m \in Deliverable(toServer) :
          IF m.type = "ACK"
          THEN /\ ack' = [NoAck EXCEPT !.id = m.id, !.now = clock,
                                       !.early = m.id \notin DOMAIN inflight]
               /\ rcvPc' = "lock"
          ELSE UNCHANGED ack /\ rcvPc' = "loop"
    BY <1>5 DEF RcvRecv
  <2>2. m.id \in Nat /\ clock \in Nat /\ 0 \in 0 .. U32 - 1
    BY RttsAssumption DEF Deliverable, LinkTypeOK, MainTypeOK
  <2>3. ReceiverTypeOK'
    <3>1. CASE m.type = "ACK"
      <4> DEFINE early == m.id \notin DOMAIN inflight
      <4>1. ack' = [id |-> m.id, now |-> clock, rtt |-> 0, losses |-> FALSE, early |-> early]
        BY <2>1, <3>1 DEF NoAck
      <4>2. early \in BOOLEAN  OBVIOUS
      <4> HIDE DEF early
      <4>3. QED  BY <1>5, <2>1, <2>2, <3>1, <4>1, <4>2 DEF RcvRecv, ReceiverTypeOK
    <3>2. CASE m.type # "ACK"  BY <1>5, <2>1, <3>2 DEF RcvRecv, ReceiverTypeOK
    <3>3. QED  BY <3>1, <3>2
  <2>4. ClustersInv'  BY <1>5, ClustersStutter DEF RcvRecv
  <2>5. CwndInv'  BY <1>5, FrameKeepsCwnd DEF RcvRecv, sndVars
  <2>6. QED  BY <1>1, <1>2, <1>3, <2>3, <2>4, <2>5
<1>6. CASE RcvRetire
  <2>1. RttOf(ack.now, inflight[ack.id].time) \in 0 .. U32 - 1
    <3>1. ack.now \in Nat  BY DEF ReceiverTypeOK
    <3>2. inflight[ack.id].time \in Nat  BY <1>6 DEF RcvRetire, CwndInv, CwndTypeOK
    <3>3. QED  BY <3>1, <3>2, RttsAssumption DEF RttOf
  <2>2. ReceiverTypeOK'
    <3>1. ack.id \in Nat  BY DEF ReceiverTypeOK
    <3>2. QED  BY <1>6, <2>1, <3>1 DEF RcvRetire, ReceiverTypeOK, Logged
  <2>3. ClustersInv'  BY <1>6, ClustersStutter DEF RcvRetire
  <2>4. CwndInv'
    <3>1. StillInFlight(ack.id) \in SUBSET DOMAIN inflight  BY DEF StillInFlight
    <3>2. QED  BY <1>6, <3>1, RetireKeepsCwnd DEF RcvRetire
  <2>5. QED  BY <1>1, <1>2, <1>3, <2>2, <2>3, <2>4
<1>7. CASE RcvReportLoss \/ RcvReportRtt
  <2>2. ReceiverTypeOK'
    BY <1>7, NoAckType DEF RcvReportLoss, RcvReportRtt, ReceiverTypeOK
  <2>3. ClustersInv'
    <3>1. CASE RcvReportLoss  BY <3>1, ClustersStutter DEF RcvReportLoss
    <3>2. CASE RcvReportRtt
      <4>1. ack.rtt \in Rtts  BY ServerAssumption DEF ReceiverTypeOK
      <4>2. QED  BY <3>2, <4>1, ProcessRttKeepsInv DEF RcvReportRtt
    <3>3. QED  BY <1>7, <3>1, <3>2
  <2>4. CwndInv'
    <3>1. cwndSize \in InitCwnd .. CwndMax /\ alpha \in 0 .. Scale /\ alpha' \in 0 .. Scale
      BY <2>3 DEF CwndInv, CwndTypeOK, ClustersInv, ClustersTypeOK
    <3>2. CASE RcvReportLoss
      BY <3>1, <3>2, ShrunkRange, SetSizeKeepsCwnd DEF RcvReportLoss
    <3>3. CASE RcvReportRtt
      BY <3>1, <3>3, ResizedRange, SetSizeKeepsCwnd DEF RcvReportRtt
    <3>4. QED  BY <1>7, <3>2, <3>3
  <2>5. QED  BY <1>1, <1>2, <1>3, <2>2, <2>3, <2>4
<1>8. QED  BY <1>4, <1>5, <1>6, <1>7 DEF ReceiverNext

\* The main thread, a signal and the clock touch no window.
LEMMA MainKeepsInv ==
  ASSUME SystemInv, MainNext \/ Signal \/ Tick, UNCHANGED clientVars
  PROVE  SystemInv'
<1> USE DEF SystemInv
<1>1. UNCHANGED <<cwndVars, sndVars, rcvVars, clusterVars, linkVars>>
  BY DEF MainNext, MainWake, MainShutRecv, MainShutSend, MainJoinSend, MainJoinRecv,
         MainStep, Signal, Tick
<1>2. MainTypeOK'
  <2>1. CASE MainWake  BY <2>1 DEF MainTypeOK, MainWake, MainStep
  <2>2. CASE MainShutRecv  BY <2>2 DEF MainTypeOK, MainShutRecv, MainStep
  <2>3. CASE MainShutSend  BY <2>3 DEF MainTypeOK, MainShutSend, MainStep
  <2>4. CASE MainJoinSend \/ MainJoinRecv
    BY <2>4 DEF MainTypeOK, MainJoinSend, MainJoinRecv, MainStep
  <2>5. CASE Signal  BY <2>5 DEF MainTypeOK, Signal
  <2>6. CASE Tick  BY <2>6 DEF MainTypeOK, Tick, mainVars
  <2>7. QED  BY <2>1, <2>2, <2>3, <2>4, <2>5, <2>6 DEF MainNext
<1>3. ClientTypeOK' /\ ReceiverTypeOK' /\ LinkTypeOK'
  BY <1>1 DEF ClientTypeOK, ReceiverTypeOK, LinkTypeOK, rcvVars, linkVars, clientVars, cliThread
<1>4. ClustersInv'  BY <1>1, ClustersStutter
<1>5. CwndInv'  BY <1>1, FrameKeepsCwnd DEF sndVars
<1>6. QED  BY <1>2, <1>3, <1>4, <1>5

\* The client and the link touch no server state.
LEMMA ClientKeepsInv ==
  ASSUME SystemInv, ClientNext \/ (Lose /\ UNCHANGED clientVars), UNCHANGED serverVars
  PROVE  SystemInv'
<1> USE DEF SystemInv
<1>1. ReceiverTypeOK' /\ MainTypeOK'
  BY DEF ReceiverTypeOK, MainTypeOK, serverVars, rcvVars, mainVars
<1>2. ClustersInv'  BY ClustersStutter DEF serverVars
<1>3. CwndInv'  BY FrameKeepsCwnd DEF serverVars, sndVars
<1>4. ClientTypeOK' /\ LinkTypeOK'
  <2>1. CASE CliRecv
    <3>1. PICK m \in toClient : /\ toClient' \in Leftovers(toClient, m)
                                /\ pkt' \in {pkt, m.id} /\ cliPc' \in {"loop", "ack"}
      BY <2>1 DEF CliRecv, Deliverable
    <3>2. m.id \in Nat /\ toClient' \subseteq toClient
      BY <3>1 DEF LinkTypeOK, Datagrams, Leftovers
    <3>3. QED  BY <2>1, <3>1, <3>2 DEF CliRecv, ClientTypeOK, LinkTypeOK
  <2>2. CASE CliAck
    <3>1. AckFor(pkt) \in [type : {"ACK"}, id : Nat]  BY DEF ClientTypeOK, AckFor
    <3>2. QED  BY <2>2, <3>1 DEF CliAck, ClientTypeOK, LinkTypeOK
  <2>3. CASE Lose /\ UNCHANGED clientVars
    <3>1. PICK m \in toClient \union toServer : dropped' = dropped \union {m.id}
      BY <2>3 DEF Lose
    <3>2. toClient' \subseteq toClient /\ toServer' \subseteq toServer
      BY <2>3 DEF Lose
    <3>3. m.id \in Nat  BY DEF LinkTypeOK, Datagrams
    <3>4. IsFiniteSet(dropped')  BY <3>1, FS_AddElement DEF LinkTypeOK
    <3>5. LinkTypeOK'  BY <3>1, <3>2, <3>3, <3>4 DEF LinkTypeOK
    <3>6. ClientTypeOK'  BY <2>3 DEF ClientTypeOK, clientVars, cliThread
    <3>7. QED  BY <3>5, <3>6
  <2>4. CASE CliLoop \/ CliShutdown \/ CliRecord
    <3>1. /\ pkt' \in Nat /\ lastNacked' \in Nat /\ recvTimes' \subseteq Nat
          /\ cliPc' \in {"loop", "recv", "done"}
      <4>1. CASE CliLoop  BY <4>1 DEF CliLoop, ClientTypeOK
      <4>2. CASE CliShutdown  BY <4>2 DEF CliShutdown, ClientTypeOK
      <4>3. CASE CliRecord  BY <4>3 DEF CliRecord, ClientTypeOK
      <4>4. QED  BY <2>4, <4>1, <4>2, <4>3
    <3>2. UNCHANGED <<cliMain, cliQuit, cliShut, linkVars>>
      BY <2>4 DEF CliLoop, CliShutdown, CliRecord
    <3>3. QED  BY <3>1, <3>2 DEF ClientTypeOK, LinkTypeOK, linkVars
  <2>5. CASE CliMainNext \/ CliSignal
    BY <2>5 DEF CliMainNext, CliMainQuit, CliMainShut, CliMainJoin, CliSignal,
                ClientTypeOK, LinkTypeOK, linkVars, cliThread
  <2>6. QED  BY <2>1, <2>2, <2>3, <2>4, <2>5 DEF ClientNext, CliThreadNext
<1>5. QED  BY <1>1, <1>2, <1>3, <1>4

LEMMA StutterKeepsInv ==
  ASSUME SystemInv, UNCHANGED vars  PROVE SystemInv'
<1> USE DEF SystemInv, vars
<1>1. ReceiverTypeOK' /\ MainTypeOK' /\ ClientTypeOK' /\ LinkTypeOK'
  BY DEF ReceiverTypeOK, MainTypeOK, ClientTypeOK, LinkTypeOK, serverVars, rcvVars, mainVars,
         clientVars, cliThread, linkVars
<1>2. ClustersInv'  BY ClustersStutter DEF serverVars
<1>3. CwndInv'  BY FrameKeepsCwnd DEF serverVars, sndVars
<1>4. QED  BY <1>1, <1>2, <1>3

LEMMA SystemInvariant == Spec => []SystemInv
<1>1. Init => SystemInv  BY SystemInitInv
<1>2. ASSUME SystemInv, [Next]_vars  PROVE SystemInv'
  <2>1. CASE ServerNext /\ UNCHANGED clientVars
    BY <1>2, <2>1, SenderKeepsInv, ReceiverKeepsInv, MainKeepsInv DEF ServerNext
  <2>2. CASE ClientNext /\ UNCHANGED serverVars  BY <1>2, <2>2, ClientKeepsInv
  <2>3. CASE Lose /\ UNCHANGED <<serverVars, clientVars>>  BY <1>2, <2>3, ClientKeepsInv
  <2>4. CASE UNCHANGED vars  BY <1>2, <2>4, StutterKeepsInv
  <2>5. QED  BY <1>2, <2>1, <2>2, <2>3, <2>4 DEF Next
<1>3. QED  BY <1>1, <1>2, PTL DEF Spec

\* Every variable keeps its type, whatever the window, packet and link.
THEOREM TypeCorrect == Spec => []TypeOK
<1>1. SystemInv => TypeOK
  BY DEF SystemInv, CwndInv, ClustersInv, TypeOK, ServerTypeOK
<1>2. QED  BY <1>1, SystemInvariant, PTL

\* The counters of m_cwnd agree with the in-flight map whenever m_cwndMtx is
\* free (Vatic.cpp:211-222, 244-260, 319-330).
THEOREM BooksBalance == Spec => []CwndAccounting
<1>1. SystemInv => CwndAccounting  BY DEF SystemInv, CwndInv
<1>2. QED  BY <1>1, SystemInvariant, PTL

\* A burst never overruns the window (Vatic.cpp:174-216).
THEOREM WindowNeverOverrun == Spec => []WindowRespected
<1>1. SystemInv => WindowRespected  BY DEF SystemInv, CwndInv
<1>2. QED  BY <1>1, SystemInvariant, PTL

-----------------------------------------------------------------------------
(* The sliding window *)

\* The bytes of the abstract packets are those of the in-flight map.
LEMMA AbstractTotal == Abstract!Total(Lengths, DOMAIN Lengths) = UsedBytes(inflight)
<1>1. DOMAIN Lengths = DOMAIN inflight  BY DEF Lengths
<1>2. ASSUME NEW S  PROVE Abstract!Cardinality(S) = Cardinality(S)
  BY DEF Abstract!Cardinality, Cardinality
<1>3. Abstract!Units(Lengths, DOMAIN Lengths) = Units(Lengths, DOMAIN Lengths)
  BY DEF Abstract!Units, Units
<1>4. Abstract!Total(Lengths, DOMAIN Lengths) = Total(Lengths, DOMAIN Lengths)
  BY <1>2, <1>3 DEF Abstract!Total, Total
<1>5. QED  BY <1>1, <1>4 DEF UsedBytes, Lengths

\* A step that leaves the window, the packets and the counter alone stutters.
LEMMA FrameStutters ==
  ASSUME UNCHANGED <<cwndSize, inflight, currPktId>>
  PROVE  UNCHANGED <<cwndSize, Lengths, currPktId>>
BY DEF Lengths

\* Recording a packet is Send.
LEMMA RecordIsSend ==
  ASSUME SystemInv, SndRecord
  PROVE  \E len \in 1 .. MaxPayload : Abstract!Send(len)
<1> DEFINE len == IF dataToSend < MaxPayload THEN dataToSend ELSE MaxPayload
<1>1. CwndTypeOK /\ SenderTypeOK /\ dataToSend \in Nat /\ dataToSend > 0
  BY DEF SystemInv, CwndInv, BurstHasData, SenderTypeOK, SndRecord
<1>2. len \in 1 .. MaxPayload /\ len <= dataToSend  BY <1>1, WindowAssumption
<1>3. /\ inflight' = [id \in DOMAIN inflight \union {currPktId} |->
                        IF id = currPktId THEN [time |-> clock, len |-> len]
                                          ELSE inflight[id]]
      /\ currPktId' = currPktId + 1
      /\ cwndSize' = cwndSize
  BY DEF SndRecord
<1> HIDE DEF len
<1>4. UsedBytes(inflight) + dataToSend <= cwndSize
      /\ UsedBytes(inflight) \in Nat /\ cwndSize \in Nat
  BY <1>1, UsedBytesType, WindowAssumption
  DEF SystemInv, CwndInv, WindowRespected, Burst, SndRecord, CwndTypeOK
<1>5. Abstract!Total(Lengths, DOMAIN Lengths) + len <= cwndSize
  BY <1>1, <1>2, <1>4, AbstractTotal, WindowAssumption
<1>6. Lengths' = [id \in DOMAIN Lengths \union {currPktId} |->
                    IF id = currPktId THEN len ELSE Lengths[id]]
  <2>1. DOMAIN Lengths = DOMAIN inflight  BY DEF Lengths
  <2>2. DOMAIN inflight' = DOMAIN inflight \union {currPktId}  BY <1>3
  <2>3. ASSUME NEW id \in DOMAIN inflight \union {currPktId}
        PROVE  inflight'[id].len = IF id = currPktId THEN len ELSE Lengths[id]
    BY <1>3, <2>3 DEF Lengths
  <2>4. QED  BY <2>1, <2>2, <2>3 DEF Lengths
<1>7. Abstract!Send(len)  BY <1>3, <1>5, <1>6 DEF Abstract!Send
<1>8. QED  BY <1>2, <1>7

\* The critical section of an acknowledgement is Acknowledge.
LEMMA RetireIsAcknowledge ==
  ASSUME RcvRetire
  PROVE  \E id \in DOMAIN Lengths : Abstract!Acknowledge(id)
<1> DEFINE K == {k \in DOMAIN inflight : k > ack.id}
<1>1. /\ ack.id \in DOMAIN inflight
      /\ inflight' = Restrict(inflight, K)
      /\ UNCHANGED <<cwndSize, currPktId>>
  BY DEF RcvRetire, StillInFlight, sndVars
<1>2. DOMAIN Lengths = DOMAIN inflight  BY DEF Lengths
<1>3. Lengths' = Abstract!Restrict(Lengths, {k \in DOMAIN Lengths : k > ack.id})
  <2>1. DOMAIN inflight' = K /\ \A k \in K : inflight'[k] = inflight[k]
    BY <1>1 DEF Restrict
  <2>2. Lengths' = [k \in K |-> Lengths[k]]  BY <2>1 DEF Lengths
  <2>3. QED  BY <1>2, <2>2 DEF Abstract!Restrict
<1>4. Abstract!Acknowledge(ack.id)  BY <1>1, <1>3 DEF Abstract!Acknowledge
<1>5. QED  BY <1>1, <1>2, <1>4

\* A window change is Resize.
LEMMA ReportIsResize ==
  ASSUME SystemInv, SystemInv', RcvReportLoss \/ RcvReportRtt
  PROVE  \E size \in InitCwnd .. CwndMax : Abstract!Resize(size)
<1>1. UNCHANGED <<inflight, currPktId>>
  BY DEF RcvReportLoss, RcvReportRtt, SetSize, sndVars
<1>2. Lengths' = Lengths  BY <1>1 DEF Lengths
<1>3. cwndSize' \in InitCwnd .. CwndMax  BY DEF SystemInv, CwndInv, CwndTypeOK
<1>4. QED  BY <1>1, <1>2, <1>3 DEF Abstract!Resize

LEMMA StepRefines ==
  ASSUME SystemInv, SystemInv', [Next]_vars
  PROVE  [Abstract!Next]_<<cwndSize, Lengths, currPktId>>
<1>1. CASE SndRecord  BY <1>1, RecordIsSend DEF Abstract!Next
<1>2. CASE RcvRetire  BY <1>2, RetireIsAcknowledge DEF Abstract!Next
<1>3. CASE RcvReportLoss \/ RcvReportRtt  BY <1>3, ReportIsResize DEF Abstract!Next
<1>4. CASE SndLoop \/ SndNoRoom \/ SndBurst \/ SndSendto \/ SndFinish
  BY <1>4, FrameStutters DEF SndLoop, SndNoRoom, SndBurst, SndSendto, SndFinish, cwndVars
<1>5. CASE RcvLoop \/ RcvShut \/ RcvRecv \/ RcvUnknown
  BY <1>5, FrameStutters DEF RcvLoop, RcvShut, RcvRecv, RcvUnknown, cwndVars, sndVars
<1>6. CASE MainNext \/ Signal \/ Tick
  BY <1>6, FrameStutters
  DEF MainNext, MainWake, MainShutRecv, MainShutSend, MainJoinSend, MainJoinRecv, MainStep,
      Signal, Tick, cwndVars, sndVars
<1>7. CASE UNCHANGED serverVars
  BY <1>7, FrameStutters DEF serverVars, cwndVars, sndVars
<1>8. QED
  BY <1>1, <1>2, <1>3, <1>4, <1>5, <1>6, <1>7
  DEF Next, ServerNext, SenderNext, ReceiverNext, vars

LEMMA InitRefines ==
  ASSUME Init  PROVE Abstract!Init
<1>1. cwndSize = InitCwnd /\ currPktId = 1 /\ DOMAIN inflight = {}
  BY DEF Init, ServerInit
<1>2. Lengths = [id \in {} |-> 0]  BY <1>1 DEF Lengths
<1>3. QED  BY <1>1, <1>2 DEF Abstract!Init

\* The server's threads implement the sliding window (Vatic.cpp:173-262,
\* 319-330), whatever the link, the client and the RTTs do.
THEOREM ServerIsSlidingWindow == Spec => ImplementsSlidingWindow
<1>1. Init => Abstract!Init  BY InitRefines
<1>2. SystemInv /\ SystemInv' /\ [Next]_vars
        => [Abstract!Next]_<<cwndSize, Lengths, currPktId>>
  BY StepRefines
<1>3. QED
  BY <1>1, <1>2, SystemInvariant, PTL DEF Spec, ImplementsSlidingWindow, Abstract!Spec

-----------------------------------------------------------------------------
(* Acknowledged means received *)

\* The packets the client received, one not yet recorded included.
Seen == recvTimes \union (IF cliPc = "record" THEN {pkt} ELSE {})

\* Ids on their way back, and in the server's log, are of such packets.
AckSeen ==
  /\ \A m \in toServer : m.id \in Seen
  /\ rcvPc \in {"lock", "report"} => ack.id \in Seen
  /\ ackedIds \subseteq Seen

LEMMA AckSeenStep ==
  ASSUME AckSeen, [Next]_vars  PROVE AckSeen'
<1>1. CASE CliThreadNext /\ UNCHANGED serverVars
  <2>1. Seen \subseteq Seen'
    BY <1>1 DEF Seen, CliThreadNext, CliLoop, CliShutdown, CliRecv, CliAck, CliRecord
  <2>2. \A m \in toServer' : m.id \in Seen'
    <3>1. CASE CliAck
      BY <3>1, <2>1 DEF CliAck, AckSeen, Seen, AckFor
    <3>2. CASE CliLoop \/ CliShutdown \/ CliRecv \/ CliRecord
      BY <3>2, <2>1 DEF CliLoop, CliShutdown, CliRecv, CliRecord, linkVars, AckSeen
    <3>3. QED  BY <1>1, <3>1, <3>2 DEF CliThreadNext
  <2>3. QED  BY <1>1, <2>1, <2>2 DEF AckSeen, serverVars, rcvVars
<1>2. CASE ServerNext /\ UNCHANGED clientVars
  <2>1. Seen' = Seen  BY <1>2 DEF Seen, clientVars, cliThread
  <2>2. CASE RcvRecv
    <3>1. PICK m \in toServer : /\ toServer' \in Leftovers(toServer, m)
                                /\ rcvPc' \in {"loop", "lock"} /\ UNCHANGED ackedIds
                                /\ rcvPc' = "lock" => ack' = [NoAck EXCEPT !.id = m.id,
                                      !.now = clock, !.early = m.id \notin DOMAIN inflight]
      BY <2>2 DEF RcvRecv, Deliverable
    <3>2. rcvPc' = "lock" => ack'.id = m.id  BY <3>1 DEF NoAck
    <3>3. toServer' \subseteq toServer  BY <3>1 DEF Leftovers
    <3>4. QED  BY <2>1, <3>1, <3>2, <3>3 DEF AckSeen
  <2>3. CASE RcvRetire
    <3>1. ack'.id = ack.id \/ ack' = ack  BY <2>3 DEF RcvRetire
    <3>2. QED  BY <2>1, <2>3, <3>1 DEF RcvRetire, AckSeen, Logged, linkVars
  <2>4. CASE RcvLoop \/ RcvShut \/ RcvUnknown \/ RcvReportLoss \/ RcvReportRtt
    BY <2>1, <2>4
    DEF RcvLoop, RcvShut, RcvUnknown, RcvReportLoss, RcvReportRtt, AckSeen, linkVars
  <2>5. CASE SenderNext \/ MainNext \/ Signal \/ Tick
    <3>1. UNCHANGED <<rcvVars, toServer>>
      BY <2>5
      DEF SenderNext, SndLoop, SndNoRoom, SndBurst, SndSendto, SndRecord, SndFinish, MainNext,
          MainWake, MainShutRecv, MainShutSend, MainJoinSend, MainJoinRecv, MainStep, Signal,
          Tick, linkVars
    <3>2. QED  BY <2>1, <3>1 DEF AckSeen, rcvVars
  <2>6. QED  BY <1>2, <2>2, <2>3, <2>4, <2>5 DEF ServerNext, ReceiverNext
<1>3. CASE (CliMainNext \/ CliSignal) /\ UNCHANGED serverVars
  <2>1. UNCHANGED <<cliThread, toServer>>
    BY <1>3 DEF CliMainNext, CliMainQuit, CliMainShut, CliMainJoin, CliSignal, linkVars
  <2>2. QED  BY <1>3, <2>1 DEF AckSeen, Seen, cliThread, serverVars, rcvVars
<1>4. CASE Lose /\ UNCHANGED <<serverVars, clientVars>>
  <2>1. toServer' \subseteq toServer  BY <1>4 DEF Lose
  <2>2. QED  BY <1>4, <2>1 DEF AckSeen, Seen, clientVars, cliThread, serverVars, rcvVars
<1>5. CASE UNCHANGED vars
  BY <1>5 DEF AckSeen, Seen, vars, clientVars, cliThread, serverVars, rcvVars, linkVars
<1>6. QED  BY <1>1, <1>2, <1>3, <1>4, <1>5 DEF Next, ClientNext

\* The server logs an RTT only for a packet the client received
\* (Vatic.cpp:236-243, Client.cpp:97-108), over any path.
THEOREM AckedMeansReceived == Spec => []AckedWasReceived
<1>1. Init => AckSeen
  BY DEF Init, ServerInit, ClientInit, LinkInit, AckSeen, Seen
<1>2. AckSeen => AckedWasReceived  BY DEF AckSeen, Seen, AckedWasReceived
<1>3. QED  BY <1>1, <1>2, AckSeenStep, PTL DEF Spec

-----------------------------------------------------------------------------
(* The order in which the threads end *)

JoinInv ==
  /\ mainPc \in {"joinreceiver", "done"} => sndPc = "done"
  /\ mainPc = "done" => rcvPc = "done"
  /\ cliMain = "done" => cliPc = "done"

LEMMA JoinInvStep ==
  ASSUME JoinInv, [Next]_vars  PROVE JoinInv'
<1>1. CASE SenderNext /\ UNCHANGED clientVars
  <2>1. sndPc # "done" /\ UNCHANGED <<mainPc, rcvPc>>
    BY <1>1 DEF SenderNext, SndLoop, SndNoRoom, SndBurst, SndSendto, SndRecord, SndFinish,
                mainVars, rcvVars
  <2>2. QED  BY <1>1, <2>1 DEF JoinInv, clientVars, cliThread
<1>2. CASE ReceiverNext /\ UNCHANGED clientVars
  <2>1. rcvPc # "done"
    BY <1>2 DEF ReceiverNext, RcvLoop, RcvShut, RcvRecv, RcvRetire, RcvUnknown, RcvReportLoss,
                RcvReportRtt
  <2>2. mainPc' = "aborted" \/ UNCHANGED <<mainPc, sndPc>>
    BY <1>2 DEF ReceiverNext, RcvLoop, RcvShut, RcvRecv, RcvRetire, RcvUnknown, RcvReportLoss,
                RcvReportRtt, mainVars, sndVars
  <2>3. QED  BY <1>2, <2>1, <2>2 DEF JoinInv, clientVars, cliThread
<1>3. CASE (MainNext \/ Signal \/ Tick) /\ UNCHANGED clientVars
  <2>1. UNCHANGED <<sndPc, rcvPc>>
    BY <1>3 DEF MainNext, MainWake, MainShutRecv, MainShutSend, MainJoinSend, MainJoinRecv,
                MainStep, Signal, Tick, sndVars, rcvVars
  <2>2. \/ UNCHANGED mainPc
        \/ mainPc' \notin {"joinreceiver", "done"}
        \/ mainPc' = "joinreceiver" /\ sndPc = "done"
        \/ mainPc = "joinreceiver" /\ mainPc' = "done" /\ rcvPc = "done"
    BY <1>3 DEF MainNext, MainWake, MainShutRecv, MainShutSend, MainJoinSend, MainJoinRecv,
                MainStep, Signal, Tick, mainVars
  <2>3. QED  BY <1>3, <2>1, <2>2 DEF JoinInv, clientVars, cliThread
<1>4. CASE ClientNext /\ UNCHANGED serverVars
  <2>1. \/ cliPc # "done" /\ UNCHANGED cliMain
        \/ UNCHANGED cliPc /\ (cliMain' = cliMain \/ cliMain' # "done" \/ cliPc = "done")
    BY <1>4 DEF ClientNext, CliThreadNext, CliLoop, CliShutdown, CliRecv, CliAck, CliRecord,
                CliMainNext, CliMainQuit, CliMainShut, CliMainJoin, CliSignal, cliThread
  <2>2. QED  BY <1>4, <2>1 DEF JoinInv, serverVars, mainVars, sndVars, rcvVars
<1>5. CASE UNCHANGED <<serverVars, clientVars>>
  BY <1>5 DEF JoinInv, serverVars, mainVars, sndVars, rcvVars, clientVars, cliThread
<1>6. QED  BY <1>1, <1>2, <1>3, <1>4, <1>5 DEF Next, ServerNext, vars

\* main reads the logs only after both threads have ended, and neither ends
\* with the mutex held (server_program.cpp:159-168, client_program.cpp:128-135).
THEOREM ThreadsEndFirst == Spec => []JoinedBeforeExit
<1>1. Init => JoinInv  BY DEF Init, ServerInit, ClientInit, JoinInv
<1>2. SystemInv /\ JoinInv => JoinedBeforeExit
  <2>1. SystemInv /\ sndPc = "done" => cwndMtx = "none"
    BY DEF SystemInv, CwndInv, SenderTypeOK, MutexOwner, Burst
  <2>2. QED  BY <2>1 DEF JoinInv, JoinedBeforeExit
<1>3. QED  BY <1>1, <1>2, JoinInvStep, SystemInvariant, PTL DEF Spec

-----------------------------------------------------------------------------
(* When an RTT wraps around *)

\* Packets are recorded, and acknowledgements timed, at times that have come;
\* a packet in the map before its acknowledgement was timed is the older one.
TimesInv ==
  /\ \A id \in DOMAIN inflight : inflight[id].time <= clock
  /\ rcvPc = "lock" => ack.now <= clock
  /\ rcvPc = "lock" /\ ~ack.early =>
       /\ ack.id < currPktId
       /\ ack.id \in DOMAIN inflight => inflight[ack.id].time <= ack.now
  /\ WrappedRttIsEarly

LEMMA TimesInvStep ==
  ASSUME SystemInv, TimesInv, [Next]_vars  PROVE TimesInv'
<1>1. /\ clock \in Nat /\ ack.id \in Nat /\ ack.now \in Nat /\ ack.rtt \in Nat
      /\ currPktId \in Nat
      /\ \A id \in DOMAIN inflight : inflight[id].time \in Nat /\ id < currPktId /\ id \in Nat
  BY RttsAssumption
  DEF SystemInv, CwndInv, CwndTypeOK, SenderTypeOK, ReceiverTypeOK, MainTypeOK
<1>2. CASE SndRecord
  <2>1. PICK len :
          /\ inflight' = [id \in DOMAIN inflight \union {currPktId} |->
                            IF id = currPktId THEN [time |-> clock, len |-> len]
                                              ELSE inflight[id]]
          /\ currPktId' = currPktId + 1
          /\ UNCHANGED <<rcvPc, ack, clock>>
    BY <1>2 DEF SndRecord, rcvVars
  <2>2. /\ DOMAIN inflight' = DOMAIN inflight \union {currPktId}
        /\ inflight'[currPktId].time = clock
        /\ \A id \in DOMAIN inflight : inflight'[id].time = inflight[id].time
    BY <1>1, <2>1
  <2>3. QED  BY <1>1, <2>1, <2>2 DEF TimesInv, WrappedRttIsEarly
<1>3. CASE RcvRecv
  <2>1. /\ UNCHANGED <<inflight, currPktId, clock>>
        /\ \/ rcvPc' = "loop"
           \/ /\ rcvPc' = "lock"
              /\ ack'.now = clock
              /\ ~ack'.early => ack'.id \in DOMAIN inflight
    BY <1>3 DEF RcvRecv, NoAck, cwndVars, sndVars
  <2>2. WrappedRttIsEarly'  BY <2>1 DEF WrappedRttIsEarly
  <2>3. rcvPc' = "lock" => ack'.now <= clock'  BY <1>1, <2>1
  <2>4. rcvPc' = "lock" /\ ~ack'.early =>
          /\ ack'.id < currPktId'
          /\ ack'.id \in DOMAIN inflight' => inflight'[ack'.id].time <= ack'.now
    BY <1>1, <2>1 DEF TimesInv
  <2>5. QED  BY <2>1, <2>2, <2>3, <2>4 DEF TimesInv
<1>4. CASE RcvRetire
  <2>1. /\ ack.id \in DOMAIN inflight /\ rcvPc = "lock" /\ rcvPc' = "report"
        /\ ack' = [ack EXCEPT !.rtt    = RttOf(ack.now, inflight[ack.id].time),
                              !.losses = \E id \in DOMAIN inflight : id < ack.id]
        /\ inflight' = Restrict(inflight, StillInFlight(ack.id))
        /\ UNCHANGED clock
    BY <1>4 DEF RcvRetire
  <2>2. ack'.rtt = RttOf(ack.now, inflight[ack.id].time) /\ ack'.early = ack.early
    BY <2>1 DEF SystemInv, ReceiverTypeOK
  <2>3. \A id \in DOMAIN inflight' : id \in DOMAIN inflight /\ inflight'[id] = inflight[id]
    BY <2>1 DEF Restrict, StillInFlight
  <2>4. ASSUME ~ack.early  PROVE ack'.rtt <= clock
    <3> DEFINE d == ack.now - inflight[ack.id].time
    <3>1. d \in Nat /\ d <= clock  BY <1>1, <2>1, <2>4 DEF TimesInv
    <3>2. ack'.rtt = d % U32  BY <2>2 DEF RttOf
    <3> HIDE DEF d
    <3>3. d % U32 <= d  BY <3>1, RttsAssumption
    <3>4. d % U32 \in Nat  BY <3>1, RttsAssumption
    <3>5. QED  BY <1>1, <3>1, <3>2, <3>3, <3>4
  <2>5. ack'.rtt \in Nat
    <3>1. ack.now - inflight[ack.id].time \in Int  BY <1>1, <2>1
    <3>2. QED  BY <2>2, <3>1, RttsAssumption DEF RttOf
  <2>6. QED  BY <1>1, <2>1, <2>2, <2>3, <2>4, <2>5 DEF TimesInv, WrappedRttIsEarly
<1>5. CASE RcvLoop \/ RcvShut \/ RcvUnknown \/ RcvReportLoss \/ RcvReportRtt
  <2>1. rcvPc' \notin {"lock", "report"} /\ UNCHANGED <<inflight, clock>>
    BY <1>5 DEF RcvLoop, RcvShut, RcvUnknown, RcvReportLoss, RcvReportRtt, SetSize, cwndVars
  <2>2. QED  BY <2>1 DEF TimesInv, WrappedRttIsEarly
<1>6. CASE Tick
  <2>1. clock' = clock + 1 /\ UNCHANGED <<inflight, currPktId, rcvPc, ack>>
    BY <1>6 DEF Tick, cwndVars, sndVars, rcvVars
  <2>2. QED  BY <1>1, <2>1 DEF TimesInv, WrappedRttIsEarly
<1>7. CASE UNCHANGED <<inflight, currPktId, rcvPc, ack, clock>>
  BY <1>7 DEF TimesInv, WrappedRttIsEarly
<1>8. SndLoop \/ SndNoRoom \/ SndBurst \/ SndSendto \/ SndFinish \/ MainNext \/ Signal
        => UNCHANGED <<inflight, currPktId, rcvPc, ack, clock>>
  BY DEF SndLoop, SndNoRoom, SndBurst, SndSendto, SndFinish, MainNext, MainWake, MainShutRecv,
         MainShutSend, MainJoinSend, MainJoinRecv, MainStep, Signal, cwndVars, sndVars, rcvVars
<1>9. UNCHANGED serverVars => UNCHANGED <<inflight, currPktId, rcvPc, ack, clock>>
  BY DEF serverVars, cwndVars, sndVars, rcvVars
<1>10. QED
  BY <1>2, <1>3, <1>4, <1>5, <1>6, <1>7, <1>8, <1>9
  DEF Next, ServerNext, SenderNext, ReceiverNext, vars

\* An RTT beyond the length of the run is the uint32 wrap of DurationMs, and
\* it needs an ACK timed before its packet was recorded (Vatic.cpp:203-208,
\* 236-242).
THEOREM OnlyEarlyAcksWrap == Spec => []WrappedRttIsEarly
<1>1. Init => TimesInv
  BY DEF Init, ServerInit, TimesInv, WrappedRttIsEarly
<1>2. TimesInv => WrappedRttIsEarly  BY DEF TimesInv
<1>3. QED  BY <1>1, <1>2, TimesInvStep, SystemInvariant, PTL DEF Spec

-----------------------------------------------------------------------------
(* On an ordered path an acknowledgement is of a packet in flight *)

\* The ids on their way, from the newest stage to the oldest, and the ids the
\* server keeps books of, the one just sent included.
Outgoing  == {m.id : m \in toClient}
Answering == IF cliPc = "ack" THEN {pkt} ELSE {}
Returning == {m.id : m \in toServer}
Pending   == IF rcvPc = "lock" THEN {ack.id} ELSE {}
Booked    == DOMAIN inflight \union (IF sndPc = "record" THEN {currPktId} ELSE {})

Below(X, Y) == \A x \in X, y \in Y : x < y

\* Ids keep their order from stage to stage, and are all in the books.
OrderInv ==
  /\ \A m, n \in toClient : m.id = n.id => m = n
  /\ Below(Pending, Returning) /\ Below(Pending, Answering) /\ Below(Pending, Outgoing)
  /\ Below(Returning, Answering) /\ Below(Returning, Outgoing)
  /\ Below(Answering, Outgoing)
  /\ Pending \union Returning \union Answering \union Outgoing \subseteq Booked
  /\ AckIsInFlight

\* The ids are numbers.
LEMMA IdsAreNumbers ==
  ASSUME SystemInv
  PROVE  /\ Pending \subseteq Nat /\ Returning \subseteq Nat
         /\ Answering \subseteq Nat /\ Outgoing \subseteq Nat
         /\ currPktId \in Nat /\ \A id \in DOMAIN inflight : id \in Nat /\ id < currPktId
BY DEF SystemInv, CwndInv, CwndTypeOK, SenderTypeOK, ReceiverTypeOK, ClientTypeOK, LinkTypeOK,
       Datagrams, Pending, Returning, Answering, Outgoing

\* One more message is one more id.
LEMMA IdsOfMore ==
  ASSUME NEW S, NEW new
  PROVE  {m.id : m \in S \union {new}} = {m.id : m \in S} \union {new.id}
OBVIOUS

\* A step that only takes ids away and keeps the books keeps the order.
LEMMA FewerKeepOrder ==
  ASSUME OrderInv, AckIsInFlight',
         toClient' \subseteq toClient,
         Pending' \subseteq Pending, Returning' \subseteq Returning,
         Answering' \subseteq Answering, Outgoing' \subseteq Outgoing,
         Booked \subseteq Booked'
  PROVE  OrderInv'
BY DEF OrderInv, Below

\* A packet is sent: its id is above all others.
LEMMA SendtoKeepsOrder ==
  ASSUME SystemInv, OrderInv, SndSendto, UNCHANGED clientVars
  PROVE  OrderInv'
<1>1. /\ sndPc = "sendto" /\ sndPc' = "record"
      /\ UNCHANGED <<inflight, currPktId, rcvPc, ack, toServer, cliPc, pkt>>
  BY DEF SndSendto, cwndVars, rcvVars, clientVars, cliThread
<1>2. Booked = DOMAIN inflight /\ Booked' = DOMAIN inflight \union {currPktId}
  BY <1>1 DEF Booked
<1>3. /\ Pending' = Pending /\ Returning' = Returning /\ Answering' = Answering
  BY <1>1 DEF Pending, Returning, Answering
<1>4. AckIsInFlight'  BY <1>1 DEF OrderInv, AckIsInFlight
<1>5. CASE toClient' = toClient
  BY <1>2, <1>3, <1>4, <1>5, FewerKeepOrder DEF Outgoing
<1>6. CASE toClient' # toClient
  <2>1. PICK t \in HdrTypes : toClient' = toClient \union {[type |-> t, id |-> currPktId]}
    BY <1>6 DEF SndSendto
  <2>2. Outgoing' = Outgoing \union {currPktId}
    <3>1. [type |-> t, id |-> currPktId].id = currPktId  OBVIOUS
    <3>2. QED  BY <2>1, <3>1, IdsOfMore DEF Outgoing
  <2>3. \A id \in Pending \union Returning \union Answering \union Outgoing : id < currPktId
    BY <1>2, IdsAreNumbers DEF OrderInv
  <2>4. \A m \in toClient : m.id < currPktId /\ m.id \in Nat
    BY <2>3, IdsAreNumbers DEF Outgoing
  <2>5. \A m, n \in toClient' : m.id = n.id => m = n
    <3> DEFINE new == [type |-> t, id |-> currPktId]
    <3>1. new.id = currPktId /\ toClient' = toClient \union {new}  BY <2>1
    <3>2. currPktId \in Nat  BY IdsAreNumbers
    <3> HIDE DEF new
    <3>3. \A m \in toClient : m.id # new.id  BY <2>4, <3>1, <3>2
    <3>4. QED  BY <3>1, <3>3 DEF OrderInv
  <2>6. /\ Below(Pending', Returning') /\ Below(Pending', Answering')
        /\ Below(Pending', Outgoing') /\ Below(Returning', Answering')
        /\ Below(Returning', Outgoing') /\ Below(Answering', Outgoing')
    BY <1>3, <2>2, <2>3 DEF OrderInv, Below
  <2>7. Pending' \union Returning' \union Answering' \union Outgoing' \subseteq Booked'
    BY <1>2, <1>3, <2>2 DEF OrderInv
  <2>8. QED  BY <1>4, <2>5, <2>6, <2>7 DEF OrderInv
<1>7. QED  BY <1>5, <1>6

\* The client takes the lowest id.
LEMMA CliRecvKeepsOrder ==
  ASSUME Ordered, ~Duplicating, SystemInv, OrderInv, CliRecv, UNCHANGED serverVars
  PROVE  OrderInv'
<1>1. PICK m \in toClient :
        /\ \A n \in toClient : m.id <= n.id
        /\ toClient' = toClient \ {m}
        /\ \/ cliPc' = "loop" /\ UNCHANGED pkt
           \/ cliPc' = "ack" /\ pkt' = m.id
  BY DEF CliRecv, Deliverable, Leftovers
<1>2. UNCHANGED <<inflight, currPktId, sndPc, rcvPc, ack, toServer>>
  BY DEF CliRecv, serverVars, cwndVars, sndVars, rcvVars
<1>3. /\ Pending' = Pending /\ Returning' = Returning /\ Booked' = Booked
      /\ Answering' \subseteq {m.id} /\ m.id \in Outgoing /\ Outgoing' \subseteq Outgoing
  BY <1>1, <1>2 DEF Pending, Returning, Booked, Answering, Outgoing
<1>4. \A n \in toClient' : n.id \in Nat /\ m.id \in Nat /\ n.id # m.id
  BY <1>1, <1>3, IdsAreNumbers DEF OrderInv, Outgoing
<1>5. Below({m.id}, Outgoing')  BY <1>1, <1>4 DEF Below, Outgoing
<1>6. /\ Below(Pending', Returning') /\ Below(Pending', Answering')
      /\ Below(Pending', Outgoing') /\ Below(Returning', Answering')
      /\ Below(Returning', Outgoing') /\ Below(Answering', Outgoing')
  BY <1>3, <1>5 DEF OrderInv, Below
<1>7. Pending' \union Returning' \union Answering' \union Outgoing' \subseteq Booked'
  BY <1>3 DEF OrderInv
<1>8. \A k, n \in toClient' : k.id = n.id => k = n  BY <1>1 DEF OrderInv
<1>9. AckIsInFlight'  BY <1>2 DEF OrderInv, AckIsInFlight
<1>10. QED  BY <1>6, <1>7, <1>8, <1>9 DEF OrderInv

\* The client answers with the id it took.
LEMMA CliAckKeepsOrder ==
  ASSUME OrderInv, CliAck, UNCHANGED serverVars
  PROVE  OrderInv'
<1>1. /\ cliPc = "ack" /\ cliPc' = "record"
      /\ toServer' = toServer \union {AckFor(pkt)}
      /\ UNCHANGED <<toClient, inflight, currPktId, sndPc, rcvPc, ack>>
  BY DEF CliAck, serverVars, cwndVars, sndVars, rcvVars
<1>2. /\ Pending' = Pending /\ Outgoing' = Outgoing /\ Booked' = Booked
      /\ Answering = {pkt} /\ Answering' = {} /\ Returning' = Returning \union {pkt}
  <2>1. AckFor(pkt).id = pkt  BY DEF AckFor
  <2>2. Returning' = Returning \union {pkt}  BY <1>1, <2>1, IdsOfMore DEF Returning
  <2>3. QED  BY <1>1, <2>2 DEF Pending, Outgoing, Booked, Answering
<1>3. /\ Below(Pending', Returning') /\ Below(Pending', Answering')
      /\ Below(Pending', Outgoing') /\ Below(Returning', Answering')
      /\ Below(Returning', Outgoing') /\ Below(Answering', Outgoing')
  BY <1>2 DEF OrderInv, Below
<1>4. Pending' \union Returning' \union Answering' \union Outgoing' \subseteq Booked'
  BY <1>2 DEF OrderInv
<1>5. AckIsInFlight'  BY <1>1 DEF OrderInv, AckIsInFlight
<1>6. QED  BY <1>1, <1>3, <1>4, <1>5 DEF OrderInv

\* The server takes the lowest id.
LEMMA RcvRecvKeepsOrder ==
  ASSUME Ordered, ~Duplicating, SystemInv, OrderInv, RcvRecv, UNCHANGED clientVars
  PROVE  OrderInv'
<1>1. PICK m \in toServer :
        /\ \A n \in toServer : m.id <= n.id
        /\ toServer' = toServer \ {m}
        /\ \/ rcvPc' = "loop"
           \/ rcvPc' = "lock" /\ ack'.id = m.id
  BY DEF RcvRecv, Deliverable, Leftovers, NoAck
<1>2. UNCHANGED <<inflight, currPktId, sndPc, cliPc, pkt, toClient>>
  BY DEF RcvRecv, clientVars, cliThread, cwndVars, sndVars
<1>3. /\ Answering' = Answering /\ Outgoing' = Outgoing /\ Booked' = Booked
      /\ Pending' \subseteq {m.id} /\ m.id \in Returning /\ Returning' \subseteq Returning
  BY <1>1, <1>2 DEF Pending, Returning, Booked, Answering, Outgoing
<1>4. \A n \in toServer' : n.id \in Nat /\ m.id \in Nat /\ n.id # m.id
  <2>1. toServer \subseteq [type : {"ACK"}, id : Nat]  BY DEF SystemInv, LinkTypeOK
  <2>2. QED  BY <1>1, <2>1
<1>5. Below({m.id}, Returning')  BY <1>1, <1>4 DEF Below, Returning
<1>6. /\ Below(Pending', Returning') /\ Below(Pending', Answering')
      /\ Below(Pending', Outgoing') /\ Below(Returning', Answering')
      /\ Below(Returning', Outgoing') /\ Below(Answering', Outgoing')
  BY <1>3, <1>5 DEF OrderInv, Below
<1>7. Pending' \union Returning' \union Answering' \union Outgoing' \subseteq Booked'
  BY <1>3 DEF OrderInv
<1>8. AckIsInFlight'  BY <1>1 DEF AckIsInFlight
<1>9. QED  BY <1>2, <1>6, <1>7, <1>8 DEF OrderInv

\* What an acknowledgement clears is below everything that is on its way.
LEMMA RetireKeepsOrder ==
  ASSUME SystemInv, OrderInv, RcvRetire, UNCHANGED clientVars
  PROVE  OrderInv'
<1>1. /\ rcvPc = "lock" /\ rcvPc' = "report"
      /\ inflight' = Restrict(inflight, StillInFlight(ack.id))
      /\ UNCHANGED <<sndPc, currPktId, cliPc, pkt, toClient, toServer>>
  BY DEF RcvRetire, sndVars, clientVars, cliThread, linkVars
<1>2. sndPc # "record"  BY DEF RcvRetire, SystemInv, CwndInv, MutexOwner, Burst
<1>3. Booked = DOMAIN inflight  BY <1>2 DEF Booked
<1>4. Booked' = {k \in Booked : k > ack.id}
  BY <1>1, <1>2, <1>3 DEF Booked, Restrict, StillInFlight
<1>5. /\ Pending = {ack.id} /\ Pending' = {}
      /\ Returning' = Returning /\ Answering' = Answering /\ Outgoing' = Outgoing
  BY <1>1 DEF Pending, Returning, Answering, Outgoing
<1>6. \A k \in Returning \union Answering \union Outgoing : k > ack.id
  BY <1>5, IdsAreNumbers DEF OrderInv, Below
<1>7. Pending' \union Returning' \union Answering' \union Outgoing' \subseteq Booked'
  BY <1>4, <1>5, <1>6 DEF OrderInv
<1>8. /\ Below(Pending', Returning') /\ Below(Pending', Answering')
      /\ Below(Pending', Outgoing') /\ Below(Returning', Answering')
      /\ Below(Returning', Outgoing') /\ Below(Answering', Outgoing')
  BY <1>5 DEF OrderInv, Below
<1>9. AckIsInFlight'  BY <1>1 DEF AckIsInFlight
<1>10. QED  BY <1>1, <1>7, <1>8, <1>9 DEF OrderInv

LEMMA OrderInvStep ==
  ASSUME Ordered, ~Duplicating, SystemInv, OrderInv, [Next]_vars
  PROVE  OrderInv'
<1>1. CASE SndSendto /\ UNCHANGED clientVars  BY <1>1, SendtoKeepsOrder
<1>2. CASE CliRecv /\ UNCHANGED serverVars    BY <1>2, CliRecvKeepsOrder
<1>3. CASE CliAck /\ UNCHANGED serverVars     BY <1>3, CliAckKeepsOrder
<1>4. CASE RcvRecv /\ UNCHANGED clientVars    BY <1>4, RcvRecvKeepsOrder
<1>5. CASE RcvRetire /\ UNCHANGED clientVars  BY <1>5, RetireKeepsOrder
<1>6. CASE RcvUnknown
  <2>1. sndPc # "record"  BY <1>6 DEF RcvUnknown, SystemInv, CwndInv, MutexOwner, Burst
  <2>2. ack.id \in Booked  BY <1>6 DEF RcvUnknown, OrderInv, Pending
  <2>3. QED  BY <1>6, <2>1, <2>2 DEF RcvUnknown, Booked
<1>7. CASE SndRecord /\ UNCHANGED clientVars
  <2>1. /\ sndPc = "record" /\ sndPc' \in {"sendto", "finish"}
        /\ DOMAIN inflight' = DOMAIN inflight \union {currPktId}
        /\ UNCHANGED <<rcvPc, ack, cliPc, pkt, toClient, toServer>>
    BY <1>7 DEF SndRecord, rcvVars, clientVars, cliThread, linkVars
  <2>2. Booked' = Booked  BY <2>1 DEF Booked
  <2>3. QED
    BY <2>1, <2>2, FewerKeepOrder
    DEF Pending, Returning, Answering, Outgoing, OrderInv, AckIsInFlight
<1>8. CASE (RcvReportLoss \/ RcvReportRtt \/ RcvLoop \/ RcvShut) /\ UNCHANGED clientVars
  <2>1. /\ rcvPc' \notin {"lock", "aborted"}
        /\ UNCHANGED <<inflight, sndPc, currPktId, cliPc, pkt, toClient, toServer>>
    BY <1>8 DEF RcvReportLoss, RcvReportRtt, RcvLoop, RcvShut, SetSize, cwndVars, sndVars,
                clientVars, cliThread, linkVars
  <2>2. QED
    BY <2>1, FewerKeepOrder
    DEF Pending, Returning, Answering, Outgoing, Booked, AckIsInFlight
<1>9. CASE Lose /\ UNCHANGED <<serverVars, clientVars>>
  <2>1. toClient' \subseteq toClient /\ toServer' \subseteq toServer  BY <1>9 DEF Lose
  <2>2. UNCHANGED <<inflight, sndPc, currPktId, rcvPc, ack, cliPc, pkt>>
    BY <1>9 DEF serverVars, clientVars, cliThread, cwndVars, sndVars, rcvVars
  <2>3. QED
    BY <2>1, <2>2, FewerKeepOrder
    DEF Pending, Returning, Answering, Outgoing, Booked, AckIsInFlight, OrderInv
<1>10. CASE (CliLoop \/ CliShutdown \/ CliRecord) /\ UNCHANGED serverVars
  <2>1. cliPc' # "ack" /\ UNCHANGED <<toClient, toServer>>
    BY <1>10 DEF CliLoop, CliShutdown, CliRecord, linkVars
  <2>2. UNCHANGED <<inflight, sndPc, currPktId, rcvPc, ack>>
    BY <1>10 DEF serverVars, cwndVars, sndVars, rcvVars
  <2>3. QED
    BY <2>1, <2>2, FewerKeepOrder
    DEF Pending, Returning, Answering, Outgoing, Booked, AckIsInFlight, OrderInv
<1>11. CASE /\ UNCHANGED <<inflight, currPktId, rcvPc, ack, cliPc, pkt, toClient, toServer>>
            /\ "record" \notin {sndPc, sndPc'} \/ UNCHANGED sndPc
  BY <1>11, FewerKeepOrder
  DEF Pending, Returning, Answering, Outgoing, Booked, AckIsInFlight, OrderInv
<1>12. ASSUME SndLoop \/ SndNoRoom \/ SndBurst \/ SndFinish \/ MainNext \/ Signal \/ Tick,
              UNCHANGED clientVars
       PROVE  OrderInv'
  <2>1. UNCHANGED <<inflight, currPktId, rcvPc, ack, cliPc, pkt, toClient, toServer>>
    BY <1>12
    DEF SndLoop, SndNoRoom, SndBurst, SndFinish, MainNext, MainWake, MainShutRecv, MainShutSend,
        MainJoinSend, MainJoinRecv, MainStep, Signal, Tick, cwndVars, sndVars, rcvVars,
        clientVars, cliThread, linkVars
  <2>2. "record" \notin {sndPc, sndPc'} \/ UNCHANGED sndPc
    BY <1>12
    DEF SndLoop, SndNoRoom, SndBurst, SndFinish, MainNext, MainWake, MainShutRecv, MainShutSend,
        MainJoinSend, MainJoinRecv, MainStep, Signal, Tick, sndVars
  <2>3. QED  BY <1>11, <2>1, <2>2
<1>13. ASSUME CliMainNext \/ CliSignal \/ UNCHANGED <<clientVars, linkVars>>,
              UNCHANGED serverVars
       PROVE  OrderInv'
  <2>1. UNCHANGED <<inflight, currPktId, sndPc, rcvPc, ack, cliPc, pkt, toClient, toServer>>
    BY <1>13
    DEF CliMainNext, CliMainQuit, CliMainShut, CliMainJoin, CliSignal, serverVars, cwndVars,
        sndVars, rcvVars, clientVars, cliThread, linkVars
  <2>2. QED  BY <1>11, <2>1
<1>14. QED
  BY <1>1, <1>2, <1>3, <1>4, <1>5, <1>6, <1>7, <1>8, <1>9, <1>10, <1>12, <1>13
  DEF Next, ServerNext, SenderNext, ReceiverNext, ClientNext, CliThreadNext, vars

\* On a path that neither reorders nor duplicates, however much it loses, the
\* server never meets an ACK of a packet that is not in flight: the condition
\* MSG_ASSERT states holds (Vatic.cpp:240), and map::at does not throw.
THEOREM OrderedAcksAreInFlight ==
  ASSUME Ordered, ~Duplicating
  PROVE  Spec => []AckIsInFlight
<1>1. Init => OrderInv
  BY DEF Init, ServerInit, ClientInit, LinkInit, OrderInv, Below, Pending, Returning, Answering,
         Outgoing, AckIsInFlight
<1>2. SystemInv /\ OrderInv /\ [Next]_vars => OrderInv'  BY OrderInvStep
<1>3. OrderInv => AckIsInFlight  BY DEF OrderInv
<1>4. QED  BY <1>1, <1>2, <1>3, SystemInvariant, PTL DEF Spec

-----------------------------------------------------------------------------
(* Where the ACK of a packet that the client received is *)

\* On its way back, at the server, logged there, or lost.
SeenKept == Seen \subseteq Returning \union Pending \union ackedIds \union dropped

LEMMA SeenKeptStep ==
  ASSUME SystemInv, OrderInv, OrderInv', SeenKept, [Next]_vars
  PROVE  SeenKept'
<1>1. CASE CliAck /\ UNCHANGED serverVars
  <2>1. toServer' = toServer \union {AckFor(pkt)} /\ AckFor(pkt).id = pkt
    BY <1>1 DEF CliAck, AckFor
  <2>2. Returning' = Returning \union {pkt}  BY <2>1, IdsOfMore DEF Returning
  <2>3. Seen' = Seen \union {pkt} /\ UNCHANGED <<Pending, ackedIds, dropped>>
    BY <1>1 DEF CliAck, Seen, Pending, serverVars, rcvVars
  <2>4. QED  BY <2>2, <2>3 DEF SeenKept
<1>2. CASE ClientNext /\ ~CliAck /\ UNCHANGED serverVars
  <2>1. Seen' = Seen /\ UNCHANGED <<toServer, dropped>>
    BY <1>2
    DEF ClientNext, CliThreadNext, CliLoop, CliShutdown, CliRecv, CliRecord, CliMainNext,
        CliMainQuit, CliMainShut, CliMainJoin, CliSignal, Seen, cliThread, linkVars
  <2>2. UNCHANGED <<Returning, Pending, ackedIds>>
    BY <1>2, <2>1 DEF Returning, Pending, serverVars, rcvVars
  <2>3. QED  BY <2>1, <2>2 DEF SeenKept
<1>3. CASE RcvRecv /\ UNCHANGED clientVars
  <2>1. PICK m \in toServer :
          /\ toServer' \in Leftovers(toServer, m)
          /\ IF m.type = "ACK"
             THEN /\ ack' = [NoAck EXCEPT !.id = m.id, !.now = clock,
                                          !.early = m.id \notin DOMAIN inflight]
                  /\ rcvPc' = "lock"
             ELSE UNCHANGED ack /\ rcvPc' = "loop"
    BY <1>3 DEF RcvRecv, Deliverable
  <2>2. m.type = "ACK"  BY <2>1 DEF SystemInv, LinkTypeOK
  <2>3. Pending' = {m.id}  BY <2>1, <2>2 DEF Pending, NoAck
  <2>4. Returning \subseteq Returning' \union {m.id}
    BY <2>1 DEF Returning, Leftovers
  <2>5. Pending = {} /\ Seen' = Seen /\ UNCHANGED <<ackedIds, dropped>>
    BY <1>3 DEF RcvRecv, Pending, Seen, clientVars, cliThread
  <2>6. QED  BY <2>3, <2>4, <2>5 DEF SeenKept
<1>4. CASE RcvRetire /\ UNCHANGED clientVars
  <2>1. Pending = {ack.id} /\ ackedIds' = ackedIds \union {ack.id}
    BY <1>4 DEF RcvRetire, Pending, Logged
  <2>2. Seen' = Seen /\ UNCHANGED <<Returning, dropped>>
    BY <1>4 DEF RcvRetire, Seen, Returning, clientVars, cliThread, linkVars
  <2>3. QED  BY <2>1, <2>2 DEF SeenKept
<1>5. CASE (RcvLoop \/ RcvShut \/ RcvReportLoss \/ RcvReportRtt) /\ UNCHANGED clientVars
  <2>1. Pending = {} /\ UNCHANGED <<toServer, ackedIds, dropped>>
    BY <1>5 DEF RcvLoop, RcvShut, RcvReportLoss, RcvReportRtt, Pending, linkVars
  <2>2. Seen' = Seen /\ UNCHANGED Returning
    BY <1>5, <2>1 DEF Seen, Returning, clientVars, cliThread
  <2>3. QED  BY <2>1, <2>2 DEF SeenKept
<1>6. ~RcvUnknown  BY DEF RcvUnknown, OrderInv, AckIsInFlight
<1>7. CASE (SenderNext \/ MainNext \/ Signal \/ Tick) /\ UNCHANGED clientVars
  <2>1. UNCHANGED <<rcvPc, ack, ackedIds, toServer, dropped>>
    BY <1>7
    DEF SenderNext, SndLoop, SndNoRoom, SndBurst, SndSendto, SndRecord, SndFinish, MainNext,
        MainWake, MainShutRecv, MainShutSend, MainJoinSend, MainJoinRecv, MainStep, Signal,
        Tick, rcvVars, linkVars
  <2>2. Seen' = Seen /\ UNCHANGED <<Returning, Pending>>
    BY <1>7, <2>1 DEF Seen, Returning, Pending, clientVars, cliThread
  <2>3. QED  BY <2>1, <2>2 DEF SeenKept
<1>8. CASE Lose /\ UNCHANGED <<serverVars, clientVars>>
  <2>1. PICK m : dropped' = dropped \union {m.id} /\ toServer \ {m} \subseteq toServer'
    BY <1>8 DEF Lose
  <2>2. Returning \subseteq Returning' \union {m.id}  BY <2>1 DEF Returning
  <2>3. Seen' = Seen /\ UNCHANGED <<Pending, ackedIds>>
    BY <1>8 DEF Seen, Pending, serverVars, rcvVars, clientVars, cliThread
  <2>4. QED  BY <2>1, <2>2, <2>3 DEF SeenKept
<1>9. CASE UNCHANGED vars
  BY <1>9
  DEF SeenKept, Seen, Returning, Pending, vars, serverVars, rcvVars, clientVars, cliThread,
      linkVars
<1>10. QED
  BY <1>1, <1>2, <1>3, <1>4, <1>5, <1>6, <1>7, <1>8, <1>9
  DEF Next, ServerNext, ReceiverNext

\* On a path that neither reorders nor duplicates, a packet that the client received is
\* counted as lost only if its ACK was: what Receive takes for losses
\* (Vatic.cpp:246-256) are losses.
THEOREM LossesAreReal ==
  ASSUME Ordered, ~Duplicating
  PROVE  Spec => []LossMeansDrop
<1>1. Init => OrderInv /\ SeenKept
  BY DEF Init, ServerInit, ClientInit, LinkInit, OrderInv, Below, Pending, Returning, Answering,
         Outgoing, AckIsInFlight, SeenKept, Seen
<1>2. SystemInv /\ OrderInv /\ [Next]_vars => OrderInv'  BY OrderInvStep
<1>3. SystemInv /\ OrderInv /\ OrderInv' /\ SeenKept /\ [Next]_vars => SeenKept'
  BY SeenKeptStep
<1>4. SystemInv /\ OrderInv /\ SeenKept => LossMeansDrop
  <2> SUFFICES ASSUME SystemInv, OrderInv, SeenKept,
                      NEW id \in recvTimes, id \in 1 .. currPktId - 1,
                      id \notin DOMAIN inflight, id \notin ackedIds
               PROVE  id \in dropped
    BY DEF LossMeansDrop
  <2>1. id \notin Booked  BY IdsAreNumbers DEF Booked
  <2>2. id \notin Returning /\ id \notin Pending  BY <2>1 DEF OrderInv
  <2>3. QED  BY <2>2 DEF SeenKept, Seen
<1>5. QED  BY <1>1, <1>2, <1>3, <1>4, SystemInvariant, PTL DEF Spec

-----------------------------------------------------------------------------
(* A stall *)

\* A window that is full when nothing is under way stays full, whatever the threads, the
\* clock and the path do: no step of the code sends again (Vatic.cpp:137-150, 174-217).
THEOREM StallsForGood == Spec => StallIsPermanent
<1>1. ASSUME Stalled, Next  PROVE Stalled'
  <2>1. Deliverable({}) = {}  BY DEF Deliverable
  <2>2. CASE SenderNext /\ UNCHANGED clientVars
    <3>1. SndLoop \/ SndNoRoom  BY <1>1, <2>2
      DEF Stalled, SenderNext, SndBurst, BurstSize, SndSendto, SndRecord, SndFinish
    <3>2. QED  BY <1>1, <2>2, <3>1
      DEF Stalled, SndLoop, SndNoRoom, cwndVars, rcvVars, linkVars, clientVars, cliThread
  <2>3. CASE ReceiverNext /\ UNCHANGED clientVars
    <3>1. RcvLoop \/ RcvShut  BY <1>1, <2>1, <2>3
      DEF Stalled, ReceiverNext, RcvRecv, RcvRetire, RcvUnknown, RcvReportLoss, RcvReportRtt
    <3>2. QED  BY <1>1, <2>3, <3>1
      DEF Stalled, RcvLoop, RcvShut, cwndVars, sndVars, linkVars, clientVars, cliThread
  <2>4. CASE (MainNext \/ Signal \/ Tick) /\ UNCHANGED clientVars
    <3>1. UNCHANGED <<toClient, toServer, cwndFree, sndPc, rcvPc>>
      BY <2>4 DEF MainNext, MainWake, MainShutRecv, MainShutSend, MainJoinSend, MainJoinRecv,
                  MainStep, Signal, Tick, cwndVars, sndVars, rcvVars, linkVars
    <3>2. QED  BY <1>1, <2>4, <3>1 DEF Stalled, clientVars, cliThread
  <2>5. CASE ClientNext /\ UNCHANGED serverVars
    <3>1. UNCHANGED <<cwndFree, sndPc, rcvPc>>
      BY <2>5 DEF serverVars, cwndVars, sndVars, rcvVars
    <3>2. ~CliRecv /\ ~CliAck  BY <1>1, <2>1 DEF Stalled, CliRecv, CliAck
    <3>3. cliPc' # "ack" /\ UNCHANGED <<toClient, toServer>>
      BY <1>1, <2>5, <3>2
      DEF ClientNext, CliThreadNext, CliLoop, CliShutdown, CliRecord, CliMainNext, CliMainQuit,
          CliMainShut, CliMainJoin, CliSignal, cliThread, linkVars, Stalled
    <3>4. QED  BY <1>1, <3>1, <3>3 DEF Stalled
  <2>6. ~Lose  BY <1>1 DEF Stalled, Lose
  <2>7. CASE UNCHANGED vars
    BY <1>1, <2>7 DEF Stalled, vars, serverVars, cwndVars, sndVars, rcvVars, clientVars,
                      cliThread, linkVars
  <2>8. QED  BY <1>1, <2>2, <2>3, <2>4, <2>5, <2>6, <2>7 DEF Next, ServerNext
<1>2. [Next]_vars => [Stalled => Stalled']_vars  BY <1>1
<1>3. QED  BY <1>2, PTL DEF Spec, StallIsPermanent
=============================================================================
