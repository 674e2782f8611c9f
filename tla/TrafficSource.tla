--------------------------- MODULE TrafficSource ---------------------------
(***************************************************************************)
(* The application of the server as the library offers it: TrafficSource   *)
(* paces bursts of packets into the buffer of Vatic::ReceiveSdu, for a     *)
(* time or in blocks.  The server program does not start it                *)
(* (server_program.cpp:140-150 is commented out); Vatic::Send, which holds *)
(* the mutex of the buffer for a whole burst but takes nothing out of the  *)
(* buffer, runs beside it.                                                 *)
(* An operator X_bug is a wrong variant of X, see RttClusters.             *)
(***************************************************************************)
EXTENDS Integers

CONSTANTS
  SendRates,      \* send_rate, as bits per microsecond
  SendTimes,      \* send_time, in seconds; with 0 the source sends blocks
  NumPktsBlocks,  \* num_pkts_block
  NumBlocks,      \* num_blocks
  InterBlockTime, \* inter_block_time, in milliseconds
  PktSize,        \* pkt_size
  BufferSize,     \* buffer_size
  BurstUs,        \* TRAFFIC_BURST_US
  UsPerMs, MsPerS,\* 1000
  U32,            \* number of values of a uint32
  MaxClock        \* bound: this value of the clock, in microseconds, stands for
                  \* every later time: sleeps and sending times are over

ASSUME SourceAssumption ==
  /\ {NumBlocks, InterBlockTime, BufferSize, MaxClock} \subseteq Nat
  /\ {PktSize, BurstUs, UsPerMs, MsPerS, U32} \subseteq Nat \ {0}
  /\ SendRates \subseteq Nat \ {0} /\ SendTimes \subseteq Nat
  /\ NumPktsBlocks \subseteq 0 .. U32 - 1 - BurstUs

VARIABLES
  clock,
  sendRate, sendTime, numPktsBlock,  \* the configuration
  srcPc,      \* where the thread of the source is
  period,     \* m_actualBurstTimeUs
  perBurst,   \* m_pktsPerBurst
  start,      \* m_thput.m_start
  startBurst, \* local startBurst of DoSendBurst
  left,       \* packets of the burst to come
  ctr,        \* local bCtr of DoSendTime, bn of DoSendBlocks
  npkt,       \* local npkt of DoSendBlock
  wake,       \* end of a sleep
  counted,    \* m_thput.m_nBytes
  quit,       \* QUIT
  locked,     \* TRUE if Vatic::Send holds m_bufferMtx
  offset,     \* m_bufferOffset
  received,   \* m_recvThput.m_nBytes
  handed      \* packets that the source has handed over

conf == <<sendRate, sendTime, numPktsBlock>>
loopVars == <<ctr, npkt>>
bufVars == <<offset, received, handed>>
vars == <<clock, conf, srcPc, period, perBurst, start, startBurst, left, loopVars,
          wake, counted, quit, locked, bufVars>>

Bytes(pkts) == (pkts * PktSize) % U32

PktTimeUs == (8 * PktSize) \div sendRate

-----------------------------------------------------------------------------
(* Vatic::ReceiveSdu *)

\* Bytes that fit.
ToInsert == IF PktSize <= BufferSize - offset THEN PktSize ELSE BufferSize - offset

ReceiveSdu_bug == offset' = offset + ToInsert /\ received' = received + PktSize
ReceiveSdu ==
  /\ offset' = offset + ToInsert
  /\ received' = IF ToInsert > 0 THEN received + PktSize ELSE received

-----------------------------------------------------------------------------
(* The source *)

Awake == clock >= wake \/ clock = MaxClock

\* Packets in a burst, if packets follow each other faster than bursts do.
PktsPerBurst ==
  IF BurstUs \div PktTimeUs <= numPktsBlock THEN BurstUs \div PktTimeUs ELSE numPktsBlock

\* The constructor divides by the time of a packet, which is 0 if the rate is
\* high: the process dies.
Construct ==
  /\ srcPc = "new"
  /\ IF PktTimeUs = 0
     THEN srcPc' = "crashed" /\ UNCHANGED <<period, perBurst>>
     ELSE /\ srcPc' = "send"
          /\ IF PktTimeUs > BurstUs
             THEN period' = PktTimeUs /\ perBurst' = 1
             ELSE period' = BurstUs /\ perBurst' = PktsPerBurst
  /\ UNCHANGED <<clock, conf, start, startBurst, left, loopVars, wake, counted, quit,
                 locked, bufVars>>

Send ==
  /\ srcPc = "send"
  /\ srcPc' = IF sendTime > 0 THEN "time" ELSE "blocks"
  /\ start' = clock
  /\ UNCHANGED <<clock, conf, period, perBurst, startBurst, left, loopVars, wake, counted,
                 quit, locked, bufVars>>

\* The test of the loop of DoSendTime.  The bursts are counted that were
\* called, the one that QUIT cut short included.
InTime == clock < MaxClock /\ (clock - start) \div UsPerMs < sendTime * MsPerS

TimeTest ==
  /\ srcPc = "time"
  /\ IF InTime /\ ~quit
     THEN srcPc' = "burst" /\ UNCHANGED counted
     ELSE srcPc' = "done" /\ counted' = Bytes(ctr * perBurst)
  /\ UNCHANGED <<clock, conf, period, perBurst, start, startBurst, left, loopVars, wake,
                 quit, locked, bufVars>>

InBlock_bug(n) == IF n <= numPktsBlock THEN "burst" ELSE "blockSent"
InBlock(n) == IF n < numPktsBlock THEN "burst" ELSE "blockSent"

\* The test of the loop of DoSendBlocks.
BlocksTest ==
  /\ srcPc = "blocks"
  /\ npkt' = 0
  /\ IF ctr < NumBlocks
     THEN srcPc' = (IF quit THEN "done" ELSE InBlock(0)) /\ UNCHANGED counted
     ELSE srcPc' = "done" /\ counted' = Bytes(NumBlocks * numPktsBlock)
  /\ UNCHANGED <<clock, conf, period, perBurst, start, startBurst, left, ctr, wake, quit,
                 locked, bufVars>>

BlockSent ==
  /\ srcPc = "blockSent"
  /\ srcPc' = "interBlock"
  /\ wake' = clock + InterBlockTime * UsPerMs
  /\ UNCHANGED <<clock, conf, period, perBurst, start, startBurst, left, loopVars, counted,
                 quit, locked, bufVars>>

NextBlock ==
  /\ srcPc = "interBlock" /\ Awake
  /\ srcPc' = "blocks"
  /\ ctr' = ctr + 1
  /\ UNCHANGED <<clock, conf, period, perBurst, start, startBurst, left, npkt, wake, counted,
                 quit, locked, bufVars>>

\* DoSendBurst returns to the loop that called it.
BurstDone_bug ==
  IF sendTime > 0
  THEN srcPc' = "time" /\ ctr' = ctr + 1 /\ UNCHANGED npkt
  ELSE srcPc' = InBlock(npkt) /\ UNCHANGED <<ctr, npkt>>
BurstDone ==
  IF sendTime > 0
  THEN srcPc' = "time" /\ ctr' = ctr + 1 /\ UNCHANGED npkt
  ELSE npkt' = npkt + perBurst /\ srcPc' = InBlock(npkt') /\ UNCHANGED ctr

BurstBegin ==
  /\ srcPc = "burst"
  /\ startBurst' = clock
  /\ left' = perBurst
  /\ IF quit THEN BurstDone ELSE srcPc' = "hand" /\ UNCHANGED loopVars
  /\ UNCHANGED <<clock, conf, period, perBurst, start, wake, counted, quit, locked, bufVars>>

HandPacket ==
  /\ srcPc = "hand" /\ left > 0
  /\ ~locked
  /\ ReceiveSdu
  /\ handed' = handed + 1
  /\ left' = left - 1
  /\ UNCHANGED <<clock, conf, srcPc, period, perBurst, start, startBurst, loopVars, wake,
                 counted, quit, locked>>

\* What is left of the period.  A burst that took longer makes the difference
\* wrap in uint64; as a count of microseconds it is negative again, and
\* sleep_for returns at once.
Pause_bug == period - (clock - start)
Pause == period - (clock - startBurst)

BurstSleep ==
  /\ srcPc = "hand" /\ left = 0
  /\ srcPc' = "sleep"
  /\ wake' = clock + Pause
  /\ UNCHANGED <<clock, conf, period, perBurst, start, startBurst, left, loopVars, counted,
                 quit, locked, bufVars>>

BurstWake ==
  /\ srcPc = "sleep" /\ Awake
  /\ BurstDone
  /\ UNCHANGED <<clock, conf, period, perBurst, start, startBurst, left, wake, counted, quit,
                 locked, bufVars>>

SourceNext ==
  \/ Construct \/ Send \/ TimeTest \/ BlocksTest \/ BlockSent \/ NextBlock
  \/ BurstBegin \/ HandPacket \/ BurstSleep \/ BurstWake

-----------------------------------------------------------------------------
(* The rest of the server *)

\* SendPdus takes m_bufferMtx for a burst and gives it back.
VaticBurst ==
  /\ locked' = ~locked
  /\ ~locked => ~quit
  /\ UNCHANGED <<clock, conf, srcPc, period, perBurst, start, startBurst, left, loopVars,
                 wake, counted, quit, bufVars>>

\* A signal, or the end of main's sleep.
Quit ==
  /\ ~quit /\ quit' = TRUE
  /\ UNCHANGED <<clock, conf, srcPc, period, perBurst, start, startBurst, left, loopVars,
                 wake, counted, locked, bufVars>>

Tick ==
  /\ clock < MaxClock
  /\ clock' = clock + 1
  /\ UNCHANGED <<conf, srcPc, period, perBurst, start, startBurst, left, loopVars, wake,
                 counted, quit, locked, bufVars>>

Init ==
  /\ clock = 0
  /\ sendRate \in SendRates
  /\ sendTime \in SendTimes
  /\ numPktsBlock \in NumPktsBlocks
  /\ srcPc = "new"
  /\ period = 0 /\ perBurst = 0
  /\ start = 0 /\ startBurst = 0 /\ left = 0
  /\ ctr = 0 /\ npkt = 0
  /\ wake = 0
  /\ counted = 0
  /\ quit = FALSE
  /\ locked = FALSE
  /\ offset = 0 /\ received = 0 /\ handed = 0

Over == srcPc \in {"done", "crashed"}

Stopped == Over /\ UNCHANGED vars

Next == SourceNext \/ VaticBurst \/ Quit \/ Tick \/ Stopped

Spec == Init /\ [][Next]_vars

\* Time passes and the source runs.  Vatic::Send gives the mutex back, and
\* sleeps without it after each burst, so that a waiting source gets it.
FairSpec ==
  /\ Spec
  /\ WF_vars(Tick)
  /\ WF_vars(SourceNext /\ srcPc # "hand")
  /\ SF_vars(SourceNext /\ srcPc = "hand")
  /\ WF_vars(VaticBurst /\ locked)

-----------------------------------------------------------------------------
(* Properties *)

TypeOK ==
  /\ clock \in 0 .. MaxClock
  /\ sendRate \in SendRates /\ sendTime \in SendTimes /\ numPktsBlock \in NumPktsBlocks
  /\ srcPc \in {"new", "crashed", "send", "time", "blocks", "burst", "hand", "sleep",
                "blockSent", "interBlock", "done"}
  /\ {period, perBurst, start, startBurst, left, ctr, npkt, handed, received} \subseteq Nat
  /\ wake \in Int
  /\ counted \in 0 .. U32 - 1
  /\ quit \in BOOLEAN /\ locked \in BOOLEAN
  /\ offset \in 0 .. BufferSize

\* However long the buffer's mutex kept the source waiting, packets have been
\* at least PktTimeUs apart on the average, but for one burst: it does not
\* send faster to make up for lost time.
Paced ==
  srcPc \notin {"new", "crashed", "send"} /\ clock < MaxClock =>
    handed * PktTimeUs <= clock - start + period

\* Nothing takes bytes out of the buffer: it holds the first bytes handed
\* over, and the statistics exceed it by less than a packet.
BufferHoldsPrefix ==
  /\ offset = IF handed * PktSize <= BufferSize THEN handed * PktSize ELSE BufferSize
  /\ received - offset \in 0 .. PktSize - 1

\* What the source counts at the end against what it has handed over: the
\* same for a time, unless QUIT cut the last burst short; the blocks as
\* configured, while the last burst of each is sent in full.
CountsWhatItHands ==
  srcPc = "done" =>
    IF sendTime > 0
    THEN \/ counted = Bytes(handed)
         \/ quit /\ counted = Bytes(handed + perBurst)
    ELSE \/ quit
         \/ LET asked == NumBlocks * numPktsBlock
            IN  /\ counted = Bytes(asked)
                /\ handed = asked \/ handed - asked \in 1 .. NumBlocks * (perBurst - 1)

\* The source comes to its end by itself, whatever the configuration: after
\* its time, or after its blocks.
SourceEnds == <>Over
=============================================================================
