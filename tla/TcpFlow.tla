------------------------------ MODULE TcpFlow ------------------------------
(***************************************************************************)
(* One TCP flow: sender.cc sends blocks of packets over a connection, the  *)
(* child process of receiver.cc that serves the connection reads packets   *)
(* and logs one line per block.                                            *)
(*                                                                         *)
(* A packet is its header; the byte counts of the log (a multiple of       *)
(* PACKET_SIZE, and ntotal) are counts of packets.  Both sides run with    *)
(* logging on.  SIGINT reaches the child when the user interrupts the      *)
(* receiver: the terminal signals the whole process group.                 *)
(* An operator X_bug is a wrong variant of X, see RttClusters.             *)
(***************************************************************************)
EXTENDS Integers, Sequences, Totals

CONSTANTS
  Modes,      \* ways to run the sender: "ttr" (-t), "nblocks" (-n), "trace" (-f)
  Ttr,        \* argument of -t, in seconds
  NBlocks,    \* argument of -n
  BlkSize,    \* argument of -b, in packets
  Micros,     \* times that the lines of a trace file may hold
  UsecPerSec, \* 1000000
  USeconds,   \* number of values of useconds_t
  IntMax,     \* INT_MAX
  JunkSeqs,   \* what uninitialised memory may hold, read as seq
  JunkTimes,  \* ... read as the two fields of a time
  SockBuf,    \* packets that the socket buffers of a connection hold
  MaxLines,   \* bound: lines of a trace file
  MaxSeq,     \* bound: blocks sent in "ttr" mode
  MaxClock,   \* bound: last value of the clock, in microseconds
  MaxInts     \* bound: how often the receiver is interrupted

ASSUME FlowAssumption ==
  /\ Modes \subseteq {"ttr", "nblocks", "trace"}
  /\ {Ttr, NBlocks, SockBuf, MaxLines, MaxSeq, MaxClock, MaxInts} \subseteq Nat
  /\ {BlkSize, UsecPerSec, USeconds} \subseteq Nat \ {0}
  /\ Micros \subseteq 0 .. USeconds - 1  \* a line of at most 9 characters
  /\ IntMax \in Nat /\ 2 * UsecPerSec <= IntMax
  /\ JunkSeqs \subseteq Nat
  /\ JunkTimes \subseteq [sec : Int, usec : Int]
  /\ SockBuf > 0

VARIABLES
  clock,      \* gettimeofday(), in microseconds since the flow started
  mode,       \* genmethod
  sndPc,      \* where the sender is
  blk,        \* the block under way: what its packets hold, and how many
  left,       \* its packets that send() has yet to hand to the connection
  sndLog,     \* lines of the sender's log
  failed,     \* local fail of send_*
  trace,      \* position in the trace file: lines read, packets counted, and
              \* the time and mark of the last line
  start,      \* local start_s of send_ttr
  wake,       \* when usleep() returns
  stream,     \* packets in the connection
  rcvPc,      \* where the receiver's child is
  block,      \* its locals: seq, seq_count, sent_time, recv_time
  rcvLog,     \* lines of its log
  skew,       \* TRUE if a packet at the head of the stream was read in part
  ints        \* how often the receiver was interrupted

sndVars == <<sndPc, blk, left, sndLog, failed, trace, start, wake>>
rcvVars == <<rcvPc, block, rcvLog, skew, ints>>
vars == <<clock, mode, sndVars, stream, rcvVars>>

-----------------------------------------------------------------------------
(* Times *)

\* What gettimeofday() gives.  The fields of a time that was not initialised,
\* or read from the middle of a packet, may hold anything.
Timeval(t) == [sec |-> t \div UsecPerSec, usec |-> t % UsecPerSec]

\* A number in an int.  (The Makefile does not optimise: a product of ints that
\* is too large wraps.)
ToInt(n) == ((n + IntMax + 1) % (2 * IntMax + 2)) - (IntMax + 1)

\* The carry that timeval_subtract takes from the seconds, and the one that
\* it gives back: not of exactly one second.
Borrow_bug(x, y) ==
  IF x.usec <= y.usec THEN ToInt((y.usec - x.usec) \div UsecPerSec + 1) ELSE 0
Borrow(x, y) ==
  IF x.usec < y.usec THEN ToInt((y.usec - x.usec) \div UsecPerSec + 1) ELSE 0
GiveBack(x, u) ==
  IF x.usec - u > UsecPerSec THEN ToInt((x.usec - u) \div UsecPerSec) ELSE 0

\* *result after timeval_subtract(result, x, y).
TimevalSubtract(x, y) ==
  LET n == Borrow(x, y)
      u == y.usec - ToInt(UsecPerSec * n)
      k == GiveBack(x, u) IN
  [sec |-> x.sec - (y.sec + n - k), usec |-> x.usec - (u + ToInt(UsecPerSec * k))]

Tick ==
  /\ clock < MaxClock
  /\ clock' = clock + 1
  /\ UNCHANGED <<mode, sndVars, stream, rcvVars>>

-----------------------------------------------------------------------------
(* The sender *)

Gone == rcvPc = "done"

NewBlock(n, mark, pause) ==
  /\ blk' = [seq |-> blk.seq + 1, time |-> Timeval(clock), probe |-> mark, count |-> n,
             pause |-> pause]
  /\ left' = n
  /\ sndPc' = "send"

\* Whether the loop of send_ttr or send_nblocks goes on, at its test.
GoesOn ==
  \/ mode = "ttr" /\ Timeval(clock).sec - start < Ttr
  \/ mode = "nblocks" /\ blk.seq < NBlocks

\* A do loop tests after its body, a for loop before it too.
SndStart ==
  /\ sndPc = "start"
  /\ sndPc' = CASE mode = "ttr" -> "block"
                [] mode = "trace" -> "read"
                [] OTHER -> IF GoesOn THEN "block" ELSE "close"
  /\ start' = Timeval(clock).sec
  /\ UNCHANGED <<clock, mode, blk, left, sndLog, failed, trace, wake, stream, rcvVars>>

SndBlock ==
  /\ sndPc = "block"
  /\ mode = "ttr" => blk.seq < MaxSeq
  /\ NewBlock(BlkSize, FALSE, 0)
  /\ UNCHANGED <<clock, mode, sndLog, failed, trace, start, wake, stream, rcvVars>>

\* Packets counted for the next block, after a line.
Counted_bug(new) == IF new THEN 1 ELSE trace.count + 1
Counted(new) == IF new THEN 0 ELSE trace.count + 1

\* sleep_duration: unsigned, also when the times of the trace go back.
Pause(m) == (m - trace.micros) % USeconds

\* send_fromtrace reads a line.  A line with another time or mark than the
\* one before it triggers the block, and is counted in it.
SndLine ==
  /\ sndPc = "read"
  /\ trace.lines < MaxLines
  /\ \E m \in Micros, p \in BOOLEAN :
       LET new == m # trace.micros \/ p # trace.probe IN
       /\ trace' = [lines |-> trace.lines + 1, micros |-> m, probe |-> p,
                    count |-> Counted(new)]
       /\ IF new
          THEN NewBlock(trace.count + 1, trace.probe, Pause(m))
          ELSE UNCHANGED <<blk, left, sndPc>>
  /\ UNCHANGED <<clock, mode, sndLog, failed, start, wake, stream, rcvVars>>

SndEof ==
  /\ sndPc = "read"
  /\ sndPc' = "close"
  /\ UNCHANGED <<clock, mode, blk, left, sndLog, failed, trace, start, wake, stream, rcvVars>>

\* send() blocks while the connection is full; what a closed peer would get
\* is thrown away.
SndPacket ==
  /\ sndPc = "send" /\ left > 0
  /\ Gone \/ Len(stream) < SockBuf
  /\ left' = left - 1
  /\ stream' = IF Gone THEN <<>> ELSE Append(stream, [seq |-> blk.seq, time |-> blk.time])
  /\ UNCHANGED <<clock, mode, sndPc, blk, sndLog, failed, trace, start, wake, rcvVars>>

AfterSend_bug ==
  /\ sndPc' = IF mode = "trace" THEN "read" ELSE IF GoesOn THEN "block" ELSE "close"
  /\ UNCHANGED wake

AfterSend ==
  /\ sndPc' = IF mode = "trace" THEN "sleep" ELSE IF GoesOn THEN "block" ELSE "close"
  /\ wake' = clock + blk.pause

SndSent ==
  /\ sndPc = "send" /\ left = 0
  /\ sndLog' = Append(sndLog, [seq |-> blk.seq, count |-> blk.count, time |-> blk.time])
  /\ AfterSend
  /\ UNCHANGED <<clock, mode, blk, left, failed, trace, start, stream, rcvVars>>

\* The receiver is gone: send() fails, once with an error that is reported
\* and otherwise ignored, then with SIGPIPE.
SndFail ==
  /\ sndPc = "send" /\ left > 0 /\ Gone
  /\ ~failed
  /\ failed' = TRUE
  /\ left' = 0
  /\ AfterSend
  /\ UNCHANGED <<clock, mode, blk, sndLog, trace, start, stream, rcvVars>>

SndKilled ==
  /\ sndPc = "send" /\ left > 0 /\ Gone
  /\ sndPc' = "killed"
  /\ UNCHANGED <<clock, mode, blk, left, sndLog, failed, trace, start, wake, stream, rcvVars>>

SndWake ==
  /\ sndPc = "sleep" /\ clock >= wake
  /\ sndPc' = "read"
  /\ UNCHANGED <<clock, mode, blk, left, sndLog, failed, trace, start, wake, stream, rcvVars>>

SndClose ==
  /\ sndPc = "close"
  /\ sndPc' = "done"
  /\ UNCHANGED <<clock, mode, blk, left, sndLog, failed, trace, start, wake, stream, rcvVars>>

SenderNext ==
  SndStart \/ SndBlock \/ SndLine \/ SndEof \/ SndPacket \/ SndSent \/ SndFail
    \/ SndKilled \/ SndWake \/ SndClose

-----------------------------------------------------------------------------
(* The child of the receiver *)

\* What fprintf writes of a block that is taken to have been received at t.
Line(t) ==
  [seq |-> block.seq, count |-> block.count, sent |-> block.sent, recv |-> t,
   delay |-> TimevalSubtract(t, block.sent)]

LogPacket_bug(s, t) ==
  IF s > block.seq
  THEN /\ rcvLog' = Append(rcvLog, Line(Timeval(clock)))
       /\ block' = [seq |-> s, count |-> 0, sent |-> t, recv |-> Timeval(clock)]
  ELSE /\ rcvLog' = rcvLog
       /\ block' = [block EXCEPT !.count = @ + 1, !.sent = t, !.recv = Timeval(clock)]

\* gettimeofday overwrites recv_time before the line of the block that has
\* ended is written.
LogPacket(s, t) ==
  IF s > block.seq
  THEN /\ rcvLog' = Append(rcvLog, Line(Timeval(clock)))
       /\ block' = [seq |-> s, count |-> 1, sent |-> t, recv |-> Timeval(clock)]
  ELSE /\ rcvLog' = rcvLog
       /\ block' = [block EXCEPT !.count = @ + 1, !.sent = t, !.recv = Timeval(clock)]

\* The line of the last block, end of the process.
RcvFinish ==
  /\ rcvLog' = Append(rcvLog, Line(block.recv))
  /\ rcvPc' = "done"
  /\ stream' = <<>>

\* The sender has closed the connection, or the kernel did for it.
Closed_bug == sndPc = "killed"
Closed == sndPc \in {"done", "killed"}

RcvPacket ==
  /\ rcvPc = "recv" /\ ~skew
  /\ stream # <<>>
  /\ LogPacket(Head(stream).seq, Head(stream).time)
  /\ stream' = Tail(stream)
  /\ UNCHANGED <<clock, mode, sndVars, rcvPc, skew, ints>>

\* Once a packet was read in part, what recv() takes for a packet starts in
\* the middle of one, and its header is what is there: payload that the
\* sender never initialised.
RcvSkewed ==
  /\ rcvPc = "recv" /\ skew
  /\ Len(stream) > (IF Closed THEN 0 ELSE 1)
  /\ \E s \in JunkSeqs, t \in JunkTimes : LogPacket(s, t)
  /\ stream' = Tail(stream)
  /\ UNCHANGED <<clock, mode, sndVars, rcvPc, skew, ints>>

RcvEof ==
  /\ rcvPc = "recv"
  /\ stream = <<>> /\ Closed
  /\ RcvFinish
  /\ UNCHANGED <<clock, mode, sndVars, block, skew, ints>>

\* SIGINT cuts recv() short: before the header of the packet, which is then still
\* that of the packet before, after it, or in its middle.
RcvShort ==
  /\ rcvPc = "recv"
  /\ ints < MaxInts
  /\ stream # <<>>
  /\ \E s \in JunkSeqs \union {block.seq, Head(stream).seq},
        t \in JunkTimes \union {block.sent, Head(stream).time} : LogPacket(s, t)
  /\ skew' = TRUE
  /\ ints' = ints + 1
  /\ UNCHANGED <<clock, mode, sndVars, stream, rcvPc>>

\* SIGINT while there is nothing to read: recv() fails with EINTR, unless
\* sa_flags, which main does not initialise, happens to hold SA_RESTART.
RcvEintr ==
  /\ rcvPc = "recv"
  /\ ints < MaxInts
  /\ stream = <<>>
  /\ RcvFinish
  /\ ints' = ints + 1
  /\ UNCHANGED <<clock, mode, sndVars, block, skew>>

ReceiverNext == RcvPacket \/ RcvSkewed \/ RcvEof \/ RcvShort \/ RcvEintr

-----------------------------------------------------------------------------
FlowInit ==
  /\ clock = 0
  /\ mode \in Modes
  /\ sndPc = "start"
  /\ blk = [seq |-> 0, time |-> Timeval(0), probe |-> FALSE, count |-> 0, pause |-> 0]
  /\ left = 0
  /\ sndLog = <<>>
  /\ failed = FALSE
  /\ trace = [lines |-> 0, micros |-> 0, probe |-> FALSE, count |-> 0]
  /\ start = 0
  /\ wake = 0
  /\ stream = <<>>
  /\ rcvPc = "recv"
  /\ block \in [seq : {1}, count : {0}, sent : JunkTimes, recv : JunkTimes]
  /\ rcvLog = <<>>
  /\ skew = FALSE
  /\ ints = 0

\* A bound of the model keeps the sender from going on.
AtBound ==
  \/ mode = "ttr" /\ sndPc = "block" /\ blk.seq >= MaxSeq
  \/ sndPc = "sleep" /\ wake > MaxClock

Finished == sndPc \in {"done", "killed"} /\ rcvPc = "done"

Stopped == (Finished \/ AtBound) /\ UNCHANGED vars

Next == Tick \/ SenderNext \/ ReceiverNext \/ Stopped

Spec == FlowInit /\ [][Next]_vars

\* Both processes run whenever they can, and time passes.  Interrupts are
\* not promised.
FairSpec ==
  /\ Spec
  /\ WF_vars(Tick)
  /\ WF_vars(SenderNext)
  /\ WF_vars(RcvPacket \/ RcvSkewed \/ RcvEof)

-----------------------------------------------------------------------------
(* Properties *)

Time       == [sec : Int, usec : Int]
SentBlock  == [seq : Nat, time : Time, probe : BOOLEAN, count : Nat, pause : Nat]
TraceState == [lines : Nat, micros : Nat, probe : BOOLEAN, count : Nat]
SentLine   == [seq : Nat, count : Nat, time : Time]
Packet     == [seq : Nat, time : Time]
RcvdBlock  == [seq : Nat, count : Nat, sent : Time, recv : Time]
RcvdLine   == [seq : Nat, count : Nat, sent : Time, recv : Time, delay : Time]

TypeOK ==
  /\ clock \in 0 .. MaxClock
  /\ mode \in Modes
  /\ sndPc \in {"start", "block", "read", "send", "sleep", "close", "done", "killed"}
  /\ blk \in SentBlock
  /\ left \in Nat
  /\ sndLog \in Seq(SentLine)
  /\ failed \in BOOLEAN
  /\ trace \in TraceState
  /\ start \in Nat
  /\ wake \in Nat
  /\ stream \in Seq(Packet)
  /\ rcvPc \in {"recv", "done"}
  /\ block \in RcvdBlock
  /\ rcvLog \in Seq(RcvdLine)
  /\ skew \in BOOLEAN
  /\ ints \in Nat

\* The log of a flow without a packet is a line about a block that never was.
EmptyFlow == sndLog = <<>> /\ Len(rcvLog) = 1 /\ rcvLog[1].count = 0

\* Unless the receiver is interrupted, line i of its log is block i of the
\* sender: its number, its size and the time it was sent, however the
\* packets of blocks mix in the connection.
LinesAreBlocks ==
  ints = 0 /\ ~EmptyFlow =>
    \A i \in DOMAIN rcvLog :
      /\ i \in DOMAIN sndLog
      /\ rcvLog[i].seq = sndLog[i].seq
      /\ rcvLog[i].count = sndLog[i].count
      /\ rcvLog[i].sent = sndLog[i].time

\* At the end it has a line for each of them, the last one included.
NoBlockMissing == ints = 0 /\ rcvPc = "done" => Len(rcvLog) >= Len(sndLog)

\* The logs of both programs agree: at every time the receiver's is a part of the
\* sender's, and at the end all of it.
LogsAgree == LinesAreBlocks /\ NoBlockMissing

Usecs(t) == t.sec * UsecPerSec + t.usec

\* Carries between fields that far apart fit an int (2147 seconds).
Near(x, y) == x.usec - y.usec \in UsecPerSec - IntMax .. IntMax - UsecPerSec

\* timeval_subtract: the delay of a line is the difference of its two times,
\* whatever the child took for a time, unless carries overflow; and in the log of
\* a flow that was neither empty nor interrupted none does, and the microseconds
\* are less than a second.  (Else they may be a whole one.)
DelayIsDifference ==
  \A i \in DOMAIN rcvLog :
    LET line == rcvLog[i] IN
    /\ Near(line.recv, line.sent) =>
         /\ line.delay.usec \in 0 .. UsecPerSec
         /\ Usecs(line.delay) = Usecs(line.recv) - Usecs(line.sent)
    /\ ints = 0 /\ ~EmptyFlow =>
         Near(line.recv, line.sent) /\ line.delay.usec < UsecPerSec

\* How many packets the lines of a log stand for.
Packets(log) == Total([i \in DOMAIN log |-> log[i].count], DOMAIN log)

\* send_fromtrace: every line of a trace file is one packet of one block: what the
\* sender has handed over and what it has counted for the next block add up to what
\* it has read.  At the end just the lines since the last block are missing.
PacketsAreLines ==
  mode = "trace" /\ sndPc \in {"read", "sleep", "close", "done"} /\ ~failed =>
    Packets(sndLog) + trace.count = trace.lines

\* send_fromtrace: a block leaves when the lines that were counted for it are due,
\* on time for all its packets but the last: the line that triggers the block goes
\* with it, before the sleep that leads to its time.
OnePacketEarly ==
  [][mode = "trace" /\ blk' # blk =>
       /\ blk'.count = trace.count + 1
       /\ Usecs(blk'.time) >= trace.micros]_vars

\* Sender and child do not wait for each other: the flow comes to its end, if no
\* bound of the model stops the sender.  None does in "nblocks" mode.
FlowEnds == <>(Finished \/ (mode # "nblocks" /\ AtBound))

\* "delay is computed using recorded sent_time and recv_time for last packet
\* of previous block" (receiver.cc:286-287): the time in the line of a block
\* is that of its last packet.  The code has just overwritten it with the
\* time of the first packet of the next block.
DelayOfLastPacket ==
  [][\A i \in DOMAIN rcvLog' \ DOMAIN rcvLog : rcvLog'[i].recv = block.recv]_vars
=============================================================================
