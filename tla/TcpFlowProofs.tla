--------------------------- MODULE TcpFlowProofs ---------------------------
(***************************************************************************)
(* A TCP flow for every block size, trace and clock: timeval_subtract is   *)
(* subtraction wherever its carries fit an int, the variables keep their   *)
(* types, the packets of a trace leave when they are due but for the last  *)
(* of each block, none is lost between the lines of the trace and the log, *)
(* the logs of both programs agree, and every delay in the receiver's is   *)
(* the difference of the times beside it.                                  *)
(***************************************************************************)
EXTENDS TcpFlow, TotalsProofs, FunctionTheorems, TLAPS

-----------------------------------------------------------------------------
(* Times *)

LEMMA SmallQuotient ==
  ASSUME NEW u \in Nat \ {0}, NEW d \in 0 .. u - 1
  PROVE  d \div u = 0
OBVIOUS

LEMMA QuotientRemainder ==
  ASSUME NEW u \in Nat \ {0}, NEW t \in Nat
  PROVE  /\ t \div u \in Nat
         /\ t % u \in 0 .. u - 1
         /\ t = u * (t \div u) + (t % u)
OBVIOUS

LEMMA TimevalType ==
  ASSUME NEW t \in Nat
  PROVE  /\ Timeval(t) \in Time
         /\ Timeval(t).sec \in Nat
         /\ Timeval(t).usec \in 0 .. UsecPerSec - 1
         /\ Usecs(Timeval(t)) = t
<1>1. UsecPerSec \in Nat \ {0}  BY FlowAssumption
<1>2. /\ t \div UsecPerSec \in Nat /\ t % UsecPerSec \in 0 .. UsecPerSec - 1
      /\ t = UsecPerSec * (t \div UsecPerSec) + (t % UsecPerSec)
  BY <1>1, QuotientRemainder
<1>3. Timeval(t).sec = t \div UsecPerSec /\ Timeval(t).usec = t % UsecPerSec
  BY DEF Timeval
<1>4. UsecPerSec * (t \div UsecPerSec) = (t \div UsecPerSec) * UsecPerSec
  BY <1>1, <1>2
<1>5. Usecs(Timeval(t)) = t  BY <1>2, <1>3, <1>4 DEF Usecs
<1>6. Timeval(t) \in Time  BY <1>1, <1>2 DEF Timeval, Time
<1>7. QED  BY <1>2, <1>3, <1>5, <1>6

LEMMA Remainder ==
  ASSUME NEW u \in Nat \ {0}, NEW n \in 0 .. u - 1
  PROVE  n % u = n
OBVIOUS

\* An int holds what is small enough for it.
LEMMA IntHolds ==
  /\ \A n \in Int : ToInt(n) \in Int
  /\ \A n \in 0 .. IntMax : ToInt(n) = n
<1>1. IntMax \in Nat  BY FlowAssumption
<1> DEFINE w == 2 * IntMax + 2
<1>2. w \in Nat \ {0}  BY <1>1
<1>3. ASSUME NEW n \in Int  PROVE ToInt(n) \in Int
  <2>1. (n + IntMax + 1) % w \in Int  BY <1>1, <1>2
  <2>2. QED  BY <1>1, <2>1 DEF ToInt
<1>4. ASSUME NEW n \in 0 .. IntMax  PROVE ToInt(n) = n
  <2>1. n + IntMax + 1 \in 0 .. w - 1  BY <1>1
  <2> HIDE DEF w
  <2>2. (n + IntMax + 1) % w = n + IntMax + 1  BY <1>2, <2>1, Remainder
  <2>3. QED  BY <1>1, <2>2 DEF ToInt, w
<1>5. QED  BY <1>3, <1>4

LEMMA SubtractType ==
  ASSUME NEW x \in Time, NEW y \in Time
  PROVE  TimevalSubtract(x, y) \in Time
<1>1. UsecPerSec \in Nat \ {0}  BY FlowAssumption
<1>2. /\ x.sec \in Int /\ x.usec \in Int /\ y.sec \in Int /\ y.usec \in Int
  BY DEF Time
<1> DEFINE n == Borrow(x, y)
           u == y.usec - ToInt(UsecPerSec * n)
           k == GiveBack(x, u)
<1>3. n \in Int  BY <1>1, <1>2, IntHolds DEF Borrow
<1>4. UsecPerSec * n \in Int /\ ToInt(UsecPerSec * n) \in Int  BY <1>1, <1>3, IntHolds
<1> HIDE DEF n
<1>5. u \in Int  BY <1>2, <1>4
<1> HIDE DEF u
<1>6. k \in Int  BY <1>1, <1>2, <1>5, IntHolds DEF GiveBack
<1>7. UsecPerSec * k \in Int /\ ToInt(UsecPerSec * k) \in Int  BY <1>1, <1>6, IntHolds
<1> HIDE DEF k
<1>8. TimevalSubtract(x, y) = [sec |-> x.sec - (y.sec + n - k),
                               usec |-> x.usec - (u + ToInt(UsecPerSec * k))]
  BY DEF TimevalSubtract, n, u, k
<1>9. QED  BY <1>2, <1>3, <1>5, <1>6, <1>7, <1>8 DEF Time

\* Seconds move between the fields, and nothing is lost.
LEMMA Carried ==
  ASSUME NEW a \in Int, NEW b \in Int, NEW c \in Int, NEW d \in Int,
         NEW n \in Int, NEW k \in Int, NEW w \in Int
  PROVE  (a - (c + n - k)) * w + (b - (d - w * n + w * k)) = (a * w + b) - (c * w + d)
OBVIOUS

LEMMA Quotients ==
  ASSUME NEW u \in Nat \ {0}, NEW d \in Nat
  PROVE  /\ d \div u \in 0 .. d
         /\ u * (d \div u) \in 0 .. d
         /\ d - u * (d \div u) \in 0 .. u - 1
OBVIOUS

LEMMA NextMultiple ==
  ASSUME NEW u \in Nat \ {0}, NEW d \in Nat
  PROVE  /\ u * (d \div u + 1) = u * (d \div u) + u
         /\ u * (d \div u + 1) - d \in 1 .. u
<1>1. d \div u \in Nat  BY Quotients
<1> DEFINE q == d \div u
<1>2. d - u * q \in 0 .. u - 1  BY Quotients
<1> HIDE DEF q
<1>3. u * (q + 1) = u * q + u  BY <1>1 DEF q
<1>4. u * q \in Nat  BY <1>1 DEF q
<1>5. QED  BY <1>2, <1>3, <1>4 DEF q

\* timeval_subtract of two times whose fields may hold anything, as far as the
\* carries fit an int, is their difference, with at most a second of microseconds: a
\* whole one only if the fields are a second apart or more.  Of a negative
\* difference the seconds alone are negative.
THEOREM SubtractIsDifference ==
  ASSUME NEW x \in Time, NEW y \in Time, Near(x, y)
  PROVE  LET d == TimevalSubtract(x, y) IN
         /\ d.usec \in 0 .. UsecPerSec
         /\ Usecs(d) = Usecs(x) - Usecs(y)
         /\ x.usec - y.usec \in 1 - UsecPerSec .. UsecPerSec - 1 => d.usec < UsecPerSec
<1> DEFINE U == UsecPerSec
           d == TimevalSubtract(x, y)
           e == x.usec - y.usec
           n == IF e < 0 THEN (-e) \div U + 1 ELSE 0
           k == IF e > U THEN e \div U ELSE 0
<1>1. U \in Nat \ {0} /\ IntMax \in Nat /\ 2 * U <= IntMax  BY FlowAssumption
<1>2. x.sec \in Int /\ x.usec \in Int /\ y.sec \in Int /\ y.usec \in Int  BY DEF Time
<1>3. e \in Int /\ U - IntMax <= e /\ e <= IntMax - U  BY <1>1, <1>2 DEF Near
<1> HIDE DEF U
<1>4. /\ n \in Nat /\ U * n \in 0 .. IntMax /\ n <= IntMax
      /\ e < 0 => e + U * n \in 1 .. U
      /\ e >= 0 => U * n = 0
      /\ e < 0 /\ 1 - U <= e => U * n = U
  <2>1. CASE e < 0
    <3> DEFINE m == -e
    <3>1. m \in Nat /\ m <= IntMax - U /\ m > 0  BY <1>1, <1>3, <2>1
    <3>2. m \div U \in 0 .. m /\ U * (m \div U) \in 0 .. m  BY <1>1, <3>1, Quotients
    <3>3. U * (m \div U + 1) = U * (m \div U) + U /\ U * (m \div U + 1) - m \in 1 .. U
      BY <1>1, <3>1, NextMultiple
    <3>4. n = m \div U + 1  BY <2>1
    <3>5. 1 - U <= e => m \div U = 0
      <4>1. SUFFICES ASSUME 1 - U <= e  PROVE m \div U = 0
        OBVIOUS
      <4>2. m \in 0 .. U - 1  BY <1>1, <1>3, <3>1, <4>1
      <4>3. QED  BY <1>1, <4>2, SmallQuotient
    <3>6. e = -m  BY <1>3
    <3> HIDE DEF m, n
    <3>7. QED  BY <1>1, <2>1, <3>1, <3>2, <3>3, <3>4, <3>5, <3>6
  <2>2. CASE e >= 0
    <3>1. n = 0  BY <1>3, <2>2
    <3> HIDE DEF n, e
    <3>2. QED  BY <1>1, <1>3, <2>2, <3>1
  <2>3. QED  BY <1>3, <2>1, <2>2
<1>5. /\ k \in Nat /\ U * k \in 0 .. IntMax /\ k <= IntMax
      /\ e > U => e - U * k \in 0 .. U - 1
      /\ e <= U => U * k = 0
  <2>1. CASE e > U
    <3>1. e \in Nat  BY <1>1, <1>3, <2>1
    <3>2. e \div U \in 0 .. e /\ U * (e \div U) \in 0 .. e /\ e - U * (e \div U) \in 0 .. U - 1
      BY <1>1, <3>1, Quotients
    <3>3. k = e \div U  BY <2>1
    <3> HIDE DEF k, e
    <3>4. QED  BY <1>1, <1>3, <2>1, <3>1, <3>2, <3>3
  <2>2. CASE ~(e > U)
    <3>1. k = 0  BY <2>2
    <3> HIDE DEF k, e
    <3>2. QED  BY <1>1, <1>3, <2>2, <3>1
  <2>3. QED  BY <2>1, <2>2
<1>6. Borrow(x, y) = n
  <2>1. CASE e < 0
    <3>1. x.usec < y.usec /\ y.usec - x.usec = -e  BY <1>2, <2>1
    <3>2. Borrow(x, y) = ToInt((-e) \div U + 1)  BY <3>1 DEF Borrow, U
    <3>3. n = (-e) \div U + 1  BY <2>1
    <3>4. n \in 0 .. IntMax  BY <1>1, <1>4
    <3> HIDE DEF n, e
    <3>5. QED  BY <3>2, <3>3, <3>4, IntHolds
  <2>2. CASE ~(e < 0)
    <3>1. ~(x.usec < y.usec)  BY <1>2, <2>2
    <3>2. QED  BY <2>2, <3>1 DEF Borrow
  <2>3. QED  BY <2>1, <2>2
<1> HIDE DEF n
<1>7. ToInt(U * n) = U * n  BY <1>4, IntHolds
<1> DEFINE u == y.usec - U * n
<1>8. U * n \in Int /\ u \in Int /\ x.usec - u = e + U * n  BY <1>2, <1>4
<1>9. GiveBack(x, u) = k
  <2>1. CASE e > U
    <3>1. x.usec - u = e  BY <1>1, <1>3, <1>4, <1>8, <2>1
    <3>2. GiveBack(x, u) = ToInt(e \div U)  BY <2>1, <3>1 DEF GiveBack, U
    <3>3. k = e \div U  BY <2>1
    <3>4. k \in 0 .. IntMax  BY <1>1, <1>5
    <3> HIDE DEF k, e, u
    <3>5. QED  BY <3>2, <3>3, <3>4, IntHolds
  <2>2. CASE ~(e > U)
    <3>1. ~(x.usec - u > U)
      <4>1. e + U * n <= U  BY <1>1, <1>3, <1>4, <2>2
      <4> HIDE DEF e, u
      <4>2. QED  BY <1>1, <1>3, <1>4, <1>8, <4>1
    <3>2. QED  BY <2>2, <3>1 DEF GiveBack, U
  <2>3. QED  BY <2>1, <2>2
<1> HIDE DEF k
<1>10. ToInt(U * k) = U * k  BY <1>5, IntHolds
<1>11. d = [sec |-> x.sec - (y.sec + n - k), usec |-> x.usec - (u + U * k)]
  <2>1. d = [sec |-> x.sec - (y.sec + n - k), usec |-> x.usec - (u + ToInt(U * k))]
    BY <1>6, <1>7, <1>9 DEF TimevalSubtract, U
  <2>2. QED  BY <1>10, <2>1
<1>12. U * k \in Int  BY <1>5
<1>13. d.usec = e + U * n - U * k /\ d.sec = x.sec - (y.sec + n - k)
  <2>1. d.usec = x.usec - (u + U * k) /\ d.sec = x.sec - (y.sec + n - k)  BY <1>11
  <2> HIDE DEF d
  <2>2. QED  BY <1>2, <1>8, <1>12, <2>1
<1> HIDE DEF d
<1>14. d.usec \in 0 .. U /\ (e \in 1 - U .. U - 1 => d.usec < U)
  <2> HIDE DEF e, u
  <2>1. CASE e < 0
    <3>1. U * k = 0 /\ e + U * n \in 1 .. U  BY <1>1, <1>3, <1>4, <1>5, <2>1
    <3>2. 1 - U <= e => U * n = U  BY <1>4, <2>1
    <3>3. QED  BY <1>1, <1>3, <1>4, <1>13, <2>1, <3>1, <3>2
  <2>2. CASE e >= 0
    <3>1. U * n = 0  BY <1>4, <2>2
    <3>2. CASE e > U  BY <1>1, <1>3, <1>5, <1>13, <2>2, <3>1, <3>2
    <3>3. CASE e <= U
      <4>1. U * k = 0  BY <1>5, <3>3
      <4>2. QED  BY <1>1, <1>3, <1>13, <2>2, <3>1, <3>3, <4>1
    <3>4. QED  BY <1>1, <1>3, <3>2, <3>3
  <2>3. QED  BY <1>3, <2>1, <2>2
<1>15. Usecs(d) = Usecs(x) - Usecs(y)
  <2>1. n \in Int /\ k \in Int /\ U \in Int  BY <1>1, <1>4, <1>5
  <2>2. (x.sec - (y.sec + n - k)) * U + (x.usec - (y.usec - U * n + U * k))
          = (x.sec * U + x.usec) - (y.sec * U + y.usec)
    BY <1>2, <2>1, Carried
  <2>3. d.usec = x.usec - (y.usec - U * n + U * k)  BY <1>2, <1>8, <1>12, <1>13
  <2>4. Usecs(d) = (x.sec - (y.sec + n - k)) * U + (x.usec - (y.usec - U * n + U * k))
    BY <1>13, <2>3 DEF Usecs, U
  <2>5. QED  BY <2>2, <2>4 DEF Usecs, U
<1>16. QED  BY <1>14, <1>15 DEF U, d, e

-----------------------------------------------------------------------------
(* Types *)

LEMMA Constants ==
  /\ 0 .. MaxClock \subseteq Nat /\ MaxClock \in Nat
  /\ BlkSize \in Nat /\ USeconds \in Nat \ {0}
  /\ Micros \subseteq Nat /\ JunkSeqs \subseteq Nat /\ JunkTimes \subseteq Time
BY FlowAssumption DEF Time

\* What the sequence operators return, for any set of elements.
LEMMA SequenceTypes ==
  ASSUME NEW S, NEW q \in Seq(S)
  PROVE  /\ <<>> \in Seq(S)
         /\ \A x \in S : Append(q, x) \in Seq(S)
         /\ q # <<>> => Head(q) \in S /\ Tail(q) \in Seq(S)
OBVIOUS

LEMMA FlowTypeOKInit == FlowInit => TypeOK
<1> SUFFICES ASSUME FlowInit  PROVE TypeOK
  OBVIOUS
<1>1. clock \in 0 .. MaxClock  BY Constants DEF FlowInit
<1>2. blk \in SentBlock  BY TimevalType DEF FlowInit, SentBlock
<1>3. trace \in TraceState  BY DEF FlowInit, TraceState
<1>4. block \in RcvdBlock
  <2>1. PICK s \in JunkTimes, r \in JunkTimes :
          block = [seq |-> 1, count |-> 0, sent |-> s, recv |-> r]
    BY DEF FlowInit
  <2>2. s \in Time /\ r \in Time  BY Constants
  <2>3. QED  BY <2>1, <2>2 DEF RcvdBlock
<1>5. sndLog \in Seq(SentLine) /\ stream \in Seq(Packet) /\ rcvLog \in Seq(RcvdLine)
  BY DEF FlowInit
<1>6. QED  BY <1>1, <1>2, <1>3, <1>4, <1>5 DEF FlowInit, TypeOK

\* A line of the receiver's log.
LEMMA LineType ==
  ASSUME block \in RcvdBlock, NEW t \in Time
  PROVE  Line(t) \in RcvdLine
<1>1. block.seq \in Nat /\ block.count \in Nat /\ block.sent \in Time  BY DEF RcvdBlock
<1>2. TimevalSubtract(t, block.sent) \in Time  BY <1>1, SubtractType
<1>3. QED  BY <1>1, <1>2 DEF Line, RcvdLine

LEMMA NewBlockType ==
  ASSUME TypeOK, NEW n \in Nat, NEW p \in BOOLEAN, NEW w \in Nat, NewBlock(n, p, w)
  PROVE  blk' \in SentBlock /\ left' \in Nat /\ sndPc' = "send"
<1>1. clock \in Nat /\ blk.seq \in Nat  BY Constants DEF TypeOK, SentBlock
<1>2. Timeval(clock) \in Time  BY <1>1, TimevalType
<1>3. QED  BY <1>1, <1>2 DEF NewBlock, SentBlock

LEMMA SenderTypes == TypeOK /\ SenderNext => TypeOK'
<1> SUFFICES ASSUME TypeOK, SenderNext  PROVE TypeOK'
  OBVIOUS
<1>1. clock \in Nat /\ blk.pause \in Nat  BY Constants DEF TypeOK, SentBlock
<1>2. CASE SndStart
  <2>1. start' \in Nat  BY <1>1, <1>2, TimevalType DEF SndStart
  <2>2. sndPc' \in {"block", "read", "close"}  BY <1>2 DEF SndStart
  <2>3. QED  BY <1>2, <2>1, <2>2 DEF SndStart, TypeOK, rcvVars
<1>3. CASE SndBlock
  <2>1. blk' \in SentBlock /\ left' \in Nat /\ sndPc' = "send"
    BY <1>3, Constants, NewBlockType DEF SndBlock
  <2>2. QED  BY <1>3, <2>1 DEF SndBlock, TypeOK, rcvVars
<1>4. CASE SndLine
  <2>1. PICK m \in Micros, p \in BOOLEAN :
          LET new == m # trace.micros \/ p # trace.probe IN
          /\ trace' = [lines |-> trace.lines + 1, micros |-> m, probe |-> p,
                       count |-> Counted(new)]
          /\ IF new
             THEN NewBlock(trace.count + 1, trace.probe, Pause(m))
             ELSE UNCHANGED <<blk, left, sndPc>>
    BY <1>4 DEF SndLine
  <2>2. /\ trace.lines \in Nat /\ trace.micros \in Nat
        /\ trace.probe \in BOOLEAN /\ trace.count \in Nat
    BY DEF TypeOK, TraceState
  <2>3. m \in Nat /\ Pause(m) \in Nat  BY <2>2, Constants DEF Pause
  <2>4. Counted(m # trace.micros \/ p # trace.probe) \in Nat  BY <2>2 DEF Counted
  <2>5. trace' \in TraceState  BY <2>1, <2>2, <2>3, <2>4 DEF TraceState
  <2>6. \/ NewBlock(trace.count + 1, trace.probe, Pause(m))
        \/ UNCHANGED <<blk, left, sndPc>>
    BY <2>1
  <2>7. blk' \in SentBlock /\ left' \in Nat /\ (sndPc' = "send" \/ sndPc' = sndPc)
    BY <2>2, <2>3, <2>6, NewBlockType DEF TypeOK
  <2>8. QED  BY <1>4, <2>5, <2>7 DEF SndLine, TypeOK, rcvVars
<1>5. CASE SndEof  BY <1>5 DEF SndEof, TypeOK, rcvVars
<1>6. CASE SndPacket
  <2>1. [seq |-> blk.seq, time |-> blk.time] \in Packet
    BY DEF TypeOK, SentBlock, Packet
  <2>2. stream' \in Seq(Packet)  BY <1>6, <2>1, SequenceTypes DEF SndPacket, TypeOK
  <2>3. left' \in Nat  BY <1>6 DEF SndPacket, TypeOK
  <2>4. QED  BY <1>6, <2>2, <2>3 DEF SndPacket, TypeOK, rcvVars
<1>7. ASSUME AfterSend  PROVE sndPc' \in {"sleep", "read", "block", "close"} /\ wake' \in Nat
  BY <1>1, <1>7 DEF AfterSend
<1>8. CASE SndSent
  <2>1. [seq |-> blk.seq, count |-> blk.count, time |-> blk.time] \in SentLine
    BY DEF TypeOK, SentBlock, SentLine
  <2>2. sndLog' \in Seq(SentLine)  BY <1>8, <2>1, SequenceTypes DEF SndSent, TypeOK
  <2>3. sndPc' \in {"sleep", "read", "block", "close"} /\ wake' \in Nat
    BY <1>7, <1>8 DEF SndSent
  <2>4. QED  BY <1>8, <2>2, <2>3 DEF SndSent, TypeOK, rcvVars
<1>9. CASE SndFail
  <2>1. sndPc' \in {"sleep", "read", "block", "close"} /\ wake' \in Nat
    BY <1>7, <1>9 DEF SndFail
  <2>2. QED  BY <1>9, <2>1 DEF SndFail, TypeOK, rcvVars
<1>10. CASE SndKilled \/ SndWake \/ SndClose
  BY <1>10 DEF SndKilled, SndWake, SndClose, TypeOK, rcvVars
<1>11. QED  BY <1>2, <1>3, <1>4, <1>5, <1>6, <1>8, <1>9, <1>10 DEF SenderNext

LEMMA CountedBlock ==
  ASSUME NEW b \in RcvdBlock, NEW t \in Time, NEW r \in Time
  PROVE  [b EXCEPT !.count = @ + 1, !.sent = t, !.recv = r] \in RcvdBlock
<1>1. [b EXCEPT !.sent = t, !.recv = r] \in RcvdBlock  BY DEF RcvdBlock
<1>2. \A x \in RcvdBlock, n \in Nat : [x EXCEPT !.count = n] \in RcvdBlock
  BY DEF RcvdBlock
<1>3. [b EXCEPT !.count = @ + 1, !.sent = t, !.recv = r]
        = [[b EXCEPT !.sent = t, !.recv = r] EXCEPT !.count = b.count + 1]
  OBVIOUS
<1>4. b.count + 1 \in Nat  BY DEF RcvdBlock
<1>5. QED  BY <1>1, <1>2, <1>3, <1>4

LEMMA ReceiverTypes == TypeOK /\ ReceiverNext => TypeOK'
<1> SUFFICES ASSUME TypeOK, ReceiverNext  PROVE TypeOK'
  OBVIOUS
<1>1. /\ Timeval(clock) \in Time
      /\ block.count \in Nat /\ block.seq \in Nat /\ block.sent \in Time /\ block.recv \in Time
  BY Constants, TimevalType DEF TypeOK, RcvdBlock
<1>2. \A t \in Time : Append(rcvLog, Line(t)) \in Seq(RcvdLine)
  BY LineType, SequenceTypes DEF TypeOK
<1>3. ASSUME NEW s \in Nat, NEW t \in Time, LogPacket(s, t)
      PROVE  block' \in RcvdBlock /\ rcvLog' \in Seq(RcvdLine)
  <2>1. rcvLog' \in Seq(RcvdLine)  BY <1>1, <1>2, <1>3 DEF LogPacket, TypeOK
  <2>2. CASE s > block.seq  BY <1>1, <1>3, <2>1, <2>2 DEF LogPacket, RcvdBlock
  <2>3. CASE ~(s > block.seq)
    <3>1. block' = [block EXCEPT !.count = @ + 1, !.sent = t, !.recv = Timeval(clock)]
      BY <1>3, <2>3 DEF LogPacket
    <3>2. block' \in RcvdBlock  BY <1>1, <3>1, CountedBlock DEF TypeOK
    <3>3. QED  BY <2>1, <3>2
  <2>4. QED  BY <2>2, <2>3
<1>4. ASSUME RcvFinish
      PROVE  rcvPc' = "done" /\ stream' \in Seq(Packet) /\ rcvLog' \in Seq(RcvdLine)
  BY <1>1, <1>2, <1>4 DEF RcvFinish
<1>5. stream # <<>> => Head(stream) \in Packet /\ Tail(stream) \in Seq(Packet)
  BY SequenceTypes DEF TypeOK
<1>6. CASE RcvPacket
  <2>1. Head(stream).seq \in Nat /\ Head(stream).time \in Time
    BY <1>5, <1>6 DEF RcvPacket, Packet
  <2>2. block' \in RcvdBlock /\ rcvLog' \in Seq(RcvdLine)
    BY <1>3, <1>6, <2>1 DEF RcvPacket
  <2>3. QED  BY <1>5, <1>6, <2>2 DEF RcvPacket, TypeOK, sndVars
<1>7. CASE RcvSkewed
  <2>1. stream # <<>>  BY <1>7 DEF RcvSkewed
  <2>2. block' \in RcvdBlock /\ rcvLog' \in Seq(RcvdLine)
    BY <1>3, <1>7, Constants DEF RcvSkewed
  <2>3. QED  BY <1>5, <1>7, <2>1, <2>2 DEF RcvSkewed, TypeOK, sndVars
<1>8. CASE RcvEof \/ RcvEintr
  BY <1>4, <1>8 DEF RcvEof, RcvEintr, TypeOK, sndVars
<1>9. CASE RcvShort
  <2>1. Head(stream).seq \in Nat /\ Head(stream).time \in Time
    BY <1>5, <1>9 DEF RcvShort, Packet
  <2>2. PICK s \in JunkSeqs \union {block.seq, Head(stream).seq},
             t \in JunkTimes \union {block.sent, Head(stream).time} : LogPacket(s, t)
    BY <1>9 DEF RcvShort
  <2>3. s \in Nat /\ t \in Time  BY <1>1, <2>1, Constants
  <2>4. block' \in RcvdBlock /\ rcvLog' \in Seq(RcvdLine)  BY <1>3, <2>2, <2>3
  <2>5. QED  BY <1>9, <2>4 DEF RcvShort, TypeOK, sndVars
<1>10. QED  BY <1>6, <1>7, <1>8, <1>9 DEF ReceiverNext

\* Every variable of a flow keeps its type.
THEOREM FlowTypeCorrect == Spec => []TypeOK
<1>1. TypeOK /\ [Next]_vars => TypeOK'
  <2> SUFFICES ASSUME TypeOK, [Next]_vars  PROVE TypeOK'
    OBVIOUS
  <2>1. CASE Tick
    <3>1. clock' \in 0 .. MaxClock  BY <2>1, Constants DEF Tick, TypeOK
    <3>2. QED  BY <2>1, <3>1 DEF Tick, TypeOK, sndVars, rcvVars
  <2>2. CASE Stopped \/ UNCHANGED vars
    BY <2>2 DEF Stopped, vars, TypeOK, sndVars, rcvVars
  <2>3. QED  BY <2>1, <2>2, SenderTypes, ReceiverTypes DEF Next
<1>2. QED  BY FlowTypeOKInit, <1>1, PTL DEF Spec

-----------------------------------------------------------------------------
(* A trace in the sender *)

\* Until the sender reads on, the clock and the pause to come reach the time of
\* the line it has read.
AheadInv ==
  mode = "trace" =>
    /\ sndPc # "block"
    /\ sndPc \in {"start", "read"} => clock >= trace.micros
    /\ sndPc = "send" => clock + blk.pause >= trace.micros
    /\ sndPc = "sleep" => wake >= trace.micros

\* The pause after a line covers the time to it: it is the difference, or wraps if
\* the times of the trace go back.
LEMMA PauseCovers ==
  ASSUME TypeOK, NEW m \in Micros
  PROVE  Pause(m) \in Nat /\ trace.micros + Pause(m) >= m
<1>1. trace.micros \in Nat  BY DEF TypeOK, TraceState
<1>2. m \in 0 .. USeconds - 1 /\ USeconds \in Nat \ {0}  BY FlowAssumption
<1>3. CASE m >= trace.micros
  <2>1. m - trace.micros \in 0 .. USeconds - 1  BY <1>1, <1>2, <1>3
  <2>2. Pause(m) = m - trace.micros  BY <1>2, <2>1 DEF Pause
  <2>3. QED  BY <1>1, <1>2, <1>3, <2>2
<1>4. CASE ~(m >= trace.micros)
  <2>1. (m - trace.micros) % USeconds \in Nat  BY <1>1, <1>2
  <2>2. QED  BY <1>1, <1>2, <1>4, <2>1 DEF Pause
<1>5. QED  BY <1>3, <1>4

LEMMA AheadStep == TypeOK /\ AheadInv /\ [Next]_vars => AheadInv'
<1> SUFFICES ASSUME TypeOK, AheadInv, [Next]_vars, mode' = "trace"  PROVE AheadInv'
  BY DEF AheadInv
<1>1. clock \in Nat /\ wake \in Nat /\ blk.pause \in Nat /\ trace.micros \in Nat
  BY Constants DEF TypeOK, SentBlock, TraceState
<1>2. mode = "trace"
  BY DEF Next, Tick, SenderNext, SndStart, SndBlock, SndLine, SndEof, SndPacket, SndSent,
         SndFail, SndKilled, SndWake, SndClose, ReceiverNext, RcvPacket, RcvSkewed, RcvEof,
         RcvShort, RcvEintr, Stopped, vars
<1>3. CASE Tick  BY <1>1, <1>2, <1>3 DEF Tick, sndVars, AheadInv
<1>4. CASE SndLine
  <2>1. PICK m \in Micros, p \in BOOLEAN :
          LET new == m # trace.micros \/ p # trace.probe IN
          /\ trace' = [lines |-> trace.lines + 1, micros |-> m, probe |-> p,
                       count |-> Counted(new)]
          /\ IF new
             THEN NewBlock(trace.count + 1, trace.probe, Pause(m))
             ELSE UNCHANGED <<blk, left, sndPc>>
    BY <1>4 DEF SndLine
  <2>2. trace'.micros = m /\ clock' = clock /\ sndPc = "read" /\ clock >= trace.micros
    BY <1>2, <1>4, <2>1 DEF SndLine, AheadInv
  <2>3. Pause(m) \in Nat /\ trace.micros + Pause(m) >= m /\ m \in Nat
    BY PauseCovers, Constants
  <2>4. CASE m # trace.micros \/ p # trace.probe
    <3>1. sndPc' = "send" /\ blk'.pause = Pause(m)  BY <2>1, <2>4 DEF NewBlock
    <3>2. clock' + blk'.pause >= trace'.micros  BY <1>1, <2>2, <2>3, <3>1
    <3>3. QED  BY <3>1, <3>2 DEF AheadInv
  <2>5. CASE m = trace.micros /\ p = trace.probe
    BY <2>1, <2>2, <2>5 DEF AheadInv
  <2>6. QED  BY <2>4, <2>5
<1>5. ASSUME AfterSend, sndPc = "send", UNCHANGED <<clock, trace>>  PROVE AheadInv'
  BY <1>1, <1>2, <1>5 DEF AfterSend, AheadInv
<1>6. CASE SndSent \/ SndFail  BY <1>5, <1>6 DEF SndSent, SndFail
<1>7. CASE SndStart \/ SndWake
  BY <1>1, <1>2, <1>7 DEF SndStart, SndWake, AheadInv
<1>8. CASE SndBlock \/ SndEof \/ SndPacket \/ SndKilled \/ SndClose
  BY <1>2, <1>8 DEF SndBlock, SndEof, SndPacket, SndKilled, SndClose, AheadInv
<1>9. CASE ReceiverNext \/ Stopped \/ UNCHANGED vars
  BY <1>2, <1>9 DEF ReceiverNext, RcvPacket, RcvSkewed, RcvEof, RcvShort, RcvEintr, Stopped,
                    vars, sndVars, AheadInv
<1>10. QED  BY <1>3, <1>4, <1>6, <1>7, <1>8, <1>9 DEF Next, SenderNext

\* A block of a trace leaves when the lines counted for it are due, so early for its
\* last packet alone, also where the times of the trace go back.
THEOREM TraceInTime == Spec => OnePacketEarly
<1> DEFINE Due == mode = "trace" /\ blk' # blk =>
                    /\ blk'.count = trace.count + 1
                    /\ Usecs(blk'.time) >= trace.micros
<1>1. FlowInit => AheadInv  BY DEF FlowInit, AheadInv
<1>2. TypeOK /\ AheadInv /\ [Next]_vars => [Due]_vars
  <2> SUFFICES ASSUME TypeOK, AheadInv, [Next]_vars, mode = "trace", blk' # blk  PROVE Due
    OBVIOUS
  <2>1. clock \in Nat /\ Usecs(Timeval(clock)) = clock  BY Constants, TimevalType DEF TypeOK
  <2>2. ~SndBlock  BY DEF SndBlock, AheadInv
  <2>3. SndLine
    BY <2>2 DEF Next, Tick, SenderNext, SndStart, SndEof, SndPacket, SndSent, SndFail,
                SndKilled, SndWake, SndClose, ReceiverNext, RcvPacket, RcvSkewed, RcvEof,
                RcvShort, RcvEintr, Stopped, vars, sndVars
  <2>4. PICK m \in Micros : NewBlock(trace.count + 1, trace.probe, Pause(m))
    BY <2>3 DEF SndLine
  <2>5. blk'.count = trace.count + 1 /\ blk'.time = Timeval(clock)  BY <2>4 DEF NewBlock
  <2>6. clock >= trace.micros  BY <2>3 DEF SndLine, AheadInv
  <2>7. QED  BY <2>1, <2>5, <2>6
<1>3. QED  BY <1>1, <1>2, AheadStep, FlowTypeCorrect, PTL DEF Spec, OnePacketEarly

-----------------------------------------------------------------------------
(* The packets of a trace *)

Counts(log) == [i \in DOMAIN log |-> log[i].count]

FinitePackets(log) == IsFiniteSet(Units(Counts(log), DOMAIN log))

LEMMA NoPackets == Packets(<<>>) = 0 /\ FinitePackets(<<>>)
<1>1. DOMAIN <<>> = {}  OBVIOUS
<1>2. Packets(<<>>) = 0  BY <1>1, TotalEmpty DEF Packets
<1>3. Units(Counts(<<>>), {}) = {}  BY DEF Units
<1>4. QED  BY <1>1, <1>2, <1>3, FS_EmptySet DEF FinitePackets

\* A line adds its packets.
LEMMA PacketsAppend ==
  ASSUME NEW log \in Seq(SentLine), FinitePackets(log), NEW x \in SentLine
  PROVE  /\ FinitePackets(Append(log, x))
         /\ Packets(Append(log, x)) = Packets(log) + x.count
<1> DEFINE n == Len(log) + 1
           longer == Append(log, x)
<1>1. /\ Len(log) \in Nat /\ DOMAIN log = 1 .. Len(log)
      /\ DOMAIN longer = 1 .. n /\ longer[n] = x
      /\ \A i \in 1 .. Len(log) : longer[i] = log[i]
  OBVIOUS
<1>2. x.count \in Nat  BY DEF SentLine
<1>3. n \notin DOMAIN log /\ DOMAIN longer = DOMAIN log \union {n}  BY <1>1
<1> HIDE DEF n, longer
<1>4. Counts(longer)[n] = x.count /\ \A i \in DOMAIN log : Counts(longer)[i] = Counts(log)[i]
  BY <1>1, <1>3 DEF Counts
<1>5. /\ IsFiniteSet(Units(Counts(longer), DOMAIN log \union {n}))
      /\ Total(Counts(longer), DOMAIN log \union {n}) = Total(Counts(log), DOMAIN log) + x.count
  BY <1>2, <1>3, <1>4, FiniteInsert DEF FinitePackets
<1>6. FinitePackets(longer) /\ Packets(longer) = Packets(log) + x.count
  BY <1>3, <1>5 DEF FinitePackets, Packets, Counts
<1>7. QED  BY <1>6 DEF longer

\* While a block is sent its packets are between the log and the count.
CountInv ==
  /\ FinitePackets(sndLog)
  /\ mode = "trace" /\ ~failed =>
       /\ sndPc # "block"
       /\ sndPc \in {"start", "read", "sleep", "close", "done"} =>
            Packets(sndLog) + trace.count = trace.lines
       /\ sndPc = "send" =>
            Packets(sndLog) + blk.count + trace.count = trace.lines

LEMMA PacketsNat ==
  ASSUME NEW log, FinitePackets(log)
  PROVE  Packets(log) \in Nat
BY FS_CardinalityType DEF FinitePackets, Packets, Counts, Total

LEMMA CountStep == TypeOK /\ CountInv /\ [Next]_vars => CountInv'
<1> SUFFICES ASSUME TypeOK, CountInv, [Next]_vars  PROVE CountInv'
  OBVIOUS
<1>1. /\ Packets(sndLog) \in Nat /\ trace.count \in Nat /\ trace.lines \in Nat
      /\ trace.probe \in BOOLEAN /\ blk.count \in Nat
  BY PacketsNat DEF CountInv, TypeOK, TraceState, SentBlock
<1>2. CASE SndLine
  <2>1. PICK m \in Micros, p \in BOOLEAN :
          LET new == m # trace.micros \/ p # trace.probe IN
          /\ trace' = [lines |-> trace.lines + 1, micros |-> m, probe |-> p,
                       count |-> Counted(new)]
          /\ IF new
             THEN NewBlock(trace.count + 1, trace.probe, Pause(m))
             ELSE UNCHANGED <<blk, left, sndPc>>
    BY <1>2 DEF SndLine
  <2>2. /\ sndPc = "read" /\ mode' = mode /\ failed' = failed /\ sndLog' = sndLog
        /\ trace'.lines = trace.lines + 1
    BY <1>2, <2>1 DEF SndLine
  <2>3. CASE m # trace.micros \/ p # trace.probe
    <3>1. /\ sndPc' = "send" /\ blk'.count = trace.count + 1 /\ trace'.count = 0
      BY <2>1, <2>3 DEF NewBlock, Counted
    <3>2. QED  BY <1>1, <2>2, <3>1 DEF CountInv
  <2>4. CASE m = trace.micros /\ p = trace.probe
    <3>1. sndPc' = sndPc /\ trace'.count = trace.count + 1
      BY <2>1, <2>4 DEF Counted
    <3>2. QED  BY <1>1, <2>2, <3>1 DEF CountInv
  <2>5. QED  BY <2>3, <2>4
<1>3. CASE SndSent
  <2> DEFINE line == [seq |-> blk.seq, count |-> blk.count, time |-> blk.time]
  <2>1. line \in SentLine /\ line.count = blk.count
    BY DEF TypeOK, SentBlock, SentLine
  <2> HIDE DEF line
  <2>2. sndLog' = Append(sndLog, line) /\ sndPc = "send" /\ UNCHANGED <<mode, failed, trace>>
    BY <1>3 DEF SndSent, line
  <2>3. FinitePackets(sndLog') /\ Packets(sndLog') = Packets(sndLog) + blk.count
    BY <2>1, <2>2, PacketsAppend DEF CountInv, TypeOK
  <2>4. mode = "trace" => sndPc' = "sleep"  BY <1>3 DEF SndSent, AfterSend
  <2>5. QED  BY <1>1, <2>2, <2>3, <2>4 DEF CountInv
<1>4. CASE SndFail  BY <1>4 DEF SndFail, CountInv
<1>5. CASE SndStart \/ SndWake  BY <1>5 DEF SndStart, SndWake, CountInv
<1>6. CASE SndBlock \/ SndEof \/ SndPacket \/ SndKilled \/ SndClose
  BY <1>6 DEF SndBlock, SndEof, SndPacket, SndKilled, SndClose, CountInv
<1>7. CASE Tick \/ ReceiverNext \/ Stopped \/ UNCHANGED vars
  BY <1>7 DEF Tick, ReceiverNext, RcvPacket, RcvSkewed, RcvEof, RcvShort, RcvEintr, Stopped,
              vars, sndVars, CountInv
<1>8. QED  BY <1>2, <1>3, <1>4, <1>5, <1>6, <1>7 DEF Next, SenderNext

\* Every line of a trace is a packet of one block, for every trace.
THEOREM TraceIsSent == Spec => []PacketsAreLines
<1>1. FlowInit => CountInv  BY NoPackets DEF FlowInit, CountInv
<1>2. CountInv => PacketsAreLines  BY DEF CountInv, PacketsAreLines
<1>3. QED  BY <1>1, <1>2, CountStep, FlowTypeCorrect, PTL DEF Spec

-----------------------------------------------------------------------------
(* The logs of both programs *)

\* The packets of block j in the connection.
Places(q, j) == {i \in DOMAIN q : q[i].seq = j}
Queued(q, j) == Cardinality(Places(q, j))

LEMMA Element ==
  ASSUME NEW S, NEW q \in Seq(S), NEW i \in DOMAIN q
  PROVE  q[i] \in S
OBVIOUS

LEMMA NumbersNat ==
  ASSUME TypeOK
  PROVE  /\ \A i \in DOMAIN stream : stream[i].seq \in Nat
         /\ \A i \in DOMAIN sndLog : sndLog[i].count \in Nat
<1>1. \A i \in DOMAIN stream : stream[i] \in Packet  BY Element DEF TypeOK
<1>2. \A i \in DOMAIN sndLog : sndLog[i] \in SentLine  BY Element DEF TypeOK
<1>3. QED  BY <1>1, <1>2 DEF Packet, SentLine

LEMMA PlacesFinite ==
  ASSUME NEW q \in Seq(Packet), NEW j
  PROVE  IsFiniteSet(Places(q, j)) /\ Queued(q, j) \in Nat
<1>1. Places(q, j) \in SUBSET (1 .. Len(q)) /\ Len(q) \in Nat  BY DEF Places
<1>2. IsFiniteSet(1 .. Len(q))  BY <1>1, FS_Interval
<1>3. IsFiniteSet(Places(q, j))  BY <1>1, <1>2, FS_Subset
<1>4. QED  BY <1>3, FS_CardinalityType DEF Queued

LEMMA NoneQueued ==
  ASSUME NEW q, NEW j, \A i \in DOMAIN q : q[i].seq # j
  PROVE  Queued(q, j) = 0
<1>1. Places(q, j) = {}  BY DEF Places
<1>2. QED  BY <1>1, FS_EmptySet DEF Queued

LEMMA QueuedAppend ==
  ASSUME NEW q \in Seq(Packet), NEW x \in Packet, NEW j
  PROVE  Queued(Append(q, x), j) = Queued(q, j) + (IF x.seq = j THEN 1 ELSE 0)
<1> DEFINE n == Len(q) + 1
<1>1. /\ DOMAIN q = 1 .. Len(q) /\ Len(q) \in Nat
      /\ DOMAIN Append(q, x) = 1 .. n /\ Append(q, x)[n] = x
      /\ \A i \in 1 .. Len(q) : Append(q, x)[i] = q[i]
  OBVIOUS
<1>2. Places(Append(q, x), j) = Places(q, j) \union (IF x.seq = j THEN {n} ELSE {})
  BY <1>1 DEF Places
<1>3. n \notin Places(q, j)  BY <1>1 DEF Places
<1>4. IsFiniteSet(Places(q, j)) /\ Queued(q, j) \in Nat  BY PlacesFinite
<1> HIDE DEF n
<1>5. CASE x.seq = j
  BY <1>2, <1>3, <1>4, <1>5, FS_AddElement DEF Queued
<1>6. CASE x.seq # j
  <2>1. Places(Append(q, x), j) = Places(q, j)  BY <1>2, <1>6
  <2>2. QED  BY <1>4, <1>6, <2>1 DEF Queued
<1>7. QED  BY <1>5, <1>6

LEMMA QueuedTail ==
  ASSUME NEW q \in Seq(Packet), q # <<>>, NEW j
  PROVE  Queued(q, j) = Queued(Tail(q), j) + (IF Head(q).seq = j THEN 1 ELSE 0)
<1> DEFINE S == Places(Tail(q), j)
           T == Places(q, j) \ {1}
           F == [i \in S |-> i + 1]
<1>1. /\ DOMAIN q = 1 .. Len(q) /\ Len(q) \in Nat \ {0} /\ Head(q) = q[1]
      /\ DOMAIN Tail(q) = 1 .. Len(q) - 1 /\ Tail(q) \in Seq(Packet)
      /\ \A i \in 1 .. Len(q) - 1 : Tail(q)[i] = q[i + 1]
  OBVIOUS
<1>2. F \in Bijection(S, T)
  <2>1. \A i \in S : i \in 1 .. Len(q) - 1 /\ q[i + 1].seq = j  BY <1>1 DEF Places
  <2>2. F \in [S -> T]  BY <1>1, <2>1 DEF Places
  <2>3. \A a, b \in S : F[a] = F[b] => a = b  BY <2>1
  <2>4. ASSUME NEW t \in T  PROVE \E s \in S : F[s] = t
    <3>1. t \in 2 .. Len(q) /\ q[t].seq = j  BY <1>1, <2>4 DEF Places
    <3>2. t - 1 \in 1 .. Len(q) - 1 /\ Tail(q)[t - 1] = q[t]  BY <1>1, <3>1
    <3>3. t - 1 \in S  BY <1>1, <3>1, <3>2 DEF Places
    <3>4. F[t - 1] = t  BY <3>1, <3>3
    <3>5. QED  BY <3>3, <3>4
  <2>5. QED  BY <2>2, <2>3, <2>4, Fun_IsBij
<1>3. IsFiniteSet(S) /\ Queued(Tail(q), j) \in Nat  BY <1>1, PlacesFinite
<1>4. Cardinality(T) = Queued(Tail(q), j)
  BY <1>2, <1>3, FS_Bijection DEF ExistsBijection, Queued
<1>5. IsFiniteSet(Places(q, j)) /\ Queued(q, j) \in Nat  BY PlacesFinite
<1>6. 1 \in Places(q, j) <=> Head(q).seq = j  BY <1>1 DEF Places
<1>7. Cardinality(T) = IF Head(q).seq = j THEN Queued(q, j) - 1 ELSE Queued(q, j)
  BY <1>5, <1>6, FS_RemoveElement DEF Queued
<1>8. QED  BY <1>3, <1>4, <1>5, <1>7

\* The packets of block j that the sender has handed over, and its time.
Sent(j) ==
  IF j \in DOMAIN sndLog THEN sndLog[j].count
  ELSE IF sndPc = "send" /\ j = blk.seq THEN blk.count - left ELSE 0
TimeOf(j) == IF j \in DOMAIN sndLog THEN sndLog[j].time ELSE blk.time

\* Without an interrupt the child outlives the sender, and every send() succeeds.
Undisturbed ==
  /\ ~skew /\ ~failed /\ sndPc # "killed"
  /\ rcvPc = "done" => sndPc = "done"

\* Blocks are numbered in order, and none is empty.
Numbered ==
  /\ blk.seq = Len(sndLog) + (IF sndPc = "send" THEN 1 ELSE 0)
  /\ sndPc = "send" => left <= blk.count /\ blk.count >= 1
  /\ \A i \in DOMAIN sndLog : sndLog[i].seq = i /\ sndLog[i].count >= 1

\* The connection holds packets of the block that is read and of later ones, in order.
InConnection ==
  /\ \A i \in DOMAIN stream :
       /\ block.seq <= stream[i].seq /\ stream[i].seq <= blk.seq
       /\ stream[i].time = TimeOf(stream[i].seq)
  /\ \A i, k \in DOMAIN stream : i <= k => stream[i].seq <= stream[k].seq

\* The lines of the child are the blocks before the one it reads; of this one, and of
\* those to come, what was sent was counted or is in the connection.
Reading ==
  /\ block.seq >= 1 /\ (block.seq > 1 => block.seq <= blk.seq)
  /\ Len(rcvLog) = block.seq - 1
  /\ \A i \in DOMAIN rcvLog :
       /\ i \in DOMAIN sndLog
       /\ rcvLog[i].seq = i
       /\ rcvLog[i].count = sndLog[i].count
       /\ rcvLog[i].sent = sndLog[i].time
  /\ Sent(block.seq) = block.count + Queued(stream, block.seq)
  /\ \A j \in Nat : j > block.seq => Sent(j) = Queued(stream, j)
  /\ block.count > 0 => block.sent = TimeOf(block.seq)

AgreeInv ==
  ints = 0 =>
    /\ Undisturbed /\ Numbered
    /\ rcvPc = "recv" => InConnection /\ Reading
    /\ rcvPc = "done" => LogsAgree

LEMMA AgreeInit == FlowInit => AgreeInv
<1> SUFFICES ASSUME FlowInit  PROVE AgreeInv
  OBVIOUS
<1>1. PICK s \in JunkTimes, r \in JunkTimes :
        block = [seq |-> 1, count |-> 0, sent |-> s, recv |-> r]
  BY DEF FlowInit
<1>2. block.seq = 1 /\ block.count = 0  BY <1>1
<1>3. DOMAIN sndLog = {} /\ DOMAIN stream = {} /\ DOMAIN rcvLog = {}
      /\ Len(sndLog) = 0 /\ Len(rcvLog) = 0
  BY DEF FlowInit
<1>4. \A j \in Nat : Sent(j) = 0 /\ Queued(stream, j) = 0
  BY <1>3, NoneQueued DEF FlowInit, Sent
<1>5. Undisturbed  BY DEF FlowInit, Undisturbed
<1>6. Numbered  BY <1>3 DEF FlowInit, Numbered
<1>7. InConnection  BY <1>3 DEF InConnection
<1>8. Reading  BY <1>2, <1>3, <1>4 DEF Reading
<1>9. QED  BY <1>5, <1>6, <1>7, <1>8 DEF FlowInit, AgreeInv

\* While the child reads, its lines are those of the sender.
LEMMA ReadingAgrees == TypeOK /\ AgreeInv => LogsAgree
<1> SUFFICES ASSUME TypeOK, AgreeInv, ints = 0, rcvPc = "recv"  PROVE LogsAgree
  BY DEF AgreeInv, TypeOK, LogsAgree, LinesAreBlocks, NoBlockMissing
<1>1. Reading /\ Numbered  BY DEF AgreeInv
<1>2. LinesAreBlocks  BY <1>1 DEF Reading, Numbered, LinesAreBlocks
<1>3. NoBlockMissing  BY DEF NoBlockMissing
<1>4. QED  BY <1>2, <1>3 DEF LogsAgree

\* A step of the sender between blocks, and a step of the clock.
LEMMA AgreeQuiet ==
  ASSUME AgreeInv, ints = 0, UNCHANGED <<blk, sndLog, failed, stream, rcvVars>>,
         \/ UNCHANGED <<sndPc, left>>
         \/ sndPc \notin {"send", "done"} /\ sndPc' \notin {"send", "killed"}
  PROVE  AgreeInv'
<1>1. UNCHANGED <<rcvPc, block, rcvLog, skew, ints>>  BY DEF rcvVars
<1>2. \A j : Sent(j)' = Sent(j) /\ TimeOf(j)' = TimeOf(j)  BY DEF Sent, TimeOf
<1>3. Undisturbed'  BY <1>1 DEF AgreeInv, Undisturbed
<1>4. Numbered'  BY DEF AgreeInv, Numbered
<1>5. InConnection => InConnection'  BY <1>1, <1>2 DEF InConnection
<1>6. Reading => Reading'  BY <1>1, <1>2 DEF Reading
<1>7. LogsAgree => LogsAgree'
  BY <1>1 DEF LogsAgree, LinesAreBlocks, NoBlockMissing, EmptyFlow
<1>8. QED  BY <1>1, <1>3, <1>4, <1>5, <1>6, <1>7 DEF AgreeInv

\* A new block: nothing of it is sent, and nothing of it was read.
LEMMA AgreeNewBlock ==
  ASSUME TypeOK, AgreeInv, ints = 0, sndPc \notin {"send", "done"},
         NEW n \in Nat, n >= 1, NEW p, NEW w, NewBlock(n, p, w),
         UNCHANGED <<sndLog, failed, stream, rcvVars>>
  PROVE  AgreeInv'
<1> USE DEF NewBlock
<1>1. UNCHANGED <<rcvPc, block, rcvLog, skew, ints>> /\ rcvPc = "recv"
  BY DEF rcvVars, AgreeInv, Undisturbed, TypeOK
<1>2. Undisturbed /\ Numbered /\ InConnection /\ Reading  BY <1>1 DEF AgreeInv
<1>3. Len(sndLog) \in Nat /\ DOMAIN sndLog = 1 .. Len(sndLog) /\ blk.seq = Len(sndLog)
  BY <1>2 DEF Numbered, TypeOK
<1>4. /\ blk'.seq = Len(sndLog) + 1 /\ blk'.count = n /\ left' = n /\ sndPc' = "send"
  BY <1>3
<1>5. \A j : Sent(j)' = Sent(j)  BY <1>3, <1>4 DEF Sent
<1>6. \A j \in DOMAIN sndLog : TimeOf(j)' = TimeOf(j)  BY DEF TimeOf
<1>7. Undisturbed'  BY <1>1, <1>2, <1>4 DEF Undisturbed
<1>8. Numbered'  BY <1>2, <1>3, <1>4 DEF Numbered
<1>9. block.seq \in Nat /\ block.count \in Nat /\ Queued(stream, block.seq) \in Nat
  BY PlacesFinite DEF TypeOK, RcvdBlock
<1>10. InConnection'
  <2>1. ASSUME NEW i \in DOMAIN stream
        PROVE  stream[i].seq \in DOMAIN sndLog
    <3>1. stream[i].seq \in Nat  BY <2>1, NumbersNat
    <3>2. QED  BY <1>2, <1>3, <1>9, <2>1, <3>1 DEF InConnection, Reading
  <2>2. ASSUME NEW i \in DOMAIN stream
        PROVE  stream[i].seq \in Nat
    BY <2>2, NumbersNat
  <2>3. QED  BY <1>1, <1>2, <1>3, <1>4, <1>6, <2>1, <2>2 DEF InConnection
<1>11. block.count > 0 => block.seq \in DOMAIN sndLog
  BY <1>2, <1>9 DEF Reading, Sent
<1>12. Reading'
  <2>1. block.seq > 1 => block.seq <= blk'.seq
    BY <1>2, <1>3, <1>4, <1>9 DEF Reading
  <2>2. QED  BY <1>1, <1>2, <1>5, <1>6, <1>11, <2>1 DEF Reading
<1>13. QED  BY <1>1, <1>7, <1>8, <1>10, <1>12 DEF AgreeInv

\* A packet moves from the sender into the connection.
LEMMA AgreePacket == TypeOK /\ AgreeInv /\ ints = 0 /\ SndPacket => AgreeInv'
<1> SUFFICES ASSUME TypeOK, AgreeInv, ints = 0, SndPacket  PROVE AgreeInv'
  OBVIOUS
<1> DEFINE x == [seq |-> blk.seq, time |-> blk.time]
<1>1. /\ UNCHANGED <<rcvPc, block, rcvLog, skew, ints, sndPc, blk, sndLog, failed>>
      /\ sndPc = "send" /\ left > 0 /\ left' = left - 1
  BY DEF SndPacket, rcvVars
<1>2. rcvPc = "recv"  BY <1>1 DEF AgreeInv, Undisturbed, TypeOK
<1>3. Undisturbed /\ Numbered /\ InConnection /\ Reading  BY <1>2 DEF AgreeInv
<1>4. stream' = Append(stream, x)  BY <1>2 DEF SndPacket, Gone
<1>5. /\ blk.seq \in Nat /\ blk.count \in Nat /\ left \in Nat /\ block.seq \in Nat
      /\ block.count \in Nat /\ x \in Packet /\ x.seq = blk.seq /\ x.time = blk.time
      /\ stream \in Seq(Packet)
  BY DEF TypeOK, SentBlock, RcvdBlock, Packet
<1>6. /\ Len(sndLog) \in Nat /\ DOMAIN sndLog = 1 .. Len(sndLog)
      /\ blk.seq = Len(sndLog) + 1 /\ blk.seq \notin DOMAIN sndLog
  BY <1>1, <1>3 DEF Numbered, TypeOK
<1> HIDE DEF x
<1>7. ASSUME NEW j \in Nat
      PROVE  /\ Queued(stream, j) \in Nat
             /\ Queued(stream', j) = Queued(stream, j) + (IF j = blk.seq THEN 1 ELSE 0)
             /\ Sent(j)' = Sent(j) + (IF j = blk.seq THEN 1 ELSE 0)
             /\ TimeOf(j)' = TimeOf(j)
  <2>1. Queued(stream', j) = Queued(stream, j) + (IF j = blk.seq THEN 1 ELSE 0)
    BY <1>4, <1>5, QueuedAppend
  <2>2. CASE j = blk.seq
    <3>1. Sent(j) = blk.count - left /\ Sent(j)' = blk.count - (left - 1)
      BY <1>1, <1>6, <2>2 DEF Sent
    <3>2. QED  BY <1>1, <1>5, <2>1, <2>2, <3>1, PlacesFinite DEF TimeOf
  <2>3. CASE j # blk.seq
    <3>1. Sent(j)' = Sent(j) /\ Sent(j) \in Nat
      <4>1. j \in DOMAIN sndLog => sndLog[j].count \in Nat  BY NumbersNat
      <4>2. QED  BY <1>1, <2>3, <4>1 DEF Sent
    <3>2. QED  BY <1>1, <1>5, <2>1, <2>3, <3>1, PlacesFinite DEF TimeOf
  <2>4. QED  BY <2>2, <2>3
<1>8. Undisturbed'  BY <1>1, <1>3 DEF Undisturbed
<1>9. Numbered'  BY <1>1, <1>3, <1>5 DEF Numbered
<1>10. block.seq <= blk.seq  BY <1>3, <1>5, <1>6 DEF Reading
<1>11. InConnection'
  <2> DEFINE n == Len(stream) + 1
  <2>1. /\ Len(stream) \in Nat /\ DOMAIN stream = 1 .. Len(stream)
        /\ DOMAIN stream' = 1 .. n /\ stream'[n] = x
        /\ \A i \in 1 .. Len(stream) : stream'[i] = stream[i]
    BY <1>4, <1>5
  <2>2. \A i \in DOMAIN stream : stream[i].seq \in Nat  BY NumbersNat
  <2>3. ASSUME NEW i \in 1 .. n
        PROVE  /\ block.seq <= stream'[i].seq /\ stream'[i].seq <= blk.seq
               /\ stream'[i].time = TimeOf(stream[i].seq)'
    <3>1. CASE i = n
      <4>1. TimeOf(stream[i].seq)' = blk.time  BY <1>1, <1>5, <1>6, <2>1, <3>1 DEF TimeOf
      <4>2. QED  BY <1>5, <1>10, <2>1, <3>1, <4>1
    <3>2. CASE i # n
      <4>1. i \in DOMAIN stream /\ stream'[i] = stream[i]  BY <2>1, <2>3, <3>2
      <4>2. TimeOf(stream[i].seq)' = TimeOf(stream[i].seq)  BY <1>1, <4>1 DEF TimeOf
      <4>3. QED  BY <1>3, <2>2, <4>1, <4>2 DEF InConnection
    <3>3. QED  BY <3>1, <3>2
  <2>4. ASSUME NEW i \in 1 .. n, NEW k \in 1 .. n, i <= k
        PROVE  stream'[i].seq <= stream'[k].seq
    <3>1. CASE k = n  BY <1>5, <2>1, <2>3, <3>1
    <3>2. CASE k # n
      <4>1. i \in DOMAIN stream /\ k \in DOMAIN stream
            /\ stream'[i] = stream[i] /\ stream'[k] = stream[k]
        BY <2>1, <2>4, <3>2
      <4>2. QED  BY <1>3, <2>4, <4>1 DEF InConnection
    <3>3. QED  BY <3>1, <3>2
  <2>5. QED  BY <1>1, <2>1, <2>3, <2>4 DEF InConnection
<1>12. Reading'
  <2>1. Sent(block.seq)' = block.count + Queued(stream', block.seq)
    <3>1. Sent(block.seq) = block.count + Queued(stream, block.seq)  BY <1>3 DEF Reading
    <3>2. QED  BY <1>1, <1>5, <1>7, <3>1
  <2>2. ASSUME NEW j \in Nat, j > block.seq  PROVE Sent(j)' = Queued(stream', j)
    BY <1>3, <1>7, <2>2 DEF Reading
  <2>3. QED  BY <1>1, <1>3, <1>5, <1>7, <2>1, <2>2 DEF Reading
<1>13. QED  BY <1>1, <1>2, <1>8, <1>9, <1>11, <1>12 DEF AgreeInv

\* The sender logs a block that is all in the connection.
LEMMA AgreeSent == TypeOK /\ AgreeInv /\ ints = 0 /\ SndSent => AgreeInv'
<1> SUFFICES ASSUME TypeOK, AgreeInv, ints = 0, SndSent  PROVE AgreeInv'
  OBVIOUS
<1> DEFINE line == [seq |-> blk.seq, count |-> blk.count, time |-> blk.time]
<1>1. /\ UNCHANGED <<rcvPc, block, rcvLog, skew, ints, blk, failed, stream, left>>
      /\ sndPc = "send" /\ left = 0 /\ sndLog' = Append(sndLog, line)
      /\ sndPc' \in {"sleep", "block", "close"}
  BY DEF SndSent, AfterSend, rcvVars
<1>2. rcvPc = "recv"  BY <1>1 DEF AgreeInv, Undisturbed, TypeOK
<1>3. Undisturbed /\ Numbered /\ InConnection /\ Reading  BY <1>2 DEF AgreeInv
<1>4. /\ blk.seq \in Nat /\ blk.count \in Nat /\ line \in SentLine
      /\ line.seq = blk.seq /\ line.count = blk.count /\ line.time = blk.time
  BY DEF TypeOK, SentBlock, SentLine
<1> HIDE DEF line
<1>5. /\ Len(sndLog) \in Nat /\ DOMAIN sndLog = 1 .. Len(sndLog)
      /\ blk.seq = Len(sndLog) + 1 /\ blk.seq \notin DOMAIN sndLog
  BY <1>1, <1>3 DEF Numbered, TypeOK
<1>6. /\ DOMAIN sndLog' = DOMAIN sndLog \union {blk.seq} /\ Len(sndLog') = blk.seq
      /\ sndLog'[blk.seq] = line /\ \A i \in DOMAIN sndLog : sndLog'[i] = sndLog[i]
  BY <1>1, <1>4, <1>5 DEF TypeOK
<1>7. \A j : Sent(j)' = Sent(j) /\ TimeOf(j)' = TimeOf(j)
  BY <1>1, <1>4, <1>5, <1>6 DEF Sent, TimeOf
<1>8. Undisturbed'  BY <1>1, <1>3 DEF Undisturbed
<1>9. Numbered'  BY <1>1, <1>3, <1>4, <1>5, <1>6 DEF Numbered
<1>10. InConnection'  BY <1>1, <1>3, <1>7 DEF InConnection
<1>11. Reading'  BY <1>1, <1>3, <1>6, <1>7 DEF Reading
<1>12. QED  BY <1>1, <1>2, <1>8, <1>9, <1>10, <1>11 DEF AgreeInv

\* A packet of the block that is read is counted; a packet of a later block is of the
\* next one, and all of the block before was read.
LEMMA AgreeRead == TypeOK /\ AgreeInv /\ ints = 0 /\ RcvPacket => AgreeInv'
<1> SUFFICES ASSUME TypeOK, AgreeInv, ints = 0, RcvPacket  PROVE AgreeInv'
  OBVIOUS
<1> DEFINE s == Head(stream).seq
           t == Head(stream).time
           k == block.seq
           now == Timeval(clock)
<1>1. /\ UNCHANGED <<sndPc, blk, left, sndLog, failed, rcvPc, skew, ints>>
      /\ rcvPc = "recv" /\ stream # <<>> /\ stream' = Tail(stream) /\ LogPacket(s, t)
  BY DEF RcvPacket, sndVars
<1>2. Undisturbed /\ Numbered /\ InConnection /\ Reading  BY <1>1 DEF AgreeInv
<1>3. /\ DOMAIN stream = 1 .. Len(stream) /\ Len(stream) \in Nat \ {0}
      /\ Head(stream) = stream[1] /\ 1 \in DOMAIN stream
      /\ DOMAIN stream' = 1 .. Len(stream) - 1
      /\ \A i \in DOMAIN stream' : stream'[i] = stream[i + 1] /\ i + 1 \in DOMAIN stream
  BY <1>1 DEF TypeOK
<1>4. /\ s \in Nat /\ k \in Nat /\ block.count \in Nat /\ blk.seq \in Nat
      /\ \A i \in DOMAIN stream : stream[i].seq \in Nat
  BY <1>3, NumbersNat DEF TypeOK, RcvdBlock, SentBlock
<1>5. k <= s /\ s <= blk.seq /\ t = TimeOf(s)  BY <1>2, <1>3 DEF InConnection
<1>6. \A i \in DOMAIN stream : s <= stream[i].seq  BY <1>2, <1>3 DEF InConnection
<1>7. /\ Len(sndLog) \in Nat /\ DOMAIN sndLog = 1 .. Len(sndLog)
      /\ blk.seq <= Len(sndLog) + 1
  BY <1>2, <1>4 DEF Numbered, TypeOK
<1>8. /\ Sent(k) = block.count + Queued(stream, k)
      /\ \A j \in Nat : j > k => Sent(j) = Queued(stream, j)
      /\ k >= 1 /\ Len(rcvLog) = k - 1
      /\ block.count > 0 => block.sent = TimeOf(k)
  BY <1>2 DEF Reading
<1> HIDE DEF s, t, k, now
<1>9. \A j : Sent(j)' = Sent(j) /\ TimeOf(j)' = TimeOf(j)  BY <1>1 DEF Sent, TimeOf
<1>10. ASSUME NEW j \in Nat
       PROVE  /\ Queued(stream, j) \in Nat /\ Queued(stream', j) \in Nat
              /\ Queued(stream, j) = Queued(stream', j) + (IF s = j THEN 1 ELSE 0)
              /\ j < s => Queued(stream, j) = 0
  <2>1. stream \in Seq(Packet) /\ stream' \in Seq(Packet)
    BY <1>1, SequenceTypes DEF TypeOK
  <2>2. Queued(stream, j) = Queued(stream', j) + (IF s = j THEN 1 ELSE 0)
    BY <1>1, <2>1, QueuedTail DEF s
  <2>3. j < s => Queued(stream, j) = 0
    BY <1>4, <1>6, NoneQueued
  <2>4. QED  BY <2>1, <2>2, <2>3, PlacesFinite
<1>11. Undisturbed'  BY <1>1, <1>2 DEF Undisturbed
<1>12. Numbered'  BY <1>1, <1>2 DEF Numbered
<1>13. ASSUME block'.seq = s  PROVE InConnection'
  <2>1. ASSUME NEW i \in DOMAIN stream'
        PROVE  /\ s <= stream'[i].seq /\ stream'[i].seq <= blk.seq
               /\ stream'[i].time = TimeOf(stream[i].seq)'
    <3>1. stream'[i] = stream[i + 1] /\ i + 1 \in DOMAIN stream  BY <1>3, <2>1
    <3>2. stream[i + 1].time = TimeOf(stream[i + 1].seq)  BY <1>2, <3>1 DEF InConnection
    <3>3. TimeOf(stream[i].seq)' = TimeOf(stream[i + 1].seq)  BY <1>1, <3>1 DEF TimeOf
    <3>4. QED  BY <1>2, <1>6, <3>1, <3>2, <3>3 DEF InConnection
  <2>2. ASSUME NEW i \in DOMAIN stream', NEW n \in DOMAIN stream', i <= n
        PROVE  stream'[i].seq <= stream'[n].seq
    <3>1. i \in Nat /\ n \in Nat /\ i + 1 <= n + 1  BY <1>3, <2>2
    <3>2. QED  BY <1>2, <1>3, <2>2, <3>1 DEF InConnection
  <2>3. QED  BY <1>1, <1>13, <2>1, <2>2 DEF InConnection
<1>14. CASE s > k
  <2>1. /\ rcvLog' = Append(rcvLog, Line(now))
        /\ block' = [seq |-> s, count |-> 1, sent |-> t, recv |-> now]
    BY <1>1, <1>14 DEF LogPacket, k, now
  <2>2. block'.seq = s /\ block'.count = 1 /\ block'.sent = t  BY <2>1
  <2>3. Sent(k) = block.count
    <3>1. Queued(stream, k) = 0  BY <1>4, <1>10, <1>14
    <3>2. QED  BY <1>4, <1>8, <3>1
  <2>4. s = k + 1
    <3>1. SUFFICES ASSUME k + 1 < s  PROVE FALSE
      BY <1>4, <1>14
    <3>2. Sent(k + 1) = 0
      <4>1. k + 1 \in Nat /\ k + 1 > k  BY <1>4
      <4>2. Queued(stream, k + 1) = 0  BY <1>10, <3>1, <4>1
      <4>3. QED  BY <1>8, <4>1, <4>2
    <3>3. k + 1 \in DOMAIN sndLog  BY <1>4, <1>5, <1>7, <3>1
    <3>4. QED  BY <1>2, <3>2, <3>3 DEF Sent, Numbered
  <2>5. k \in DOMAIN sndLog
    BY <1>4, <1>5, <1>7, <1>8, <2>4
  <2>6. block.count = sndLog[k].count /\ block.sent = sndLog[k].time
    <3>1. block.count = sndLog[k].count /\ sndLog[k].count >= 1
      BY <1>2, <2>3, <2>5 DEF Sent, Numbered
    <3>2. QED  BY <1>4, <1>8, <2>5, <3>1 DEF TimeOf
  <2>7. /\ Len(rcvLog) = k - 1 /\ DOMAIN rcvLog = 1 .. k - 1
        /\ Len(rcvLog') = k /\ DOMAIN rcvLog' = 1 .. k
        /\ rcvLog'[k] = Line(now) /\ \A i \in 1 .. k - 1 : rcvLog'[i] = rcvLog[i]
    <3>1. Line(now) \in RcvdLine /\ rcvLog \in Seq(RcvdLine)
      BY Constants, TimevalType, LineType DEF TypeOK, now
    <3>2. QED  BY <1>4, <1>8, <2>1, <3>1
  <2>8. /\ Line(now).seq = k /\ Line(now).count = sndLog[k].count
        /\ Line(now).sent = sndLog[k].time
    BY <2>6 DEF Line, k
  <2>9. ASSUME NEW i \in DOMAIN rcvLog'
        PROVE  /\ i \in DOMAIN sndLog
               /\ rcvLog'[i].seq = i
               /\ rcvLog'[i].count = sndLog[i].count
               /\ rcvLog'[i].sent = sndLog[i].time
    <3>1. CASE i = k  BY <2>5, <2>7, <2>8, <3>1
    <3>2. CASE i # k
      <4>1. i \in DOMAIN rcvLog /\ rcvLog'[i] = rcvLog[i]  BY <1>4, <2>7, <2>9, <3>2
      <4>2. QED  BY <1>2, <4>1 DEF Reading
    <3>3. QED  BY <3>1, <3>2
  <2>10. Sent(s) = 1 + Queued(stream', s)
    <3>1. Sent(s) = Queued(stream, s)  BY <1>4, <1>14, <1>8
    <3>2. /\ Queued(stream', s) \in Nat
          /\ Queued(stream, s) = Queued(stream', s) + 1
      BY <1>4, <1>10
    <3>3. QED  BY <3>1, <3>2
  <2>11. ASSUME NEW j \in Nat, j > s  PROVE Sent(j) = Queued(stream', j)
    <3>1. j > k /\ s # j  BY <1>4, <1>14, <2>11
    <3>2. Sent(j) = Queued(stream, j)  BY <1>8, <3>1
    <3>3. /\ Queued(stream', j) \in Nat
          /\ Queued(stream, j) = Queued(stream', j) + 0
      BY <1>10, <3>1
    <3>4. QED  BY <3>2, <3>3
  <2>12. Sent(block.seq)' = Sent(s) /\ TimeOf(block.seq)' = TimeOf(s)
    BY <1>1, <2>2 DEF Sent, TimeOf
  <2>13. Reading'
    BY <1>1, <1>4, <1>5, <1>9, <2>2, <2>4, <2>7, <2>9, <2>10, <2>11, <2>12 DEF Reading
  <2>14. QED  BY <1>1, <1>11, <1>12, <1>13, <2>2, <2>13 DEF AgreeInv
<1>15. CASE s = k
  <2>1. /\ rcvLog' = rcvLog
        /\ block' = [block EXCEPT !.count = @ + 1, !.sent = t, !.recv = now]
    BY <1>1, <1>4, <1>15 DEF LogPacket, k, now
  <2>2. block'.seq = k /\ block'.count = block.count + 1 /\ block'.sent = t
    BY <2>1 DEF TypeOK, RcvdBlock, k
  <2>3. Sent(k) = block'.count + Queued(stream', k)
    <3>1. /\ Queued(stream', k) \in Nat
          /\ Queued(stream, k) = Queued(stream', k) + 1
      BY <1>4, <1>10, <1>15
    <3>2. QED  BY <1>4, <1>8, <2>2, <3>1
  <2>4. ASSUME NEW j \in Nat, j > k  PROVE Sent(j) = Queued(stream', j)
    <3>1. s # j  BY <1>4, <1>15, <2>4
    <3>2. /\ Queued(stream', j) \in Nat
          /\ Queued(stream, j) = Queued(stream', j) + 0
      BY <1>10, <3>1
    <3>3. QED  BY <1>8, <2>4, <3>2
  <2>5. Sent(block.seq)' = Sent(k) /\ TimeOf(block.seq)' = TimeOf(k)
    BY <1>1, <2>2 DEF Sent, TimeOf
  <2>6. k >= 1 /\ (k > 1 => k <= blk.seq) /\ Len(rcvLog) = k - 1
    BY <1>2 DEF Reading, k
  <2>7. \A i \in DOMAIN rcvLog :
          /\ i \in DOMAIN sndLog
          /\ rcvLog[i].seq = i
          /\ rcvLog[i].count = sndLog[i].count
          /\ rcvLog[i].sent = sndLog[i].time
    BY <1>2 DEF Reading
  <2>8. Reading'
    BY <1>1, <1>5, <1>9, <1>15, <2>1, <2>2, <2>3, <2>4, <2>5, <2>6, <2>7 DEF Reading
  <2>9. QED  BY <1>1, <1>11, <1>12, <1>13, <1>15, <2>2, <2>8 DEF AgreeInv
<1>16. QED  BY <1>4, <1>5, <1>14, <1>15

\* At the end of the connection all of it was read, and the last line is that of the
\* sender's last block; without a block it is the line of the empty flow.
LEMMA AgreeEof == TypeOK /\ AgreeInv /\ ints = 0 /\ RcvEof => AgreeInv'
<1> SUFFICES ASSUME TypeOK, AgreeInv, ints = 0, RcvEof  PROVE AgreeInv'
  OBVIOUS
<1> DEFINE k == block.seq
           n == Len(sndLog)
           last == Line(block.recv)
<1>1. /\ UNCHANGED <<sndPc, blk, left, sndLog, failed, block, skew, ints>>
      /\ rcvPc = "recv" /\ rcvPc' = "done" /\ stream = <<>>
      /\ rcvLog' = Append(rcvLog, last)
  BY DEF RcvEof, RcvFinish, sndVars
<1>2. Undisturbed /\ Numbered /\ Reading  BY <1>1 DEF AgreeInv
<1>3. sndPc = "done"  BY <1>2 DEF RcvEof, Closed, Undisturbed
<1>4. /\ k \in Nat /\ n \in Nat /\ DOMAIN sndLog = 1 .. n /\ blk.seq = n
      /\ block.count \in Nat /\ block.recv \in Time
  BY <1>2, <1>3 DEF Numbered, TypeOK, RcvdBlock
<1>5. \A j : Queued(stream, j) = 0  BY <1>1, NoneQueued
<1>6. /\ Sent(k) = block.count /\ \A j \in Nat : j > k => Sent(j) = 0
      /\ k >= 1 /\ (k > 1 => k <= blk.seq) /\ Len(rcvLog) = k - 1
      /\ block.count > 0 => block.sent = TimeOf(k)
  <2>1. Sent(k) = block.count + Queued(stream, k)  BY <1>2 DEF Reading
  <2>2. \A j \in Nat : j > k => Sent(j) = Queued(stream, j)  BY <1>2 DEF Reading
  <2>3. Sent(k) = block.count  BY <1>4, <1>5, <2>1
  <2>4. QED  BY <1>2, <1>5, <2>2, <2>3 DEF Reading
<1>7. last.seq = k /\ last.count = block.count /\ last.sent = block.sent
  BY DEF Line
<1>8. /\ Len(rcvLog') = k /\ DOMAIN rcvLog = 1 .. k - 1 /\ DOMAIN rcvLog' = 1 .. k
      /\ rcvLog'[k] = last /\ \A i \in 1 .. k - 1 : rcvLog'[i] = rcvLog[i]
  <2>1. last \in RcvdLine /\ rcvLog \in Seq(RcvdLine)  BY <1>4, LineType DEF TypeOK
  <2> HIDE DEF last, k
  <2>2. QED  BY <1>1, <1>4, <1>6, <2>1
<1> HIDE DEF k, n, last
<1>9. Undisturbed' /\ Numbered'  BY <1>1, <1>2, <1>3 DEF Undisturbed, Numbered
<1>10. CASE n = 0
  <2>1. k = 1  BY <1>4, <1>6, <1>10
  <2>2. block.count = 0  BY <1>3, <1>4, <1>6, <1>10, <2>1 DEF Sent
  <2>3. sndLog' = <<>>  BY <1>1, <1>10 DEF TypeOK, n
  <2>4. EmptyFlow'  BY <1>7, <1>8, <2>1, <2>2, <2>3 DEF EmptyFlow
  <2>5. NoBlockMissing'  BY <1>8, <2>1, <2>3 DEF NoBlockMissing
  <2>6. QED  BY <1>1, <1>9, <2>4, <2>5 DEF AgreeInv, LogsAgree, LinesAreBlocks
<1>11. CASE n > 0
  <2>1. k = n
    <3>1. k <= n  BY <1>4, <1>6, <1>11
    <3>2. ASSUME k < n  PROVE FALSE
      <4>1. k + 1 \in DOMAIN sndLog /\ k + 1 \in Nat /\ k + 1 > k  BY <1>4, <3>2
      <4>2. sndLog[k + 1].count >= 1 /\ Sent(k + 1) = sndLog[k + 1].count
        BY <1>2, <4>1 DEF Numbered, Sent
      <4>3. Sent(k + 1) = 0  BY <1>6, <4>1
      <4>4. QED  BY <4>2, <4>3
    <3>3. QED  BY <1>4, <3>1, <3>2
  <2>2. k \in DOMAIN sndLog  BY <1>4, <1>6, <2>1
  <2>3. /\ block.count = sndLog[k].count /\ sndLog[k].count >= 1 /\ sndLog[k].seq = k
        /\ block.sent = sndLog[k].time
    <3>1. block.count = sndLog[k].count /\ sndLog[k].count >= 1 /\ sndLog[k].seq = k
      BY <1>2, <1>6, <2>2 DEF Sent, Numbered
    <3>2. QED  BY <1>4, <1>6, <2>2, <3>1 DEF TimeOf
  <2>4. ASSUME NEW i \in DOMAIN rcvLog'
        PROVE  /\ i \in DOMAIN sndLog
               /\ rcvLog'[i].seq = sndLog[i].seq
               /\ rcvLog'[i].count = sndLog[i].count
               /\ rcvLog'[i].sent = sndLog[i].time
    <3>1. CASE i = k  BY <1>7, <1>8, <2>2, <2>3, <3>1
    <3>2. CASE i # k
      <4>1. i \in DOMAIN rcvLog /\ rcvLog'[i] = rcvLog[i]  BY <1>4, <1>8, <2>4, <3>2
      <4>2. QED  BY <1>2, <4>1 DEF Reading, Numbered
    <3>3. QED  BY <3>1, <3>2
  <2>5. LinesAreBlocks'  BY <1>1, <2>4 DEF LinesAreBlocks
  <2>6. Len(rcvLog') >= Len(sndLog')
    <3>1. Len(sndLog') = n  BY <1>1 DEF n
    <3>2. QED  BY <1>4, <1>8, <2>1, <3>1
  <2>7. NoBlockMissing'  BY <2>6 DEF NoBlockMissing
  <2>8. QED  BY <1>1, <1>9, <2>5, <2>7 DEF AgreeInv, LogsAgree
<1>12. QED  BY <1>4, <1>10, <1>11

LEMMA AgreeStep == TypeOK /\ AgreeInv /\ [Next]_vars => AgreeInv'
<1> SUFFICES ASSUME TypeOK, AgreeInv, [Next]_vars, ints' = 0  PROVE AgreeInv'
  BY DEF AgreeInv
<1>1. ints = 0 /\ ~RcvShort /\ ~RcvEintr
  <2>1. ints \in Nat  BY DEF TypeOK
  <2>2. CASE RcvShort \/ RcvEintr  BY <2>1, <2>2 DEF RcvShort, RcvEintr
  <2>3. CASE ~RcvShort /\ ~RcvEintr
    BY <2>3 DEF Next, Tick, SenderNext, SndStart, SndBlock, SndLine, SndEof, SndPacket,
                SndSent, SndFail, SndKilled, SndWake, SndClose, ReceiverNext, RcvPacket,
                RcvSkewed, RcvEof, Stopped, vars, rcvVars
  <2>4. QED  BY <2>2, <2>3
<1>2. Undisturbed  BY <1>1 DEF AgreeInv
<1>3. ~RcvSkewed  BY <1>2 DEF RcvSkewed, Undisturbed
<1>4. ~SndFail /\ ~SndKilled  BY <1>2 DEF SndFail, SndKilled, Gone, Undisturbed
<1>5. CASE SndBlock
  <2>1. BlkSize \in Nat /\ BlkSize >= 1  BY FlowAssumption
  <2>2. QED  BY <1>1, <1>5, <2>1, AgreeNewBlock DEF SndBlock
<1>6. CASE SndLine
  <2>1. trace.count + 1 \in Nat /\ trace.count + 1 >= 1  BY DEF TypeOK, TraceState
  <2>2. PICK m \in Micros, p \in BOOLEAN :
          \/ NewBlock(trace.count + 1, trace.probe, Pause(m))
          \/ UNCHANGED <<blk, left, sndPc>>
    BY <1>6 DEF SndLine
  <2>3. CASE NewBlock(trace.count + 1, trace.probe, Pause(m))
    BY <1>1, <1>6, <2>1, <2>3, AgreeNewBlock DEF SndLine
  <2>4. CASE UNCHANGED <<blk, left, sndPc>>
    BY <1>1, <1>6, <2>4, AgreeQuiet DEF SndLine
  <2>5. QED  BY <2>2, <2>3, <2>4
<1>7. CASE SndStart
  <2>1. sndPc' \in {"block", "read", "close"}  BY <1>7 DEF SndStart
  <2>2. QED  BY <1>1, <1>7, <2>1, AgreeQuiet DEF SndStart
<1>8. CASE SndEof  BY <1>1, <1>8, AgreeQuiet DEF SndEof
<1>9. CASE SndWake  BY <1>1, <1>9, AgreeQuiet DEF SndWake
<1>10. CASE SndClose  BY <1>1, <1>10, AgreeQuiet DEF SndClose
<1>11. CASE Tick  BY <1>1, <1>11, AgreeQuiet DEF Tick, sndVars
<1>12. CASE Stopped \/ UNCHANGED vars
  BY <1>1, <1>12, AgreeQuiet DEF Stopped, vars, sndVars
<1>13. QED
  BY <1>1, <1>3, <1>4, <1>5, <1>6, <1>7, <1>8, <1>9, <1>10, <1>11, <1>12,
     AgreePacket, AgreeSent, AgreeRead, AgreeEof
  DEF Next, SenderNext, ReceiverNext

\* Unless the child is interrupted, its log is a part of the sender's, line by line,
\* and all of it at the end: for every way of sending and every order of the steps.
THEOREM LogsMatch == Spec => []LogsAgree
<1>1. QED  BY AgreeInit, AgreeStep, ReadingAgrees, FlowTypeCorrect, PTL DEF Spec

-----------------------------------------------------------------------------
(* The delays of the receiver's log *)

\* A time of gettimeofday, not what memory held before.
Normal(t) == t.usec \in 0 .. UsecPerSec - 1

\* The sender's times are of the clock, and so is the time of receipt of every block
\* that has a packet.
DelayInv ==
  /\ Normal(blk.time)
  /\ \A i \in DOMAIN sndLog : Normal(sndLog[i].time)
  /\ block.count > 0 => Normal(block.recv)
  /\ \A i \in DOMAIN rcvLog :
       /\ rcvLog[i].delay = TimevalSubtract(rcvLog[i].recv, rcvLog[i].sent)
       /\ rcvLog[i].count > 0 => Normal(rcvLog[i].recv)

LEMMA AppendElements ==
  ASSUME NEW S, NEW q \in Seq(S), NEW x \in S, NEW i \in DOMAIN Append(q, x)
  PROVE  (i \in DOMAIN q /\ Append(q, x)[i] = q[i]) \/ Append(q, x)[i] = x
OBVIOUS

LEMMA ClockNormal == TypeOK => Normal(Timeval(clock)) /\ Timeval(clock) \in Time
BY Constants, TimevalType DEF TypeOK, Normal

\* A new line keeps the part of the invariant about lines.
LEMMA DelayLine ==
  ASSUME TypeOK, DelayInv, NEW t \in Time, block.count > 0 => Normal(t),
         rcvLog' = Append(rcvLog, Line(t))
  PROVE  \A i \in DOMAIN rcvLog' :
           /\ rcvLog'[i].delay = TimevalSubtract(rcvLog'[i].recv, rcvLog'[i].sent)
           /\ rcvLog'[i].count > 0 => Normal(rcvLog'[i].recv)
<1>1. Line(t) \in RcvdLine  BY LineType DEF TypeOK
<1>2. \A i \in DOMAIN rcvLog' :
        (i \in DOMAIN rcvLog /\ rcvLog'[i] = rcvLog[i]) \/ rcvLog'[i] = Line(t)
  BY <1>1, AppendElements DEF TypeOK
<1>3. /\ Line(t).delay = TimevalSubtract(Line(t).recv, Line(t).sent)
      /\ Line(t).count = block.count /\ Line(t).recv = t
  BY DEF Line
<1>4. QED  BY <1>2, <1>3 DEF DelayInv

LEMMA DelayInit == FlowInit => DelayInv
<1> SUFFICES ASSUME FlowInit  PROVE DelayInv
  OBVIOUS
<1>1. Normal(blk.time)  BY TimevalType DEF FlowInit, Normal
<1>2. PICK s \in JunkTimes, r \in JunkTimes :
        block = [seq |-> 1, count |-> 0, sent |-> s, recv |-> r]
  BY DEF FlowInit
<1>3. block.count = 0  BY <1>2
<1>4. QED  BY <1>1, <1>3 DEF FlowInit, DelayInv

LEMMA DelaySenderStep == TypeOK /\ DelayInv /\ SenderNext => DelayInv'
<1> SUFFICES ASSUME TypeOK, DelayInv, SenderNext  PROVE DelayInv'
  OBVIOUS
<1>1. UNCHANGED <<block, rcvLog>>
  BY DEF SenderNext, SndStart, SndBlock, SndLine, SndEof, SndPacket, SndSent, SndFail,
         SndKilled, SndWake, SndClose, rcvVars
<1>2. blk' = blk \/ blk'.time = Timeval(clock)
  BY DEF SenderNext, SndStart, SndBlock, SndLine, SndEof, SndPacket, SndSent, SndFail,
         SndKilled, SndWake, SndClose, NewBlock
<1>3. Normal(blk'.time)  BY <1>2, ClockNormal DEF DelayInv
<1>4. \A i \in DOMAIN sndLog' : Normal(sndLog'[i].time)
  <2>1. CASE SndSent
    <3> DEFINE line == [seq |-> blk.seq, count |-> blk.count, time |-> blk.time]
    <3>1. line \in SentLine /\ line.time = blk.time  BY DEF TypeOK, SentBlock, SentLine
    <3>2. sndLog' = Append(sndLog, line)  BY <2>1 DEF SndSent
    <3> HIDE DEF line
    <3>3. \A i \in DOMAIN sndLog' :
            (i \in DOMAIN sndLog /\ sndLog'[i] = sndLog[i]) \/ sndLog'[i] = line
      BY <3>1, <3>2, AppendElements DEF TypeOK
    <3>4. QED  BY <3>1, <3>3 DEF DelayInv
  <2>2. CASE ~SndSent
    <3>1. sndLog' = sndLog
      BY <2>2 DEF SenderNext, SndStart, SndBlock, SndLine, SndEof, SndPacket, SndFail,
                  SndKilled, SndWake, SndClose
    <3>2. QED  BY <3>1 DEF DelayInv
  <2>3. QED  BY <2>1, <2>2
<1>5. QED  BY <1>1, <1>3, <1>4 DEF DelayInv

LEMMA DelayReceiverStep == TypeOK /\ DelayInv /\ ReceiverNext => DelayInv'
<1> SUFFICES ASSUME TypeOK, DelayInv, ReceiverNext  PROVE DelayInv'
  OBVIOUS
<1>1. UNCHANGED <<blk, sndLog>>
  BY DEF ReceiverNext, RcvPacket, RcvSkewed, RcvEof, RcvShort, RcvEintr, sndVars
<1>2. \/ \E s, t : LogPacket(s, t)
      \/ RcvFinish /\ block' = block
  BY DEF ReceiverNext, RcvPacket, RcvSkewed, RcvEof, RcvShort, RcvEintr
<1>3. Normal(Timeval(clock)) /\ Timeval(clock) \in Time  BY ClockNormal
<1>4. CASE \E s, t : LogPacket(s, t)
  <2>1. block'.recv = Timeval(clock)
    <3> DEFINE now == Timeval(clock)
    <3>1. PICK s, t : \/ block' = [seq |-> s, count |-> 1, sent |-> t, recv |-> now]
                      \/ block' = [block EXCEPT !.count = @ + 1, !.sent = t, !.recv = now]
      BY <1>4 DEF LogPacket
    <3> HIDE DEF now
    <3>2. CASE block' = [seq |-> s, count |-> 1, sent |-> t, recv |-> now]  BY <3>2 DEF now
    <3>3. CASE block' = [block EXCEPT !.count = @ + 1, !.sent = t, !.recv = now]
      <4>1. block'.recv = now  BY <3>3 DEF TypeOK, RcvdBlock
      <4>2. QED  BY <4>1 DEF now
    <3>4. QED  BY <3>1, <3>2, <3>3
  <2>2. \A i \in DOMAIN rcvLog' :
          /\ rcvLog'[i].delay = TimevalSubtract(rcvLog'[i].recv, rcvLog'[i].sent)
          /\ rcvLog'[i].count > 0 => Normal(rcvLog'[i].recv)
    <3>1. rcvLog' = rcvLog \/ rcvLog' = Append(rcvLog, Line(Timeval(clock)))
      BY <1>4 DEF LogPacket
    <3>2. CASE rcvLog' = rcvLog  BY <3>2 DEF DelayInv
    <3>3. CASE rcvLog' = Append(rcvLog, Line(Timeval(clock)))  BY <1>3, <3>3, DelayLine
    <3>4. QED  BY <3>1, <3>2, <3>3
  <2>3. QED  BY <1>1, <1>3, <2>1, <2>2 DEF DelayInv
<1>5. CASE RcvFinish /\ block' = block
  <2>1. block.recv \in Time /\ (block.count > 0 => Normal(block.recv))
    BY DEF TypeOK, RcvdBlock, DelayInv
  <2>2. rcvLog' = Append(rcvLog, Line(block.recv))  BY <1>5 DEF RcvFinish
  <2>3. \A i \in DOMAIN rcvLog' :
          /\ rcvLog'[i].delay = TimevalSubtract(rcvLog'[i].recv, rcvLog'[i].sent)
          /\ rcvLog'[i].count > 0 => Normal(rcvLog'[i].recv)
    BY <2>1, <2>2, DelayLine
  <2>4. QED  BY <1>1, <1>5, <2>3 DEF DelayInv
<1>6. QED  BY <1>2, <1>4, <1>5

\* No block of the sender's log is empty, so each line of an undisturbed flow has
\* times of the clock.
LEMMA InvGivesDelays == TypeOK /\ AgreeInv /\ LogsAgree /\ DelayInv => DelayIsDifference
<1> SUFFICES ASSUME TypeOK, AgreeInv, LogsAgree, DelayInv, NEW i \in DOMAIN rcvLog
    PROVE  /\ Near(rcvLog[i].recv, rcvLog[i].sent) =>
                /\ rcvLog[i].delay.usec \in 0 .. UsecPerSec
                /\ Usecs(rcvLog[i].delay) = Usecs(rcvLog[i].recv) - Usecs(rcvLog[i].sent)
           /\ ints = 0 /\ ~EmptyFlow =>
                Near(rcvLog[i].recv, rcvLog[i].sent) /\ rcvLog[i].delay.usec < UsecPerSec
  BY DEF DelayIsDifference
<1> DEFINE x == rcvLog[i].recv
           y == rcvLog[i].sent
<1>1. rcvLog[i] \in RcvdLine  BY Element DEF TypeOK
<1>2. x \in Time /\ y \in Time  BY <1>1 DEF RcvdLine
<1>3. rcvLog[i].delay = TimevalSubtract(x, y)  BY DEF DelayInv
<1>4. ASSUME ints = 0, ~EmptyFlow
      PROVE  Near(x, y) /\ x.usec - y.usec \in 1 - UsecPerSec .. UsecPerSec - 1
  <2>1. i \in DOMAIN sndLog /\ rcvLog[i].count = sndLog[i].count /\ y = sndLog[i].time
    BY <1>4 DEF LogsAgree, LinesAreBlocks
  <2>2. sndLog[i].count > 0
    <3>1. sndLog[i].count >= 1 /\ sndLog[i].count \in Nat
      BY <1>4, <2>1, NumbersNat DEF AgreeInv, Numbered
    <3>2. QED  BY <3>1
  <2>3. Normal(x) /\ Normal(y)  BY <2>1, <2>2 DEF DelayInv
  <2> HIDE DEF x, y
  <2>4. QED  BY <2>3, FlowAssumption DEF Normal, Near
<1> HIDE DEF x, y
<1>5. QED  BY <1>2, <1>3, <1>4, SubtractIsDifference DEF x, y

\* Every delay that the receiver logs is the difference of the two times in its line, as
\* far as the carries fit an int, also if memory that was not initialised was taken for
\* a time; in the log of a flow that was neither empty nor interrupted they always fit,
\* and the microseconds are less than a second.
THEOREM DelaysRight == Spec => []DelayIsDifference
<1>1. TypeOK /\ DelayInv /\ [Next]_vars => DelayInv'
  <2> SUFFICES ASSUME TypeOK, DelayInv, [Next]_vars  PROVE DelayInv'
    OBVIOUS
  <2>1. CASE Tick \/ Stopped \/ UNCHANGED vars
    BY <2>1 DEF Tick, Stopped, vars, sndVars, rcvVars, DelayInv
  <2>2. QED  BY <2>1, DelaySenderStep, DelayReceiverStep DEF Next
<1>2. Spec => []DelayInv  BY <1>1, DelayInit, FlowTypeCorrect, PTL DEF Spec
<1>3. Spec => []AgreeInv  BY AgreeInit, AgreeStep, FlowTypeCorrect, PTL DEF Spec
<1>4. QED  BY <1>2, <1>3, InvGivesDelays, LogsMatch, FlowTypeCorrect, PTL
=============================================================================
