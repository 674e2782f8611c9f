------------------------ MODULE TrafficSourceProofs ------------------------
(***************************************************************************)
(* The traffic source for every rate, packet size, buffer and clock: the   *)
(* variables keep their types, the buffer holds a prefix of what was       *)
(* handed over, the source keeps its pace, and what it counts at the end   *)
(* is what it has handed over.                                             *)
(***************************************************************************)
EXTENDS TrafficSource, TLAPS

-----------------------------------------------------------------------------
(* Arithmetic *)

LEMMA Quotient ==
  ASSUME NEW n \in Nat, NEW d \in Nat \ {0}
  PROVE  n \div d \in Nat /\ (n \div d) * d <= n
OBVIOUS

LEMMA Remainder ==
  ASSUME NEW n \in Nat, NEW d \in Nat \ {0}
  PROVE  n % d \in 0 .. d - 1
OBVIOUS

LEMMA Product ==
  ASSUME NEW m \in Nat, NEW n \in Nat
  PROVE  m * n \in Nat
OBVIOUS

LEMMA ProductMonotone ==
  ASSUME NEW k \in Nat, NEW m \in Nat, NEW n \in Nat, m <= n
  PROVE  m * k <= n * k
OBVIOUS

LEMMA NextMultiple ==
  ASSUME NEW n \in Int, NEW k \in Nat
  PROVE  /\ (n + 1) * k = n * k + k
         /\ (n - 1) * k = n * k - k
OBVIOUS

LEMMA Later ==
  ASSUME NEW h \in Nat, NEW s \in Nat, NEW t \in Nat, NEW u \in Nat, t <= u
  PROVE  h <= t - s => h <= u - s
OBVIOUS

LEMMA BytesType ==
  ASSUME NEW n \in Nat
  PROVE  Bytes(n) \in 0 .. U32 - 1
<1>1. n * PktSize \in Nat  BY Product, SourceAssumption
<1>2. QED  BY <1>1, Remainder, SourceAssumption DEF Bytes

LEMMA PktTimeType ==
  ASSUME sendRate \in SendRates
  PROVE  PktTimeUs \in Nat
BY Quotient, SourceAssumption DEF PktTimeUs

\* The packets of a burst fit its period.
LEMMA BurstFits ==
  ASSUME NEW p \in Nat \ {0}, NEW n \in Nat
  PROVE  LET k == IF BurstUs \div p <= n THEN BurstUs \div p ELSE n
         IN  k \in Nat /\ k * p <= BurstUs
<1>1. BurstUs \div p \in Nat /\ (BurstUs \div p) * p <= BurstUs
  BY Quotient, SourceAssumption
<1>2. CASE BurstUs \div p <= n  BY <1>1, <1>2
<1>3. CASE ~(BurstUs \div p <= n)
  <2>1. n * p <= (BurstUs \div p) * p  BY <1>1, <1>3, ProductMonotone
  <2>2. QED  BY <1>1, <1>3, <2>1, Product, SourceAssumption
<1>4. QED  BY <1>2, <1>3

-----------------------------------------------------------------------------
(* Types *)

LEMMA Conf ==
  ASSUME TypeOK
  PROVE  /\ sendRate \in Nat \ {0} /\ sendTime \in Nat /\ numPktsBlock \in Nat
         /\ PktTimeUs \in Nat
BY PktTimeType, SourceAssumption DEF TypeOK

LEMMA InsertFits ==
  ASSUME offset \in 0 .. BufferSize
  PROVE  /\ ToInsert \in Nat /\ ToInsert <= PktSize
         /\ offset + ToInsert \in 0 .. BufferSize
         /\ ToInsert = PktSize \/ offset + ToInsert = BufferSize
         /\ ToInsert = 0 <=> offset = BufferSize
BY SourceAssumption DEF ToInsert

LEMMA SourceTypes ==
  ASSUME TypeOK, SourceNext
  PROVE  TypeOK'
<1>1. CASE Construct
  <2>1. CASE PktTimeUs = 0  BY <1>1, <2>1 DEF Construct, TypeOK, conf, loopVars, bufVars
  <2>2. CASE PktTimeUs # 0
    <3>1. PktsPerBurst \in Nat  BY <2>2, Conf, BurstFits DEF PktsPerBurst
    <3>2. QED
      BY <1>1, <2>2, <3>1, Conf, SourceAssumption
      DEF Construct, TypeOK, conf, loopVars, bufVars
  <2>3. QED  BY <2>1, <2>2
<1>2. CASE Send
  BY <1>2, SourceAssumption DEF Send, TypeOK, conf, loopVars, bufVars
<1>3. CASE TimeTest
  <2>1. Bytes(ctr * perBurst) \in 0 .. U32 - 1  BY Product, BytesType DEF TypeOK
  <2>2. QED  BY <1>3, <2>1 DEF TimeTest, TypeOK, conf, loopVars, bufVars
<1>4. CASE BlocksTest
  <2>1. Bytes(NumBlocks * numPktsBlock) \in 0 .. U32 - 1
    BY Product, BytesType, Conf, SourceAssumption
  <2>2. QED  BY <1>4, <2>1 DEF BlocksTest, InBlock, TypeOK, conf, bufVars
<1>5. CASE BlockSent
  <2>1. InterBlockTime * UsPerMs \in Nat  BY Product, SourceAssumption
  <2>2. QED  BY <1>5, <2>1, SourceAssumption DEF BlockSent, TypeOK, conf, loopVars, bufVars
<1>6. CASE NextBlock  BY <1>6 DEF NextBlock, TypeOK, conf, bufVars
<1>7. CASE BurstBegin
  BY <1>7, SourceAssumption
  DEF BurstBegin, BurstDone, InBlock, TypeOK, conf, loopVars, bufVars
<1>8. CASE HandPacket
  BY <1>8, InsertFits, SourceAssumption DEF HandPacket, ReceiveSdu, TypeOK, conf, loopVars
<1>9. CASE BurstSleep
  BY <1>9, SourceAssumption DEF BurstSleep, Pause, TypeOK, conf, loopVars, bufVars
<1>10. CASE BurstWake
  BY <1>10 DEF BurstWake, BurstDone, InBlock, TypeOK, conf, bufVars
<1>11. QED
  BY <1>1, <1>2, <1>3, <1>4, <1>5, <1>6, <1>7, <1>8, <1>9, <1>10 DEF SourceNext

LEMMA TypeOKStep == TypeOK /\ [Next]_vars => TypeOK'
<1> SUFFICES ASSUME TypeOK, [Next]_vars  PROVE TypeOK'
  OBVIOUS
<1>1. CASE SourceNext  BY <1>1, SourceTypes
<1>2. CASE VaticBurst  BY <1>2 DEF VaticBurst, TypeOK, conf, loopVars, bufVars
<1>3. CASE Quit  BY <1>3 DEF Quit, TypeOK, conf, loopVars, bufVars
<1>4. CASE Tick
  BY <1>4, SourceAssumption DEF Tick, TypeOK, conf, loopVars, bufVars
<1>5. CASE Stopped \/ UNCHANGED vars
  BY <1>5 DEF Stopped, vars, TypeOK, conf, loopVars, bufVars
<1>6. QED  BY <1>1, <1>2, <1>3, <1>4, <1>5 DEF Next

LEMMA TypeOKInit == Init => TypeOK
<1> SUFFICES ASSUME Init  PROVE TypeOK
  OBVIOUS
<1>1. clock \in 0 .. MaxClock /\ counted \in 0 .. U32 - 1 /\ offset \in 0 .. BufferSize
  BY SourceAssumption DEF Init
<1>2. {period, perBurst, start, startBurst, left, ctr, npkt, handed, received} \subseteq Nat
  BY DEF Init
<1>3. sendRate \in SendRates /\ sendTime \in SendTimes /\ numPktsBlock \in NumPktsBlocks
  BY DEF Init
<1>4. wake \in Int
  BY DEF Init
<1>5. quit \in BOOLEAN /\ locked \in BOOLEAN
  BY Zenon DEF Init
<1>6. QED  BY <1>1, <1>2, <1>3, <1>4, <1>5 DEF Init, TypeOK

\* Every variable keeps its type, the buffer is never written beyond its end.
THEOREM SourceTypeCorrect == Spec => []TypeOK
BY TypeOKInit, TypeOKStep, PTL DEF Spec

-----------------------------------------------------------------------------
(* The buffer *)

\* While the buffer has room, nothing was cut.
BufferInv ==
  /\ TypeOK
  /\ BufferHoldsPrefix
  /\ offset < BufferSize => received = offset

LEMMA PrefixGrows ==
  ASSUME BufferInv, ReceiveSdu, handed' = handed + 1
  PROVE  BufferHoldsPrefix' /\ (offset' < BufferSize => received' = offset')
<1> DEFINE bytes == handed * PktSize
<1>1. /\ handed \in Nat /\ received \in Nat /\ offset \in 0 .. BufferSize
      /\ BufferSize \in Nat /\ PktSize \in Nat \ {0}
  BY SourceAssumption DEF BufferInv, TypeOK
<1>2. bytes \in Nat  BY <1>1, Product
<1>3. (handed * PktSize)' = bytes + PktSize  BY <1>1, NextMultiple
<1>4. /\ offset = IF bytes <= BufferSize THEN bytes ELSE BufferSize
      /\ received - offset \in 0 .. PktSize - 1
      /\ offset < BufferSize => received = offset
  BY DEF BufferInv, BufferHoldsPrefix
<1> HIDE DEF bytes
<1>5. offset' = IF bytes + PktSize <= BufferSize THEN bytes + PktSize ELSE BufferSize
  BY <1>1, <1>2, <1>4 DEF ReceiveSdu, ToInsert
<1>6. /\ received' - offset' \in 0 .. PktSize - 1
      /\ offset' < BufferSize => received' = offset'
  BY <1>1, <1>4 DEF ReceiveSdu, ToInsert
<1>7. QED  BY <1>3, <1>5, <1>6 DEF BufferHoldsPrefix

\* The buffer holds the first bytes that the source handed over, and the
\* statistics of what was received exceed it by less than a packet.
THEOREM BufferIsPrefix == Spec => []BufferHoldsPrefix
<1>1. Init => BufferInv
  BY TypeOKInit, SourceAssumption DEF Init, BufferInv, BufferHoldsPrefix
<1>2. BufferInv /\ [Next]_vars => BufferInv'
  <2> SUFFICES ASSUME BufferInv, [Next]_vars  PROVE BufferInv'
    OBVIOUS
  <2>1. TypeOK'  BY TypeOKStep DEF BufferInv
  <2>2. CASE HandPacket  BY <2>1, <2>2, PrefixGrows DEF HandPacket, BufferInv
  <2>3. CASE UNCHANGED bufVars  BY <2>1, <2>3 DEF bufVars, BufferInv, BufferHoldsPrefix
  <2>4. HandPacket \/ UNCHANGED bufVars
    BY DEF Next, SourceNext, Construct, Send, TimeTest, BlocksTest, BlockSent, NextBlock,
           BurstBegin, BurstSleep, BurstWake, VaticBurst, Quit, Tick, Stopped, vars
  <2>5. QED  BY <2>2, <2>3, <2>4
<1>3. QED  BY <1>1, <1>2, PTL DEF Spec, BufferInv

-----------------------------------------------------------------------------
(* The pace *)

\* What was handed over has been slept out, except during a burst: then the
\* period of the burst, counted from its start, covers it with the packets
\* still to come.
Covered ==
  /\ srcPc \in {"new", "crashed", "send"} => handed = 0
  /\ srcPc \in {"time", "blocks", "burst", "blockSent", "interBlock", "done"} =>
       handed * PktTimeUs <= clock - start
  /\ srcPc \in {"hand", "sleep"} =>
       /\ startBurst <= clock
       /\ handed * PktTimeUs + left * PktTimeUs <= startBurst - start + period
  /\ srcPc = "sleep" => left = 0 /\ wake = startBurst + period

PaceInv ==
  /\ TypeOK
  /\ srcPc \notin {"new", "crashed"} => perBurst * PktTimeUs <= period
  /\ clock < MaxClock => Covered

LEMMA PaceConstruct ==
  ASSUME PaceInv, Construct
  PROVE  PaceInv'
<1>1. TypeOK'  BY SourceTypes DEF PaceInv, SourceNext
<1>2. CASE PktTimeUs = 0
  BY <1>1, <1>2 DEF Construct, PaceInv, Covered, conf, bufVars
<1>3. CASE PktTimeUs # 0
  <2> DEFINE p == PktTimeUs
  <2>1. p \in Nat \ {0} /\ p' = p /\ numPktsBlock \in Nat
    BY <1>3, Conf DEF PaceInv, Construct, conf, PktTimeUs
  <2>2. PktsPerBurst * p <= BurstUs  BY <2>1, BurstFits DEF PktsPerBurst
  <2>3. 1 * p = p  BY <2>1
  <2>4. perBurst' * p <= period'
    BY <1>3, <2>1, <2>2, <2>3 DEF Construct
  <2> HIDE DEF p
  <2>5. (perBurst * PktTimeUs <= period)'  BY <2>1, <2>4 DEF p
  <2>6. QED  BY <1>1, <1>3, <2>5 DEF Construct, PaceInv, Covered, bufVars
<1>4. QED  BY <1>2, <1>3

\* A burst starts with what was handed over slept out, or is not sent.
LEMMA PaceBurst ==
  ASSUME PaceInv, BurstBegin
  PROVE  PaceInv'
<1> DEFINE p == PktTimeUs
           h == handed * p
           k == perBurst * p
<1>1. TypeOK'  BY SourceTypes DEF PaceInv, SourceNext
<1>2. /\ p' = p /\ h' = h /\ k' = k /\ (left * p)' = left' * p
      /\ clock' = clock /\ start' = start /\ period' = period
  BY DEF BurstBegin, PktTimeUs, conf, bufVars
<1>3. /\ p \in Nat /\ h \in Nat /\ k \in Nat /\ clock \in Nat /\ start \in Nat
      /\ period \in Nat
  BY Conf, Product, SourceAssumption DEF PaceInv, TypeOK
<1>4. k <= period /\ (clock < MaxClock => h <= clock - start)
  BY DEF BurstBegin, PaceInv, Covered
<1>5. CASE quit
  <2>1. srcPc' \in {"time", "burst", "blockSent"}
    BY <1>5 DEF BurstBegin, BurstDone, InBlock
  <2>2. (clock < MaxClock => Covered)'  BY <1>2, <1>4, <2>1 DEF Covered
  <2>3. QED  BY <1>1, <1>2, <1>4, <2>1, <2>2 DEF PaceInv
<1>6. CASE ~quit
  <2>1. srcPc' = "hand" /\ left' * p = k /\ startBurst' = clock
    BY <1>6 DEF BurstBegin
  <2> HIDE DEF h, k
  <2>2. clock < MaxClock => h + k <= clock - start + period  BY <1>3, <1>4
  <2>3. (clock < MaxClock => Covered)'
    BY <1>2, <1>3, <2>1, <2>2 DEF Covered, h
  <2>4. QED  BY <1>1, <1>2, <1>4, <2>1, <2>3 DEF PaceInv, k
<1>7. QED  BY <1>5, <1>6

LEMMA PaceHand ==
  ASSUME PaceInv, HandPacket
  PROVE  PaceInv'
<1> DEFINE p == PktTimeUs
           h == handed * p
           l == left * p
<1>1. TypeOK'  BY SourceTypes DEF PaceInv, SourceNext
<1>2. /\ p' = p /\ perBurst' = perBurst /\ srcPc = "hand" /\ srcPc' = "hand"
      /\ clock' = clock /\ start' = start /\ startBurst' = startBurst /\ period' = period
  BY DEF HandPacket, PktTimeUs, conf
<1>3. p \in Nat /\ handed \in Nat /\ left \in Nat  BY Conf DEF PaceInv, TypeOK
<1>4. h' = h + p /\ l' = l - p  BY <1>2, <1>3, NextMultiple DEF HandPacket
<1>5. h \in Nat /\ l \in Nat  BY <1>3, Product
<1>6. (h + l)' = h + l
  <2> HIDE DEF h, l
  <2>1. QED  BY <1>3, <1>4, <1>5
<1>7. QED  BY <1>1, <1>2, <1>6 DEF PaceInv, Covered

LEMMA PaceSleep ==
  ASSUME PaceInv, BurstSleep
  PROVE  PaceInv'
<1>1. TypeOK'  BY SourceTypes DEF PaceInv, SourceNext
<1>2. PktTimeUs' = PktTimeUs  BY DEF BurstSleep, PktTimeUs, conf
<1>3. wake' = startBurst + period
  BY SourceAssumption DEF BurstSleep, Pause, PaceInv, TypeOK
<1>4. QED  BY <1>1, <1>2, <1>3 DEF BurstSleep, PaceInv, Covered, bufVars

\* The sleep ends when the period is over.
LEMMA PaceWake ==
  ASSUME PaceInv, BurstWake
  PROVE  PaceInv'
<1>1. TypeOK'  BY SourceTypes DEF PaceInv, SourceNext
<1>2. /\ PktTimeUs' = PktTimeUs /\ handed' = handed /\ perBurst' = perBurst
      /\ clock' = clock /\ start' = start /\ period' = period
      /\ srcPc = "sleep" /\ srcPc' \in {"time", "burst", "blockSent"}
  BY DEF BurstWake, BurstDone, InBlock, PktTimeUs, conf, bufVars
<1>3. clock < MaxClock => handed * PktTimeUs <= clock - start
  <2> SUFFICES ASSUME clock < MaxClock  PROVE handed * PktTimeUs <= clock - start
    OBVIOUS
  <2>1. /\ handed * PktTimeUs + left * PktTimeUs <= startBurst - start + period
        /\ left = 0 /\ wake = startBurst + period
    BY <1>2 DEF PaceInv, Covered
  <2>2. clock >= wake  BY SourceAssumption DEF BurstWake, Awake, PaceInv, TypeOK
  <2>3. 0 * PktTimeUs = 0 /\ handed * PktTimeUs \in Nat  BY Conf, Product DEF PaceInv, TypeOK
  <2>4. QED  BY <2>1, <2>2, <2>3, SourceAssumption DEF PaceInv, TypeOK
<1>4. QED  BY <1>1, <1>2, <1>3 DEF PaceInv, Covered

\* Steps between bursts, and steps of others, hand nothing over, and time
\* only adds to what is covered.
LEMMA PaceQuiet ==
  ASSUME PaceInv, TypeOK', UNCHANGED <<conf, period, perBurst, bufVars>>,
         \/ Send \/ TimeTest \/ BlocksTest \/ BlockSent \/ NextBlock
         \/ VaticBurst \/ Quit \/ Tick \/ Stopped \/ UNCHANGED vars
  PROVE  PaceInv'
<1> DEFINE h == handed * PktTimeUs
<1>1. /\ PktTimeUs' = PktTimeUs /\ h' = h /\ perBurst' = perBurst
      /\ handed' = handed /\ period' = period
  BY DEF PktTimeUs, conf, bufVars
<1>2. h \in Nat /\ (handed = 0 => h = 0)
  BY Conf, Product DEF PaceInv, TypeOK
<1>3. clock \in Nat /\ clock' \in Nat /\ start \in Nat /\ startBurst \in Nat
  BY SourceAssumption DEF PaceInv, TypeOK
<1>4. CASE Send
  <2>1. /\ srcPc = "send" /\ srcPc' \in {"time", "blocks"} /\ start' = clock
        /\ clock' = clock
    BY <1>4 DEF Send
  <2>2. clock' < MaxClock => h <= clock' - start'
    BY <1>2, <1>3, <2>1 DEF PaceInv, Covered
  <2>3. QED  BY <1>1, <2>1, <2>2 DEF PaceInv, Covered
<1>5. CASE TimeTest \/ BlocksTest \/ BlockSent \/ NextBlock
  <2>1. /\ srcPc \in {"time", "blocks", "blockSent", "interBlock"}
        /\ srcPc' \in {"time", "blocks", "burst", "blockSent", "interBlock", "done"}
        /\ clock' = clock /\ start' = start
    BY <1>5 DEF TimeTest, BlocksTest, BlockSent, NextBlock, InBlock
  <2>2. QED  BY <1>1, <2>1 DEF PaceInv, Covered
<1>6. CASE VaticBurst \/ Quit \/ Tick \/ Stopped \/ UNCHANGED vars
  <2>1. /\ srcPc' = srcPc /\ start' = start /\ startBurst' = startBurst /\ wake' = wake
        /\ left' = left /\ (clock' = clock \/ clock' = clock + 1)
    BY <1>6 DEF VaticBurst, Quit, Tick, Stopped, vars
  <2>2. (left * PktTimeUs)' = left * PktTimeUs  BY <1>1, <2>1
  <2>3. clock' < MaxClock => clock < MaxClock /\ Covered
    BY <1>3, <2>1, SourceAssumption DEF PaceInv
  <2> HIDE DEF h
  <2>4. h <= clock - start => h <= clock' - start
    <3>1. clock <= clock'  BY <1>3, <2>1
    <3>2. h \in Nat  BY <1>2
    <3>3. clock \in Nat /\ clock' \in Nat /\ start \in Nat BY <1>3
    <3>4. QED  BY <3>1, <3>2, <3>3, Later
  <2>5. (clock < MaxClock => Covered)'
    BY <1>1, <1>3, <2>1, <2>2, <2>3, <2>4 DEF Covered, h
  <2>6. QED  BY <1>1, <2>1, <2>5 DEF PaceInv
<1>7. QED  BY <1>4, <1>5, <1>6

LEMMA PacedFromInv == PaceInv => Paced
<1> SUFFICES ASSUME PaceInv, clock < MaxClock, srcPc \notin {"new", "crashed", "send"}
             PROVE  handed * PktTimeUs <= clock - start + period
  BY DEF Paced
<1> DEFINE h == handed * PktTimeUs
           l == left * PktTimeUs
<1>1. /\ h \in Nat /\ l \in Nat /\ clock \in Nat /\ start \in Nat /\ startBurst \in Nat
      /\ period \in Nat
  BY Conf, Product, SourceAssumption DEF PaceInv, TypeOK
<1>2. \/ h <= clock - start
      \/ startBurst <= clock /\ h + l <= startBurst - start + period
  BY DEF PaceInv, Covered, TypeOK
<1> HIDE DEF h, l
<1>3. h <= clock - start + period  BY <1>1, <1>2
<1>4. QED  BY <1>3 DEF h

\* The source is never ahead of its rate by more than one period, however long
\* the mutex of the buffer kept it waiting in between.
THEOREM SourceIsPaced == Spec => []Paced
<1>1. Init => PaceInv
  BY TypeOKInit DEF Init, PaceInv, Covered
<1>2. PaceInv /\ [Next]_vars => PaceInv'
  <2> SUFFICES ASSUME PaceInv, [Next]_vars  PROVE PaceInv'
    OBVIOUS
  <2>1. TypeOK'  BY TypeOKStep DEF PaceInv
  <2>2. CASE \/ Construct \/ BurstBegin \/ HandPacket \/ BurstSleep \/ BurstWake
    BY <2>2, PaceConstruct, PaceBurst, PaceHand, PaceSleep, PaceWake
  <2>3. CASE \/ Send \/ TimeTest \/ BlocksTest \/ BlockSent \/ NextBlock
             \/ VaticBurst \/ Quit \/ Tick \/ Stopped \/ UNCHANGED vars
    <3>1. UNCHANGED <<conf, period, perBurst, bufVars>>
      BY <2>3 DEF Send, TimeTest, BlocksTest, BlockSent, NextBlock, VaticBurst, Quit, Tick,
                  Stopped, vars
    <3>2. QED  BY <2>1, <2>3, <3>1, PaceQuiet
  <2>4. QED  BY <2>2, <2>3 DEF Next, SourceNext
<1>3. QED  BY <1>1, <1>2, PacedFromInv, PTL DEF Spec

-----------------------------------------------------------------------------
(* What is counted *)

\* A burst is empty only if blocks are; what it may add to a block that is sent in
\* bursts.
Slack == IF perBurst = 0 THEN 0 ELSE perBurst - 1

\* n packets make the blocks that are over.
Before(n) == n - ctr * numPktsBlock \in 0 .. ctr * Slack

\* Sending for a time: every burst that was called was handed over, but the one under
\* way, and the last if QUIT cut it.
TimeCount ==
  /\ srcPc \notin {"blocks", "blockSent", "interBlock"}
  /\ srcPc = "time" =>
       \/ handed = ctr * perBurst
       \/ quit /\ handed + perBurst = ctr * perBurst
  /\ srcPc = "burst" => handed = ctr * perBurst
  /\ srcPc = "hand" => handed + left = ctr * perBurst + perBurst
  /\ srcPc = "sleep" => handed = ctr * perBurst + perBurst
  /\ srcPc = "done" =>
       \/ counted = Bytes(handed)
       \/ quit /\ counted = Bytes(handed + perBurst)

\* Sending blocks: npkt packets of the block under way, and the burst under way.
BlockCount ==
  /\ srcPc # "time"
  /\ srcPc = "blocks" => ctr <= NumBlocks /\ Before(handed)
  /\ srcPc \in {"burst", "hand", "sleep"} => ctr < NumBlocks /\ npkt < numPktsBlock
  /\ srcPc = "burst" => Before(handed - npkt)
  /\ srcPc = "hand" => Before(handed + left - npkt - perBurst)
  /\ srcPc = "sleep" => Before(handed - npkt - perBurst)
  /\ srcPc \in {"blockSent", "interBlock"} =>
       /\ ctr < NumBlocks
       /\ npkt - numPktsBlock \in 0 .. Slack
       /\ Before(handed - npkt)
  /\ srcPc = "done" =>
       /\ counted = Bytes(NumBlocks * numPktsBlock)
       /\ handed - NumBlocks * numPktsBlock \in 0 .. NumBlocks * Slack

CountInv ==
  /\ srcPc \in {"new", "crashed", "send"} => handed = 0 /\ ctr = 0
  /\ srcPc \notin {"new", "crashed"} /\ perBurst = 0 => numPktsBlock = 0
  /\ sendTime > 0 => TimeCount
  /\ sendTime = 0 /\ ~quit => BlockCount

\* The products of the invariant, and what one more block or burst makes of them.
LEMMA Multiples ==
  ASSUME TypeOK
  PROVE  /\ ctr \in Nat /\ npkt \in Nat /\ handed \in Nat /\ left \in Nat
         /\ perBurst \in Nat /\ numPktsBlock \in Nat /\ NumBlocks \in Nat /\ Slack \in Nat
         /\ ctr * perBurst \in Nat /\ ctr * numPktsBlock \in Nat /\ ctr * Slack \in Nat
         /\ (ctr + 1) * perBurst = ctr * perBurst + perBurst
         /\ (ctr + 1) * numPktsBlock = ctr * numPktsBlock + numPktsBlock
         /\ (ctr + 1) * Slack = ctr * Slack + Slack
<1>1. /\ ctr \in Nat /\ npkt \in Nat /\ handed \in Nat /\ left \in Nat
      /\ perBurst \in Nat /\ numPktsBlock \in Nat /\ NumBlocks \in Nat
  BY Conf, SourceAssumption DEF TypeOK
<1>2. Slack \in Nat  BY <1>1 DEF Slack
<1>3. QED  BY <1>1, <1>2, Product, NextMultiple

\* The packets of a burst, if there are blocks to send.
LEMMA CountConstruct ==
  ASSUME TypeOK, CountInv, Construct
  PROVE  CountInv'
<1>1. UNCHANGED <<sendTime, numPktsBlock, handed, ctr, quit>> /\ srcPc = "new"
  BY DEF Construct, conf, loopVars, bufVars
<1>2. srcPc' \in {"crashed", "send"}  BY DEF Construct
<1>3. srcPc' = "send" /\ perBurst' = 0 => numPktsBlock = 0
  <2> SUFFICES ASSUME srcPc' = "send", perBurst' = 0  PROVE numPktsBlock = 0
    OBVIOUS
  <2>1. PktTimeUs \in Nat \ {0}  BY Conf DEF Construct
  <2>2. PktTimeUs <= BurstUs /\ PktsPerBurst = 0
    BY <2>1, SourceAssumption DEF Construct
  <2>3. BurstUs \div PktTimeUs # 0  BY <2>1, <2>2, SourceAssumption
  <2>4. QED  BY <2>2, <2>3 DEF PktsPerBurst
<1>4. QED  BY <1>1, <1>2, <1>3 DEF CountInv, TimeCount, BlockCount

LEMMA CountSend ==
  ASSUME TypeOK, CountInv, Send
  PROVE  CountInv'
<1>1. UNCHANGED <<sendTime, numPktsBlock, handed, ctr, quit, perBurst>> /\ srcPc = "send"
  BY DEF Send, conf, loopVars, bufVars
<1>2. /\ srcPc' = IF sendTime > 0 THEN "time" ELSE "blocks"
      /\ handed = 0 /\ ctr = 0
  BY <1>1 DEF Send, CountInv
<1>3. 0 * perBurst = 0 /\ 0 * numPktsBlock = 0 /\ Slack' = Slack /\ 0 * Slack = 0
  <2>1. perBurst \in Nat /\ numPktsBlock \in Nat /\ Slack \in Nat  BY Multiples
  <2>2. Slack' = Slack  BY <1>1 DEF Slack
  <2>3. QED  BY <2>1, <2>2
<1>4. TimeCount' \/ ~(sendTime > 0)  BY <1>1, <1>2, <1>3 DEF TimeCount
<1>5. sendTime = 0 => BlockCount'
  BY <1>1, <1>2, <1>3, SourceAssumption DEF BlockCount, Before
<1>6. QED  BY <1>1, <1>2, <1>4, <1>5 DEF CountInv

\* The loop for a time counts the bursts that were called.
LEMMA CountTime ==
  ASSUME TypeOK, CountInv, TimeTest
  PROVE  CountInv'
<1>1. /\ UNCHANGED <<sendTime, numPktsBlock, handed, ctr, quit, perBurst>>
      /\ srcPc = "time" /\ srcPc' \in {"burst", "done"}
      /\ srcPc' = "burst" => ~quit
      /\ srcPc' = "done" => counted' = Bytes(ctr * perBurst)
  BY DEF TimeTest, conf, loopVars, bufVars
<1>2. sendTime > 0 => TimeCount'
  BY <1>1 DEF CountInv, TimeCount, Bytes
<1>3. sendTime = 0 => quit  BY <1>1 DEF CountInv, BlockCount
<1>4. QED  BY <1>1, <1>2, <1>3 DEF CountInv

\* The blocks that are over, when the next begins or none is left.
LEMMA CountBlocks ==
  ASSUME TypeOK, CountInv, BlocksTest
  PROVE  CountInv'
<1>1. /\ UNCHANGED <<sendTime, numPktsBlock, handed, ctr, quit, perBurst>>
      /\ srcPc = "blocks" /\ npkt' = 0 /\ Slack' = Slack
  BY DEF BlocksTest, conf, bufVars, Slack
<1>2. srcPc' \in {"burst", "blockSent", "done"}  BY DEF BlocksTest, InBlock
<1>3. ~(sendTime > 0)  BY <1>1 DEF CountInv, TimeCount
<1>4. ASSUME ~quit, sendTime = 0  PROVE BlockCount'
  <2>1. ctr <= NumBlocks /\ Before(handed)  BY <1>1, <1>4 DEF CountInv, BlockCount
  <2>2. CASE ctr < NumBlocks
    <3>1. srcPc' = InBlock(0)  BY <1>4, <2>2 DEF BlocksTest
    <3>2. Before(handed - npkt)'
      BY <1>1, <2>1, Multiples DEF Before
    <3>3. npkt' - numPktsBlock \in 0 .. Slack \/ npkt' < numPktsBlock
      <4>1. numPktsBlock \in Nat /\ Slack \in Nat  BY Multiples
      <4>2. QED  BY <1>1, <4>1
    <3>4. CASE srcPc' = "burst"
      BY <1>1, <2>2, <3>1, <3>2, <3>4 DEF InBlock, BlockCount
    <3>5. CASE srcPc' = "blockSent"
      <4>1. ~(0 < numPktsBlock)  BY <3>1, <3>5 DEF InBlock
      <4>2. npkt' - numPktsBlock \in 0 .. Slack  BY <1>1, <3>3, <4>1
      <4>3. QED  BY <1>1, <2>2, <3>2, <3>5, <4>2 DEF BlockCount
    <3>6. QED  BY <3>1, <3>4, <3>5 DEF InBlock
  <2>3. CASE ~(ctr < NumBlocks)
    <3>1. srcPc' = "done" /\ counted' = Bytes(NumBlocks * numPktsBlock) /\ ctr = NumBlocks
      BY <2>1, <2>3, Multiples DEF BlocksTest
    <3>2. QED  BY <1>1, <2>1, <3>1 DEF BlockCount, Before, Bytes
  <2>4. QED  BY <2>2, <2>3
<1>5. QED  BY <1>1, <1>2, <1>3, <1>4 DEF CountInv

LEMMA CountNextBlock ==
  ASSUME TypeOK, CountInv, NextBlock
  PROVE  CountInv'
<1>1. /\ UNCHANGED <<sendTime, numPktsBlock, handed, npkt, quit, perBurst>>
      /\ srcPc = "interBlock" /\ srcPc' = "blocks" /\ ctr' = ctr + 1 /\ Slack' = Slack
  BY DEF NextBlock, conf, bufVars, Slack
<1>2. ~(sendTime > 0)  BY <1>1 DEF CountInv, TimeCount
<1>3. ASSUME ~quit, sendTime = 0  PROVE BlockCount'
  <2>1. ctr < NumBlocks /\ npkt - numPktsBlock \in 0 .. Slack /\ Before(handed - npkt)
    BY <1>1, <1>3 DEF CountInv, BlockCount
  <2>2. Before(handed)'
    <3> DEFINE cn == ctr * numPktsBlock
               cs == ctr * Slack
    <3>1. /\ cn \in Nat /\ cs \in Nat /\ handed \in Nat /\ npkt \in Nat
          /\ numPktsBlock \in Nat /\ Slack \in Nat
          /\ (ctr + 1) * numPktsBlock = cn + numPktsBlock /\ (ctr + 1) * Slack = cs + Slack
      BY Multiples
    <3>2. handed - npkt - cn \in 0 .. cs  BY <2>1 DEF Before
    <3> HIDE DEF cn, cs
    <3>3. handed - (cn + numPktsBlock) \in 0 .. cs + Slack  BY <2>1, <3>1, <3>2
    <3>4. QED  BY <1>1, <3>1, <3>3 DEF Before
  <2>3. ctr' <= NumBlocks  BY <1>1, <2>1, Multiples
  <2>4. QED  BY <1>1, <2>2, <2>3 DEF BlockCount
<1>4. QED  BY <1>1, <1>2, <1>3 DEF CountInv

\* A burst is counted in its loop, also if QUIT kept it from being sent.
LEMMA CountBegin ==
  ASSUME TypeOK, CountInv, BurstBegin
  PROVE  CountInv'
<1>1. /\ UNCHANGED <<sendTime, numPktsBlock, handed, quit, perBurst>>
      /\ srcPc = "burst" /\ left' = perBurst /\ Slack' = Slack
  BY DEF BurstBegin, conf, bufVars, Slack
<1>2. CASE quit
  <2>1. srcPc' \in {"time", "burst", "blockSent"}
    BY <1>2 DEF BurstBegin, BurstDone, InBlock
  <2>2. ASSUME sendTime > 0  PROVE TimeCount'
    <3>1. srcPc' = "time" /\ ctr' = ctr + 1  BY <1>2, <2>2 DEF BurstBegin, BurstDone
    <3>2. handed = ctr * perBurst  BY <1>1, <2>2 DEF CountInv, TimeCount
    <3>3. handed + perBurst = (ctr + 1) * perBurst  BY <3>2, Multiples
    <3>4. QED  BY <1>1, <1>2, <3>1, <3>3 DEF TimeCount
  <2>3. QED  BY <1>1, <1>2, <2>1, <2>2 DEF CountInv
<1>3. CASE ~quit
  <2>1. srcPc' = "hand" /\ UNCHANGED <<ctr, npkt>>  BY <1>3 DEF BurstBegin, loopVars
  <2>2. sendTime > 0 => TimeCount'  BY <1>1, <2>1 DEF CountInv, TimeCount
  <2>3. ASSUME sendTime = 0  PROVE BlockCount'
    <3>1. ctr < NumBlocks /\ npkt < numPktsBlock /\ Before(handed - npkt)
      BY <1>1, <1>3, <2>3 DEF CountInv, BlockCount
    <3>2. handed + perBurst - npkt - perBurst = handed - npkt  BY Multiples
    <3>3. Before(handed + left - npkt - perBurst)'
      BY <1>1, <2>1, <3>1, <3>2 DEF Before
    <3>4. QED  BY <1>1, <2>1, <3>1, <3>3 DEF BlockCount
  <2>4. QED  BY <1>1, <2>1, <2>2, <2>3 DEF CountInv
<1>4. QED  BY <1>2, <1>3

\* A burst that is over is counted in its loop; in a block it may be the last.
LEMMA CountWake ==
  ASSUME TypeOK, CountInv, BurstWake
  PROVE  CountInv'
<1>1. /\ UNCHANGED <<sendTime, numPktsBlock, handed, quit, perBurst>>
      /\ srcPc = "sleep" /\ BurstDone /\ Slack' = Slack
  BY DEF BurstWake, conf, bufVars, Slack
<1>2. srcPc' \in {"time", "burst", "blockSent"}
  BY <1>1 DEF BurstDone, InBlock
<1>3. ASSUME sendTime > 0  PROVE TimeCount'
  <2>1. srcPc' = "time" /\ ctr' = ctr + 1  BY <1>1, <1>3 DEF BurstDone
  <2>2. handed = ctr * perBurst + perBurst  BY <1>1, <1>3 DEF CountInv, TimeCount
  <2>3. handed = (ctr + 1) * perBurst  BY <2>2, Multiples
  <2>4. QED  BY <1>1, <2>1, <2>3 DEF TimeCount
<1>4. ASSUME ~quit, sendTime = 0  PROVE BlockCount'
  <2>1. /\ ctr < NumBlocks /\ npkt < numPktsBlock /\ Before(handed - npkt - perBurst)
    BY <1>1, <1>4 DEF CountInv, BlockCount
  <2>2. /\ npkt' = npkt + perBurst /\ ctr' = ctr
        /\ srcPc' = IF npkt + perBurst < numPktsBlock THEN "burst" ELSE "blockSent"
    BY <1>1, <1>4 DEF BurstDone, InBlock
  <2>3. Before(handed - npkt)'
    <3>1. handed - (npkt + perBurst) = handed - npkt - perBurst  BY Multiples
    <3>2. QED  BY <1>1, <2>1, <2>2, <3>1 DEF Before
  <2>4. perBurst # 0  BY <1>1, <2>1, Multiples DEF CountInv
  <2>5. srcPc' = "blockSent" => npkt' - numPktsBlock \in 0 .. Slack
    BY <2>1, <2>2, <2>4, Multiples DEF Slack
  <2>6. QED  BY <1>1, <2>1, <2>2, <2>3, <2>5 DEF BlockCount
<1>5. QED  BY <1>1, <1>2, <1>3, <1>4 DEF CountInv

LEMMA CountHand ==
  ASSUME TypeOK, CountInv, HandPacket
  PROVE  CountInv'
<1>1. /\ UNCHANGED <<sendTime, numPktsBlock, ctr, npkt, quit, perBurst>>
      /\ srcPc = "hand" /\ srcPc' = "hand" /\ handed' = handed + 1 /\ left' = left - 1
      /\ Slack' = Slack
  BY DEF HandPacket, conf, loopVars, Slack
<1>2. /\ handed' + left' = handed + left
      /\ handed' + left' - npkt - perBurst = handed + left - npkt - perBurst
  <2>1. handed \in Nat /\ left \in Nat /\ npkt \in Nat /\ perBurst \in Nat
    BY Multiples
  <2>2. QED  BY <1>1, <2>1
<1>3. sendTime > 0 => TimeCount'  BY <1>1, <1>2 DEF CountInv, TimeCount
<1>4. sendTime = 0 /\ ~quit => BlockCount'
  BY <1>1, <1>2 DEF CountInv, BlockCount, Before
<1>5. QED  BY <1>1, <1>3, <1>4 DEF CountInv

LEMMA CountSleep ==
  ASSUME TypeOK, CountInv, BurstSleep
  PROVE  CountInv'
<1>1. /\ UNCHANGED <<sendTime, numPktsBlock, ctr, npkt, quit, perBurst, handed>>
      /\ srcPc = "hand" /\ srcPc' = "sleep" /\ left = 0 /\ Slack' = Slack
  BY DEF BurstSleep, conf, loopVars, bufVars, Slack
<1>2. handed + left = handed /\ handed + left - npkt - perBurst = handed - npkt - perBurst
  BY <1>1, Multiples
<1>3. sendTime > 0 => TimeCount'  BY <1>1, <1>2 DEF CountInv, TimeCount
<1>4. sendTime = 0 /\ ~quit => BlockCount'
  BY <1>1, <1>2 DEF CountInv, BlockCount, Before
<1>5. QED  BY <1>1, <1>3, <1>4 DEF CountInv

\* Steps that count nothing.
LEMMA CountQuiet ==
  ASSUME CountInv, BlockSent \/ VaticBurst \/ Quit \/ Tick \/ Stopped \/ UNCHANGED vars
  PROVE  CountInv'
<1>1. /\ UNCHANGED <<sendTime, numPktsBlock, ctr, npkt, perBurst, handed, left, counted>>
      /\ \/ srcPc' = srcPc
         \/ srcPc = "blockSent" /\ srcPc' = "interBlock"
      /\ quit => quit'
  BY DEF BlockSent, VaticBurst, Quit, Tick, Stopped, vars, conf, loopVars, bufVars
<1>2. Slack' = Slack  BY <1>1 DEF Slack
<1>3. sendTime > 0 => TimeCount'  BY <1>1 DEF CountInv, TimeCount, Bytes
<1>4. sendTime = 0 /\ ~quit' => BlockCount'
  BY <1>1, <1>2 DEF CountInv, BlockCount, Before, Bytes
<1>5. QED  BY <1>1, <1>3, <1>4 DEF CountInv

LEMMA CountsFromInv == TypeOK /\ CountInv => CountsWhatItHands
<1> SUFFICES ASSUME TypeOK, CountInv, srcPc = "done"  PROVE CountsWhatItHands
  BY DEF CountsWhatItHands
<1>1. CASE sendTime > 0  BY <1>1 DEF CountInv, TimeCount, CountsWhatItHands
<1>2. CASE ~(sendTime > 0) /\ ~quit
  <2> DEFINE asked == NumBlocks * numPktsBlock
             most == NumBlocks * Slack
  <2>1. sendTime = 0  BY <1>2, Conf
  <2>2. counted = Bytes(asked) /\ handed - asked \in 0 .. most
    BY <1>2, <2>1 DEF CountInv, BlockCount
  <2>3. asked \in Nat /\ most \in Nat /\ handed \in Nat  BY Multiples, Product
  <2>4. perBurst = 0 => most = 0  BY Multiples DEF Slack
  <2>5. perBurst # 0 => most = NumBlocks * (perBurst - 1)  BY DEF Slack
  <2> HIDE DEF asked, most
  <2>6. handed = asked \/ handed - asked \in 1 .. most  BY <2>2, <2>3
  <2>7. handed = asked \/ most # 0  BY <2>2, <2>3
  <2>8. QED  BY <1>2, <2>2, <2>4, <2>5, <2>6, <2>7 DEF CountsWhatItHands, asked
<1>3. CASE ~(sendTime > 0) /\ quit  BY <1>3 DEF CountsWhatItHands
<1>4. QED  BY <1>1, <1>2, <1>3

\* What the source counts at the end is what it has handed over: a burst that QUIT cut
\* short and the packets that the last burst of a block adds are the only differences.
THEOREM SourceCountsRight == Spec => []CountsWhatItHands
<1>1. Init => CountInv
  BY DEF Init, CountInv, TimeCount, BlockCount
<1>2. TypeOK /\ CountInv /\ [Next]_vars => CountInv'
  BY CountConstruct, CountSend, CountTime, CountBlocks, CountNextBlock, CountBegin,
     CountWake, CountHand, CountSleep, CountQuiet
  DEF Next, SourceNext
<1>3. QED  BY <1>1, <1>2, CountsFromInv, SourceTypeCorrect, PTL DEF Spec
=============================================================================
