------------------------- MODULE LogAnalysisProofs -------------------------
(***************************************************************************)
(* The loops that put lines of a file into intervals or bins, for files of *)
(* any length: what is in the result, what is lost, and where it stands.   *)
(* In MmLog the log comes from a queue: its k-th departure is of the k-th  *)
(* arrival that was not dropped (QueueInv).                                *)
(***************************************************************************)
EXTENDS LogAnalysis, TotalsProofs

-----------------------------------------------------------------------------
(* Sequences, sums and multiples *)

LEMMA Appended ==
  ASSUME NEW S, NEW s \in Seq(S), NEW e \in S
  PROVE  /\ Append(s, e) \in Seq(S)
         /\ Len(Append(s, e)) = Len(s) + 1
         /\ Append(s, e)[Len(s) + 1] = e
         /\ \A i \in 1 .. Len(s) : Append(s, e)[i] = s[i]
OBVIOUS

LEMMA Element ==
  ASSUME NEW S, NEW s \in Seq(S), NEW i \in 1 .. Len(s)
  PROVE  s[i] \in S
OBVIOUS

LEMMA NextTerm ==
  ASSUME NEW S, NEW f, IsFiniteSet(Units(f, S)), NEW x, x \notin S, f[x] \in Nat
  PROVE  /\ IsFiniteSet(Units(f, S \union {x}))
         /\ Total(f, S \union {x}) = Total(f, S) + f[x]
BY FiniteInsert

LEMMA Multiples ==
  ASSUME NEW j \in Nat, NEW k \in Nat, NEW n \in Nat
  PROVE  /\ j * n \in Nat
         /\ (j + 1) * n = j * n + n
         /\ j <= k => j * n <= k * n
OBVIOUS

-----------------------------------------------------------------------------
(* Traces: what a line is, and where it counts *)

Fresh == trPc = "file" => pos = 0 /\ cnt = 0 /\ bw = <<>> /\ closers = {}
FiniteSums ==
  /\ IsFiniteSet(Units(Weights, 1 .. pos))
  /\ IsFiniteSet(Units(Weights, closers))
  /\ IsFiniteSet(Units(bw, 1 .. Len(bw)))

\* Nothing is lost but the lines that closed an interval.
SumInv == Fresh /\ FiniteSums /\ OnlyClosersLost /\ BytesKept

LEMMA LineTypes ==
  ASSUME TraceTypeOK, NEW i \in 1 .. Len(file)
  PROVE  /\ file[i] \in Entries /\ file[i].t \in Nat /\ file[i].n \in Nat
         /\ Weight(file[i]) \in Nat /\ Weights[i] = Weight(file[i])
<1>1. file[i] \in Entries
  <2> HIDE DEF Entries
  <2>1. QED  BY Element DEF TraceTypeOK
<1>2. file[i].t \in Nat /\ file[i].n \in Nat  BY <1>1, TraceAssumption DEF Entries
<1>3. QED  BY <1>1, <1>2 DEF Weight, Weights

\* The line that is read adds its weight, to all lines and to the closers.
LEMMA LineAdds ==
  ASSUME TraceTypeOK, FiniteSums, pos < Len(file)
  PROVE  /\ IsFiniteSet(Units(Weights, 1 .. pos + 1))
         /\ IsFiniteSet(Units(Weights, closers \union {pos + 1}))
         /\ Total(Weights, 1 .. pos + 1) = Total(Weights, 1 .. pos) + Weight(Entry)
         /\ Total(Weights, closers \union {pos + 1}) = Total(Weights, closers) + Weight(Entry)
<1>1. pos \in Nat /\ pos + 1 \in 1 .. Len(file)  BY DEF TraceTypeOK
<1>2. Weight(Entry) \in Nat /\ Weights[pos + 1] = Weight(Entry)
  BY <1>1, LineTypes DEF Entry
<1>3. pos + 1 \notin 1 .. pos /\ 1 .. pos + 1 = 1 .. pos \union {pos + 1}  BY <1>1
<1>4. pos + 1 \notin closers  BY <1>3 DEF TraceTypeOK
<1>5. /\ IsFiniteSet(Units(Weights, 1 .. pos \union {pos + 1}))
      /\ Total(Weights, 1 .. pos \union {pos + 1}) = Total(Weights, 1 .. pos) + Weight(Entry)
  <2>1. IsFiniteSet(Units(Weights, 1 .. pos))  BY DEF FiniteSums
  <2> DEFINE old == 1 .. pos
             x == pos + 1
  <2>2. IsFiniteSet(Units(Weights, old)) /\ x \notin old /\ Weights[x] = Weight(Entry)
    BY <2>1, <1>2, <1>3
  <2> HIDE DEF old, x
  <2>3. /\ IsFiniteSet(Units(Weights, old \union {x}))
        /\ Total(Weights, old \union {x}) = Total(Weights, old) + Weight(Entry)
    BY <2>2, <1>2, NextTerm
  <2>4. QED  BY <2>3 DEF old, x
<1>6. /\ IsFiniteSet(Units(Weights, closers \union {pos + 1}))
      /\ Total(Weights, closers \union {pos + 1}) = Total(Weights, closers) + Weight(Entry)
  <2>1. IsFiniteSet(Units(Weights, closers))  BY DEF FiniteSums
  <2>2. QED  BY <2>1, <1>2, <1>4, NextTerm
<1>7. QED  BY <1>3, <1>5, <1>6

\* A closed interval takes what was counted.
LEMMA IntervalAdds ==
  ASSUME TraceTypeOK, FiniteSums
  PROVE  /\ Append(bw, cnt) \in Seq(Nat) /\ Len(Append(bw, cnt)) = Len(bw) + 1
         /\ IsFiniteSet(Units(Append(bw, cnt), 1 .. Len(bw) + 1))
         /\ Total(Append(bw, cnt), 1 .. Len(bw) + 1) = Total(bw, 1 .. Len(bw)) + cnt
<1> DEFINE n == Len(bw)
<1>1. bw \in Seq(Nat) /\ cnt \in Nat /\ n \in Nat  BY DEF TraceTypeOK
<1>2. /\ Append(bw, cnt) \in Seq(Nat) /\ Len(Append(bw, cnt)) = n + 1
      /\ Append(bw, cnt)[n + 1] = cnt /\ \A i \in 1 .. n : Append(bw, cnt)[i] = bw[i]
  BY <1>1, Appended
<1>3. n + 1 \notin 1 .. n /\ 1 .. n + 1 = 1 .. n \union {n + 1}  BY <1>1
<1>4. /\ IsFiniteSet(Units(Append(bw, cnt), 1 .. n \union {n + 1}))
      /\ Total(Append(bw, cnt), 1 .. n \union {n + 1}) = Total(bw, 1 .. n) + cnt
  <2>1. IsFiniteSet(Units(bw, 1 .. n))  BY DEF FiniteSums
  <2> DEFINE old == 1 .. n
             x == n + 1
             new == Append(bw, cnt)
  <2>2. /\ IsFiniteSet(Units(bw, old)) /\ x \notin old
        /\ new[x] = cnt /\ \A i \in old : new[i] = bw[i]
    BY <2>1, <1>2, <1>3
  <2> HIDE DEF old, x, new
  <2>3. /\ IsFiniteSet(Units(new, old \union {x}))
        /\ Total(new, old \union {x}) = Total(bw, old) + cnt
    BY <2>2, <1>1, FiniteInsert
  <2>4. QED  BY <2>3 DEF old, x, new
<1>5. QED  BY <1>2, <1>3, <1>4

LEMMA TotalTypes ==
  ASSUME FiniteSums
  PROVE  /\ Total(Weights, 1 .. pos) \in Nat /\ Total(Weights, closers) \in Nat
         /\ Total(bw, 1 .. Len(bw)) \in Nat
BY FS_CardinalityType DEF FiniteSums, Total

-----------------------------------------------------------------------------
(* One line of a loop *)

LEMMA CountStep ==
  ASSUME TraceTypeOK, SumInv, ReadsLine, Count
  PROVE  SumInv'
<1>1. /\ pos < Len(file) /\ pos' = pos + 1 /\ trPc' = "loop"
      /\ cnt' = cnt + Weight(Entry) /\ bw' = bw /\ closers' = closers /\ reader' = reader
  BY DEF ReadsLine, Count
<1>2. Weights' = Weights  BY DEF ReadsLine, Weights, Weight
<1>3. cnt \in Nat /\ Weight(Entry) \in Nat
  BY <1>1, LineTypes DEF TraceTypeOK, Entry
<1>4. FiniteSums'  BY <1>1, <1>2, LineAdds DEF SumInv, FiniteSums
<1>5. Total(Weights, 1 .. pos)' = Total(Weights, 1 .. pos) + Weight(Entry)
  BY <1>1, <1>2, LineAdds DEF SumInv
<1>6. /\ Total(Weights, closers)' = Total(Weights, closers)
      /\ Total(bw, 1 .. Len(bw))' = Total(bw, 1 .. Len(bw))
  BY <1>1, <1>2
<1>7. QED
  BY <1>1, <1>3, <1>4, <1>5, <1>6, TotalTypes DEF SumInv, Fresh, OnlyClosersLost, BytesKept

\* PlotThput goes on with the line that closed an interval, the others drop it.
LEMMA CloseStep ==
  ASSUME TraceTypeOK, SumInv, ReadsLine,
         Close(IF reader = "PlotThput" THEN Weight(Entry) ELSE 0)
  PROVE  SumInv'
<1>1. /\ pos < Len(file) /\ pos' = pos + 1 /\ trPc' = "loop" /\ reader' = reader
      /\ cnt' = (IF reader = "PlotThput" THEN Weight(Entry) ELSE 0)
      /\ bw' = Append(bw, cnt) /\ closers' = closers \union {pos + 1}
  BY DEF ReadsLine, Close
<1>2. Weights' = Weights  BY DEF ReadsLine, Weights, Weight
<1>3. cnt \in Nat /\ Weight(Entry) \in Nat
  <2>1. pos + 1 \in 1 .. Len(file)  BY <1>1 DEF TraceTypeOK
  <2>2. QED  BY <2>1, LineTypes DEF TraceTypeOK, Entry
<1>4. FiniteSums'  BY <1>1, <1>2, LineAdds, IntervalAdds DEF SumInv, FiniteSums
<1>5. /\ Total(Weights, 1 .. pos)' = Total(Weights, 1 .. pos) + Weight(Entry)
      /\ Total(Weights, closers)' = Total(Weights, closers) + Weight(Entry)
      /\ Total(bw, 1 .. Len(bw))' = Total(bw, 1 .. Len(bw)) + cnt
  BY <1>1, <1>2, LineAdds, IntervalAdds DEF SumInv
<1>6. QED
  BY <1>1, <1>3, <1>4, <1>5, TotalTypes DEF SumInv, Fresh, OnlyClosersLost, BytesKept

-----------------------------------------------------------------------------
(* A trace from its first line to its last *)

LEMMA LineExists ==
  ASSUME TraceTypeOK, ReadsLine
  PROVE  /\ pos + 1 \in 1 .. Len(file) /\ pos' = pos + 1 /\ pos' \in 0 .. Len(file)
         /\ Entry \in Entries /\ Entry.t \in Nat /\ Weight(Entry) \in Nat
         /\ UNCHANGED <<reader, step, file, trPc>>
<1>1. pos + 1 \in 1 .. Len(file)  BY DEF TraceTypeOK, ReadsLine
<1>2. QED  BY <1>1, LineTypes DEF TraceTypeOK, ReadsLine, Entry

LEMMA LoopTypes ==
  ASSUME TraceTypeOK
  PROVE  /\ step \in Nat \ {0} /\ cnt \in Nat /\ nextTime \in Nat \union {-1}
         /\ pos \in Nat /\ closers \subseteq 1 .. pos
         /\ bw \in Seq(Nat) /\ ends \in Seq(Nat)
         /\ Append(bw, cnt) \in Seq(Nat)
         /\ \A t \in Nat : Append(ends, t) \in Seq(Nat)
<1>1. /\ step \in Nat \ {0} /\ cnt \in Nat /\ nextTime \in Nat \union {-1}
      /\ pos \in Nat /\ closers \subseteq 1 .. pos
      /\ bw \in Seq(Nat) /\ ends \in Seq(Nat)
  BY DEF TraceTypeOK
<1>2. QED  BY <1>1, Appended

LEMMA TraceLineTypes ==
  ASSUME TraceTypeOK, ReadsLine, NEW rest \in Nat, Close(rest) \/ Count,
         ends' \in {ends, Append(ends, Entry.t)}
  PROVE  TraceTypeOK'
<1>1. ends' \in Seq(Nat)  BY LineExists, LoopTypes
<1>2. CASE Close(rest)
  <2>1. bw' \in Seq(Nat) /\ cnt' \in Nat /\ nextTime' \in Nat \union {-1}
    BY <1>2, LoopTypes DEF Close
  <2>2. closers' \subseteq 1 .. pos'  BY <1>2, LineExists, LoopTypes DEF Close
  <2>3. QED  BY <1>1, <2>1, <2>2, LineExists DEF TraceTypeOK
<1>3. CASE Count
  <2>1. bw' \in Seq(Nat) /\ cnt' \in Nat /\ nextTime' \in Nat \union {-1}
    BY <1>3, LoopTypes, LineExists DEF Count
  <2>2. closers' \subseteq 1 .. pos'  BY <1>3, LineExists, LoopTypes DEF Count
  <2>3. QED  BY <1>1, <2>1, <2>2, LineExists DEF TraceTypeOK
<1>4. QED  BY <1>2, <1>3

LEMMA TraceTypes ==
  ASSUME TraceTypeOK, TraceNext
  PROVE  TraceTypeOK'
<1>1. CASE FileLine
  <2>1. PICK entry \in Entries : file' = Append(file, entry)  BY <1>1 DEF FileLine
  <2>2. file' \in Seq(Entries) /\ Len(file') = Len(file) + 1
    <3> HIDE DEF Entries
    <3>1. QED  BY <2>1, Appended DEF TraceTypeOK
  <2>3. QED  BY <1>1, <2>2, TraceAssumption DEF FileLine, TraceTypeOK
<1>2. CASE FileOpen  BY <1>2 DEF FileOpen, TraceTypeOK
<1>3. CASE TraceLine  BY <1>3, TraceLineTypes DEF TraceLine
<1>4. CASE ChannelLine  BY <1>4, TraceLineTypes DEF ChannelLine
<1>5. CASE ThputLine
  <2>1. ReadsLine /\ Weight(Entry) \in Nat  BY <1>5, LineExists DEF ThputLine
  <2>2. CASE nextTime < 0
    <3>1. /\ nextTime' = Entry.t + step /\ cnt' = cnt + Weight(Entry)
          /\ UNCHANGED <<bw, ends, closers>>
      BY <1>5, <2>2 DEF ThputLine
    <3>2. cnt' \in Nat /\ nextTime' \in Nat \union {-1}
      BY <2>1, <3>1, LineExists, LoopTypes
    <3>3. bw' \in Seq(Nat) /\ ends' \in Seq(Nat) /\ closers' \subseteq 1 .. pos'
      BY <2>1, <3>1, LineExists, LoopTypes
    <3>4. QED  BY <2>1, <3>2, <3>3, LineExists DEF TraceTypeOK
  <2>3. CASE ~(nextTime < 0)
    BY <1>5, <2>1, <2>3, TraceLineTypes DEF ThputLine, ThputClose
  <2>4. QED  BY <2>2, <2>3
<1>6. CASE BgtraceEnd  BY <1>6 DEF BgtraceEnd, TraceTypeOK
<1>7. CASE ChannelEnd  BY <1>7 DEF ChannelEnd, TraceTypeOK
<1>8. CASE ThputEnd
  <2>1. CASE file = <<>>  BY <1>8, <2>1 DEF ThputEnd, TraceTypeOK
  <2>2. CASE file # <<>>
    <3>1. Len(file) \in 1 .. Len(file)  BY <2>2 DEF TraceTypeOK
    <3>2. bw' \in Seq(Nat) /\ ends' \in Seq(Nat)
      <4>1. bw' = Append(bw, cnt) /\ ends' = Append(ends, file[Len(file)].t)
        BY <1>8, <2>2 DEF ThputEnd
      <4>2. file[Len(file)].t \in Nat  BY <3>1, LineTypes
      <4>3. QED  BY <4>1, <4>2, LoopTypes
    <3>3. QED  BY <1>8, <2>2, <3>2 DEF ThputEnd, TraceTypeOK
  <2>3. QED  BY <2>1, <2>2
<1>9. QED  BY <1>1, <1>2, <1>3, <1>4, <1>5, <1>6, <1>7, <1>8 DEF TraceNext

LEMMA SumsStep ==
  ASSUME TraceTypeOK, SumInv, TraceNext
  PROVE  SumInv'
<1>1. CASE FileLine
  <2>1. pos' = 0 /\ cnt' = 0 /\ bw' = <<>> /\ closers' = {} /\ trPc' = "file"
    BY <1>1 DEF FileLine, SumInv, Fresh
  <2>2. /\ \A f : Total(f, {}) = 0 /\ IsFiniteSet(Units(f, {}))
        /\ 1 .. 0 = {} /\ Len(<<>>) = 0
    BY TotalEmpty, FS_EmptySet DEF Units
  <2>3. QED
    BY <2>1, <2>2 DEF SumInv, Fresh, FiniteSums, OnlyClosersLost, BytesKept
<1>2. CASE FileOpen
  BY <1>2
  DEF FileOpen, SumInv, Fresh, FiniteSums, OnlyClosersLost, BytesKept, Weights, Weight
<1>3. CASE TraceLine
  BY <1>3, CountStep, CloseStep DEF TraceLine
<1>4. CASE ChannelLine
  BY <1>4, CountStep, CloseStep DEF ChannelLine
<1>5. CASE ThputLine
  <2>1. CASE nextTime < 0
    <3>1. ReadsLine /\ reader = "PlotThput" /\ Weight(Entry) \in Nat /\ pos' = pos + 1
      BY <1>5, LineExists DEF ThputLine
    <3>2. /\ pos < Len(file) /\ cnt' = cnt + Weight(Entry)
          /\ bw' = bw /\ closers' = closers /\ trPc' = "loop" /\ reader' = reader
      BY <1>5, <2>1, <3>1 DEF ThputLine, ReadsLine
    <3>3. Weights' = Weights  BY <3>1 DEF ReadsLine, Weights, Weight
    <3>4. FiniteSums'  BY <3>1, <3>2, <3>3, LineAdds DEF SumInv, FiniteSums
    <3>5. Total(Weights, 1 .. pos)' = Total(Weights, 1 .. pos) + Weight(Entry)
      BY <3>1, <3>2, <3>3, LineAdds DEF SumInv
    <3>6. cnt \in Nat  BY DEF TraceTypeOK
    <3>7. QED
      BY <3>1, <3>2, <3>3, <3>4, <3>5, <3>6, TotalTypes
      DEF SumInv, Fresh, OnlyClosersLost, BytesKept
  <2>2. CASE ~(nextTime < 0)
    BY <1>5, <2>2, CountStep, CloseStep DEF ThputLine, ThputClose
  <2>3. QED  BY <2>1, <2>2
<1>6. CASE BgtraceEnd \/ ChannelEnd
  BY <1>6
  DEF BgtraceEnd, ChannelEnd, SumInv, Fresh, FiniteSums, OnlyClosersLost, BytesKept,
      Weights, Weight
<1>7. CASE ThputEnd
  <2>1. /\ trPc' # "file" /\ reader = "PlotThput" /\ pos' = pos /\ closers' = closers
        /\ UNCHANGED <<reader, file>>
    BY <1>7 DEF ThputEnd
  <2>2. Weights' = Weights  BY <2>1 DEF Weights, Weight
  <2>3. CASE file = <<>>
    BY <1>7, <2>1, <2>2, <2>3
    DEF ThputEnd, SumInv, Fresh, FiniteSums, OnlyClosersLost, BytesKept
  <2>4. CASE file # <<>>
    <3>1. bw' = Append(bw, cnt) /\ cnt' = 0  BY <1>7, <2>4 DEF ThputEnd
    <3>2. FiniteSums'  BY <2>1, <2>2, <3>1, IntervalAdds DEF SumInv, FiniteSums
    <3>3. Total(bw, 1 .. Len(bw))' = Total(bw, 1 .. Len(bw)) + cnt
      BY <3>1, IntervalAdds DEF SumInv
    <3>4. cnt \in Nat  BY DEF TraceTypeOK
    <3>5. QED
      BY <2>1, <2>2, <3>1, <3>2, <3>3, <3>4, TotalTypes
      DEF SumInv, Fresh, OnlyClosersLost, BytesKept
  <2>5. QED  BY <2>3, <2>4
<1>8. QED  BY <1>1, <1>2, <1>3, <1>4, <1>5, <1>6, <1>7 DEF TraceNext

-----------------------------------------------------------------------------
(* Where the intervals of parse_trace_file and channelsCap stand *)

Sorted == \A i, j \in 1 .. Len(file) : i < j => file[i].t <= file[j].t

\* The loop has come to interval Len(bw) + 1; what it has read of later
\* intervals were lines that closed one.
PlaceInv ==
  reader # "PlotThput" =>
    /\ nextTime = (Len(bw) + 1) * step
    /\ Len(bw) > 0 => pos > 0 /\ Len(bw) * step < file[pos].t
    /\ \A i \in 1 .. pos : i \notin closers => file[i].t <= nextTime
    /\ cnt = Total(Weights, InInterval(Len(bw) + 1) \ closers)
    /\ IntervalsKeepTheirs

\* A line that is counted lies in the current interval and in no earlier one.
LEMMA CountedHere ==
  ASSUME TraceTypeOK, Sorted, PlaceInv, ReadsLine, reader # "PlotThput",
         closers' = closers, Entry.t <= nextTime, NEW n \in Nat, n = Len(bw)
  PROVE  /\ \A k \in 1 .. n : (InInterval(k) \ closers)' = InInterval(k) \ closers
         /\ (InInterval(n + 1) \ closers)' = (InInterval(n + 1) \ closers) \union {pos + 1}
         /\ n > 0 => n * step < Entry.t
<1>1. /\ pos \in Nat /\ step \in Nat /\ closers \subseteq 1 .. pos
      /\ pos + 1 \in 1 .. Len(file) /\ pos' = pos + 1 /\ file' = file /\ step' = step
      /\ Entry.t \in Nat
  BY LoopTypes, LineExists
<1>2. Entry = file[pos + 1]  BY DEF Entry
<1>3. n > 0 => n * step < Entry.t
  <2>1. SUFFICES ASSUME n > 0  PROVE n * step < Entry.t
    OBVIOUS
  <2>2. pos > 0 /\ n * step < file[pos].t  BY <2>1 DEF PlaceInv
  <2>3. pos \in 1 .. Len(file) /\ file[pos].t \in Nat  BY <1>1, <2>2, LineTypes
  <2>4. file[pos].t <= file[pos + 1].t  BY <1>1, <2>3 DEF Sorted
  <2>5. n * step \in Nat  BY <1>1, Multiples
  <2>6. QED  BY <1>1, <1>2, <2>2, <2>3, <2>4, <2>5
<1>4. \A k \in 1 .. n : ~(Entry.t <= k * step)
  <2>1. SUFFICES ASSUME NEW k \in 1 .. n  PROVE ~(Entry.t <= k * step)
    OBVIOUS
  <2>2. k * step <= n * step /\ k * step \in Nat /\ n * step \in Nat
    BY <1>1, Multiples
  <2>3. QED  BY <1>1, <1>3, <2>1, <2>2
<1>5. Entry.t <= (n + 1) * step  BY DEF PlaceInv
<1>6. \A k \in 1 .. n : (InInterval(k) \ closers)' = InInterval(k) \ closers
  BY <1>1, <1>2, <1>4 DEF InInterval
<1>7. (InInterval(n + 1) \ closers)' = (InInterval(n + 1) \ closers) \union {pos + 1}
  <2>1. pos + 1 \notin closers  BY <1>1
  <2>2. n + 1 = 1 \/ (n + 1 - 1) * step < Entry.t
    <3>1. n = 0 \/ n * step < Entry.t  BY <1>3
    <3>2. n + 1 - 1 = n  OBVIOUS
    <3>3. QED  BY <3>1, <3>2
  <2>3. 1 .. pos + 1 = 1 .. pos \union {pos + 1}  BY <1>1
  <2>4. InInterval(n + 1)' = InInterval(n + 1) \union {pos + 1}
    BY <1>1, <1>2, <1>5, <2>2, <2>3 DEF InInterval
  <2>5. QED  BY <2>1, <2>4
<1>8. QED  BY <1>3, <1>6, <1>7

\* A line that closes an interval is in none, and the next one is empty so far.
LEMMA NewInterval ==
  ASSUME TraceTypeOK, PlaceInv, ReadsLine, reader # "PlotThput",
         closers' = closers \union {pos + 1}, NEW n \in Nat, n = Len(bw)
  PROVE  /\ \A k \in 1 .. n + 1 : (InInterval(k) \ closers)' = InInterval(k) \ closers
         /\ (InInterval(n + 2) \ closers)' = {}
<1>1. /\ pos \in Nat /\ step \in Nat /\ closers \subseteq 1 .. pos
      /\ pos' = pos + 1 /\ file' = file /\ step' = step
      /\ pos + 1 \in 1 .. Len(file)
  BY LoopTypes, LineExists
<1>2. 1 .. pos + 1 = 1 .. pos \union {pos + 1}  BY <1>1
<1>3. \A k \in 1 .. n + 2 : (InInterval(k) \ closers)' = InInterval(k) \ closers
  BY <1>1, <1>2 DEF InInterval
<1>4. InInterval(n + 2) \ closers = {}
  <2>1. SUFFICES ASSUME NEW i \in 1 .. pos, i \notin closers,
                        n + 2 = 1 \/ (n + 2 - 1) * step < file[i].t
                 PROVE  FALSE
    BY DEF InInterval
  <2>2. n + 2 # 1 /\ n + 2 - 1 = n + 1  OBVIOUS
  <2>3. (n + 1) * step < file[i].t /\ file[i].t <= (n + 1) * step
    BY <2>1, <2>2 DEF PlaceInv
  <2>4. file[i].t \in Nat /\ (n + 1) * step \in Nat
    BY <1>1, LineTypes, Multiples
  <2>5. QED  BY <2>3, <2>4
<1>5. QED  BY <1>3, <1>4

LEMMA PartIsFinite ==
  ASSUME FiniteSums, NEW S \in SUBSET (1 .. pos)
  PROVE  IsFiniteSet(Units(Weights, S))
<1>1. Units(Weights, S) \subseteq Units(Weights, 1 .. pos)  BY DEF Units
<1>2. IsFiniteSet(Units(Weights, 1 .. pos))  BY DEF FiniteSums
<1>3. QED  BY <1>1, <1>2, FS_Subset

LEMMA CountPlaced ==
  ASSUME TraceTypeOK, FiniteSums, Sorted, PlaceInv, reader # "PlotThput",
         ReadsLine, Count, Entry.t <= nextTime
  PROVE  PlaceInv'
<1> DEFINE n == Len(bw)
           here == InInterval(n + 1) \ closers
           x == pos + 1
<1>1. /\ n \in Nat /\ pos \in Nat /\ x \in 1 .. Len(file) /\ pos' = x
      /\ closers \subseteq 1 .. pos /\ Weight(Entry) \in Nat
      /\ UNCHANGED <<reader, step, file, bw, closers, nextTime>>
      /\ cnt' = cnt + Weight(Entry)
  BY LoopTypes, LineExists DEF Count
<1>2. Weights' = Weights /\ Weights[x] = Weight(Entry)
  BY <1>1, LineTypes DEF Weights, Weight, Entry
<1>3. /\ \A k \in 1 .. n : (InInterval(k) \ closers)' = InInterval(k) \ closers
      /\ (InInterval(n + 1) \ closers)' = here \union {x}
      /\ n > 0 => n * step < Entry.t
  BY <1>1, CountedHere
<1>4. cnt' = Total(Weights, here \union {x})
  <2>1. here \in SUBSET (1 .. pos) /\ x \notin here  BY <1>1 DEF InInterval
  <2>2. IsFiniteSet(Units(Weights, here))  BY <2>1, PartIsFinite
  <2>3. cnt = Total(Weights, here)  BY DEF PlaceInv
  <2> HIDE DEF here, x
  <2>4. QED  BY <1>1, <1>2, <2>1, <2>2, <2>3, NextTerm
<1>5. IntervalsKeepTheirs'
  <2>1. SUFFICES ASSUME NEW k \in 1 .. n
                 PROVE  bw'[k] = Total(Weights', (InInterval(k) \ closers)')
    BY <1>1 DEF IntervalsKeepTheirs
  <2>2. bw[k] = Total(Weights, InInterval(k) \ closers)
    BY <2>1 DEF PlaceInv, IntervalsKeepTheirs
  <2>3. QED  BY <1>1, <1>2, <1>3, <2>2
<1>6. \A i \in 1 .. pos' : i \notin closers' => file'[i].t <= nextTime'
  <2>1. \A i \in 1 .. pos : i \notin closers => file[i].t <= nextTime  BY DEF PlaceInv
  <2>2. file[x].t <= nextTime  BY DEF Entry
  <2>3. QED  BY <1>1, <2>1, <2>2
<1>7. n > 0 => pos' > 0 /\ n * step < file'[pos'].t  BY <1>1, <1>3 DEF Entry
<1>8. nextTime' = (n + 1) * step  BY <1>1 DEF PlaceInv
<1>9. cnt' = Total(Weights', (InInterval(Len(bw) + 1) \ closers)')
  BY <1>1, <1>2, <1>3, <1>4
<1>10. QED  BY <1>1, <1>5, <1>6, <1>7, <1>8, <1>9 DEF PlaceInv

LEMMA ClosePlaced ==
  ASSUME TraceTypeOK, PlaceInv, reader # "PlotThput",
         ReadsLine, Close(0), Closes
  PROVE  PlaceInv'
<1> DEFINE x == pos + 1
<1>0. PICK n \in Nat : n = Len(bw)  BY LoopTypes
<1>1. /\ pos \in Nat /\ x \in 1 .. Len(file) /\ pos' = x
      /\ step \in Nat /\ Entry.t \in Nat /\ bw \in Seq(Nat) /\ cnt \in Nat
      /\ UNCHANGED <<reader, step, file>>
      /\ closers' = closers \union {x} /\ bw' = Append(bw, cnt) /\ cnt' = 0
      /\ nextTime' = nextTime + step
  BY LoopTypes, LineExists DEF Close
<1>2. Weights' = Weights  BY <1>1 DEF Weights, Weight
<1>3. /\ \A k \in 1 .. n + 1 : (InInterval(k) \ closers)' = InInterval(k) \ closers
      /\ (InInterval(n + 2) \ closers)' = {}
  <2>1. closers' = closers \union {pos + 1}  BY DEF Close
  <2>2. QED  BY <1>0, <2>1, NewInterval
<1>4. /\ Len(bw') = n + 1 /\ bw'[n + 1] = cnt /\ \A k \in 1 .. n : bw'[k] = bw[k]
  BY <1>0, <1>1, Appended
<1>5. nextTime = (n + 1) * step  BY <1>0 DEF PlaceInv
<1>6. nextTime' = (n + 2) * step
  <2>1. (n + 1 + 1) * step = (n + 1) * step + step  BY <1>1, Multiples
  <2>2. n + 1 + 1 = n + 2  BY <1>1
  <2>3. QED  BY <1>1, <1>5, <2>1, <2>2
<1>7. IntervalsKeepTheirs'
  <2>1. SUFFICES ASSUME NEW k \in 1 .. n + 1
                 PROVE  bw'[k] = Total(Weights', (InInterval(k) \ closers)')
    BY <1>0, <1>4 DEF IntervalsKeepTheirs
  <2>2. CASE k = n + 1
    <3>1. cnt = Total(Weights, InInterval(n + 1) \ closers)  BY <1>0 DEF PlaceInv
    <3>2. QED  BY <1>2, <1>3, <1>4, <2>2, <3>1
  <2>3. CASE k # n + 1
    <3>1. k \in 1 .. n  BY <1>1, <2>3
    <3>2. bw[k] = Total(Weights, InInterval(k) \ closers)
      BY <1>0, <3>1 DEF PlaceInv, IntervalsKeepTheirs
    <3>3. QED  BY <1>2, <1>3, <1>4, <3>1, <3>2
  <2>4. QED  BY <2>2, <2>3
<1>8. \A i \in 1 .. pos' : i \notin closers' => file'[i].t <= nextTime'
  <2>1. SUFFICES ASSUME NEW i \in 1 .. x, i \notin closers, i # x
                 PROVE  file[i].t <= nextTime + step
    BY <1>1
  <2>2. i \in 1 .. pos  BY <1>1, <2>1
  <2>3. file[i].t <= nextTime  BY <2>1, <2>2 DEF PlaceInv
  <2>4. file[i].t \in Nat /\ nextTime \in Int  BY <1>1, <2>1, LineTypes, LoopTypes
  <2>5. QED  BY <1>1, <2>3, <2>4
<1>9. pos' > 0 /\ (n + 1) * step < file'[pos'].t
  BY <1>1, <1>5 DEF Closes, Entry
<1>10. cnt' = Total(Weights', (InInterval(n + 2) \ closers)')
  BY <1>1, <1>3, TotalEmpty
<1>11. Len(bw') + 1 = n + 2  BY <1>1, <1>4
<1>12. /\ nextTime' = (Len(bw') + 1) * step'
       /\ pos' > 0 /\ Len(bw') * step' < file'[pos'].t
       /\ cnt' = Total(Weights', (InInterval(Len(bw) + 1) \ closers)')
  <2>1. (Len(bw) + 1)' = n + 2 /\ Len(bw') = n + 1 /\ step' = step  BY <1>1, <1>4, <1>11
  <2>2. (InInterval(Len(bw) + 1) \ closers)' = (InInterval(n + 2) \ closers)'
    BY <2>1 DEF InInterval
  <2>3. QED  BY <1>6, <1>9, <1>10, <2>1, <2>2
<1>13. QED  BY <1>7, <1>8, <1>12 DEF PlaceInv

LEMMA StaysSorted ==
  ASSUME TraceTypeOK, Sorted, TraceNext
  PROVE  Sorted'
<1>1. CASE FileLine
  <2>1. PICK entry \in Entries :
          /\ file # <<>> => file[Len(file)].t <= entry.t
          /\ file' = Append(file, entry)
    BY <1>1 DEF FileLine
  <2> DEFINE n == Len(file)
  <2>2. n \in Nat /\ file \in Seq(Entries)  BY DEF TraceTypeOK
  <2>3. Len(file') = n + 1 /\ file'[n + 1] = entry /\ \A i \in 1 .. n : file'[i] = file[i]
    <3> HIDE DEF Entries
    <3>1. QED  BY <2>1, <2>2, Appended
  <2>4. \A i \in 1 .. n : file[i].t <= entry.t
    <3>1. SUFFICES ASSUME NEW i \in 1 .. n  PROVE file[i].t <= entry.t
      OBVIOUS
    <3>2. n \in 1 .. n /\ file # <<>>  BY <2>2
    <3>3. file[i].t \in Nat /\ file[n].t \in Nat /\ entry.t \in Nat
      BY <3>1, <3>2, LineTypes, TraceAssumption DEF Entries
    <3>4. file[i].t <= file[n].t  BY <3>1, <3>2, <3>3 DEF Sorted
    <3>5. QED  BY <2>1, <3>2, <3>3, <3>4
  <2>5. SUFFICES ASSUME NEW i \in 1 .. n + 1, NEW j \in 1 .. n + 1, i < j
                 PROVE  file'[i].t <= file'[j].t
    BY <2>3 DEF Sorted
  <2>6. i \in 1 .. n  BY <2>2, <2>5
  <2>7. CASE j = n + 1  BY <2>3, <2>4, <2>6, <2>7
  <2>8. CASE j # n + 1
    <3>1. j \in 1 .. n  BY <2>2, <2>8
    <3>2. QED  BY <2>3, <2>5, <2>6, <3>1 DEF Sorted
  <2>9. QED  BY <2>7, <2>8
<1>2. CASE ~FileLine
  <2>1. file' = file
    BY <1>2
    DEF TraceNext, FileOpen, TraceLine, ChannelLine, ThputLine, ReadsLine,
        BgtraceEnd, ChannelEnd, ThputEnd
  <2>2. QED  BY <2>1 DEF Sorted
<1>3. QED  BY <1>1, <1>2

LEMMA PlaceStep ==
  ASSUME TraceTypeOK, SumInv, Sorted, PlaceInv, TraceNext
  PROVE  PlaceInv'
<1>1. reader' = reader
  BY DEF TraceNext, FileLine, FileOpen, TraceLine, ChannelLine, ThputLine, ReadsLine,
         BgtraceEnd, ChannelEnd, ThputEnd
<1>2. SUFFICES ASSUME reader # "PlotThput"  PROVE PlaceInv'
  BY <1>1 DEF PlaceInv
<1>3. FiniteSums  BY DEF SumInv
<1>4. CASE FileLine
  <2>1. /\ pos' = 0 /\ cnt' = 0 /\ bw' = <<>> /\ nextTime' = nextTime /\ step' = step
        /\ bw = <<>>
    BY <1>4 DEF FileLine, SumInv, Fresh
  <2>2. 1 .. 0 = {} /\ Len(<<>>) = 0  OBVIOUS
  <2>3. InInterval(Len(bw) + 1)' = {}  BY <2>1, <2>2 DEF InInterval
  <2>4. IntervalsKeepTheirs'  BY <2>1, <2>2 DEF IntervalsKeepTheirs
  <2>5. nextTime' = (Len(bw') + 1) * step'  BY <1>2, <2>1 DEF PlaceInv
  <2>6. cnt' = Total(Weights', (InInterval(Len(bw) + 1) \ closers)')
    BY <2>1, <2>3, TotalEmpty
  <2>7. QED  BY <2>1, <2>2, <2>4, <2>5, <2>6 DEF PlaceInv
<1>5. CASE TraceLine \/ ChannelLine
  <2>1. ReadsLine /\ (IF Closes THEN Close(0) ELSE Count)
    BY <1>5 DEF TraceLine, ChannelLine
  <2>2. CASE Closes  BY <1>2, <2>1, <2>2, ClosePlaced
  <2>3. CASE ~Closes
    <3>1. Entry.t \in Nat /\ nextTime \in Int  BY <2>1, LineExists, LoopTypes
    <3>2. Entry.t <= nextTime  BY <2>3, <3>1 DEF Closes
    <3>3. QED  BY <1>2, <1>3, <2>1, <2>3, <3>2, CountPlaced
  <2>4. QED  BY <2>2, <2>3
<1>6. CASE FileOpen \/ BgtraceEnd \/ ChannelEnd
  BY <1>6
  DEF FileOpen, BgtraceEnd, ChannelEnd, PlaceInv, IntervalsKeepTheirs, InInterval,
      Weights, Weight
<1>7. CASE ThputLine \/ ThputEnd  BY <1>2, <1>7 DEF ThputLine, ThputEnd
<1>8. QED  BY <1>4, <1>5, <1>6, <1>7 DEF TraceNext

-----------------------------------------------------------------------------
(* Theorems about traces *)

TraceInv == TraceTypeOK /\ SumInv /\ Sorted /\ PlaceInv

LEMMA TraceInvInit == Init => TraceInv
<1> SUFFICES ASSUME Init  PROVE TraceInv
  OBVIOUS
<1>1. /\ reader \in Readers /\ step \in Steps
      /\ file = <<>> /\ trPc = "file" /\ pos = 0 /\ cnt = 0
      /\ nextTime = (IF reader = "PlotThput" THEN -1 ELSE step)
      /\ bw = <<>> /\ ends = <<>> /\ closers = {}
  BY DEF Init, TraceInit
<1>2. step \in Nat \ {0}  BY <1>1, TraceAssumption
<1>3. 1 .. 0 = {} /\ Len(<<>>) = 0 /\ <<>> \in Seq(Entries) /\ <<>> \in Seq(Nat)
  <2> HIDE DEF Entries
  <2>1. QED  OBVIOUS
<1>4. TraceTypeOK  BY <1>1, <1>2, <1>3, TraceAssumption DEF TraceTypeOK
<1>5. \A f : Total(f, {}) = 0 /\ IsFiniteSet(Units(f, {}))
  BY TotalEmpty, FS_EmptySet DEF Units
<1>6. SumInv  BY <1>1, <1>3, <1>5 DEF SumInv, Fresh, FiniteSums, OnlyClosersLost, BytesKept
<1>7. PlaceInv
  <2>1. InInterval(Len(bw) + 1) = {}  BY <1>1, <1>3 DEF InInterval
  <2>2. reader # "PlotThput" => nextTime = (Len(bw) + 1) * step  BY <1>1, <1>2, <1>3
  <2>3. IntervalsKeepTheirs  BY <1>1, <1>3 DEF IntervalsKeepTheirs
  <2>4. cnt = Total(Weights, InInterval(Len(bw) + 1) \ closers)  BY <1>1, <1>5, <2>1
  <2>5. QED  BY <1>1, <1>3, <2>2, <2>3, <2>4 DEF PlaceInv
<1>8. Sorted  BY <1>1, <1>3 DEF Sorted
<1>9. QED  BY <1>4, <1>6, <1>7, <1>8 DEF TraceInv

LEMMA TraceInvStep == TraceInv /\ [Next]_vars => TraceInv'
<1> SUFFICES ASSUME TraceInv, [Next]_vars  PROVE TraceInv'
  OBVIOUS
<1>1. CASE TraceNext
  BY <1>1, TraceTypes, SumsStep, StaysSorted, PlaceStep DEF TraceInv
<1>2. CASE UNCHANGED traceVars
  <2>1. UNCHANGED <<reader, step, file, trPc, pos, nextTime, cnt, bw, ends, closers>>
    BY <1>2 DEF traceVars
  <2>2. TraceTypeOK'  BY <2>1 DEF TraceInv, TraceTypeOK
  <2>3. SumInv' /\ Sorted' /\ PlaceInv'
    BY <2>1
    DEF TraceInv, SumInv, Fresh, FiniteSums, OnlyClosersLost, BytesKept, Sorted,
        PlaceInv, IntervalsKeepTheirs, InInterval, Weights, Weight
  <2>4. QED  BY <2>2, <2>3 DEF TraceInv
<1>3. QED  BY <1>1, <1>2 DEF Next, vars

LEMMA TraceInvariant == Spec => []TraceInv
BY TraceInvInit, TraceInvStep, PTL DEF Spec

\* parse_trace_file, channelsCap.py: for every file, interval length and number of
\* gaps, a closed interval holds the lines of its own time and no others, but
\* those that closed an interval.
THEOREM IntervalsAreTheirs == Spec => []IntervalsKeepTheirs
<1>1. TraceInv => IntervalsKeepTheirs
  BY DEF TraceInv, PlaceInv, IntervalsKeepTheirs
<1>2. QED  BY <1>1, TraceInvariant, PTL

\* All three loops, whatever the file: what parse_trace_file and channelsCap.py lose
\* is the lines that closed an interval; PlotThput plots every byte, once.
THEOREM NothingElseLost == Spec => []LinesAreKept
<1>1. TraceInv => LinesAreKept  BY DEF TraceInv, SumInv, LinesAreKept
<1>2. QED  BY <1>1, TraceInvariant, PTL

-----------------------------------------------------------------------------
(* Logs of a link: what is written *)

LEMMA Joined ==
  ASSUME NEW S, NEW s \in Seq(S), NEW t \in Seq(S)
  PROVE  /\ s \o t \in Seq(S)
         /\ Len(s \o t) = Len(s) + Len(t)
         /\ \A i \in 1 .. Len(s) : (s \o t)[i] = s[i]
         /\ \A i \in 1 .. Len(t) : (s \o t)[Len(s) + i] = t[i]
OBVIOUS

LEMMA Listed ==
  ASSUME NEW S, NEW a \in S, NEW b \in S
  PROVE  /\ <<a>> \in Seq(S) /\ Len(<<a>>) = 1 /\ <<a>>[1] = a
         /\ <<a, b>> \in Seq(S) /\ Len(<<a, b>>) = 2 /\ <<a, b>>[1] = a /\ <<a, b>>[2] = b
OBVIOUS

LEMMA QueueFacts ==
  ASSUME NEW s \in Seq(Nat)
  PROVE  /\ s # <<>> => /\ Head(s) \in Nat /\ Head(s) = s[1] /\ 1 \in 1 .. Len(s)
                        /\ Tail(s) \in Seq(Nat) /\ Len(Tail(s)) = Len(s) - 1
                        /\ \A i \in 1 .. Len(s) - 1 : Tail(s)[i] = s[i + 1]
OBVIOUS

\* Times never go back, neither in the log nor in the queue.
LogSorted ==
  /\ base <= now
  /\ \A i \in 1 .. Len(queue) : queue[i] <= now
  /\ \A i \in 1 .. Len(log) : base <= log[i].t /\ log[i].t <= now
  /\ \A i, j \in 1 .. Len(log) : i < j => log[i].t <= log[j].t

Unread ==
  /\ mmPc = "log" => at = 0
  /\ mmPc \in {"log", "delays"} =>
       bins = [k \in {0} |-> NoBits] /\ binCur = 0 /\ totals = NoBits

LEMMA LogLine ==
  ASSUME MmTypeOK, NEW i \in 1 .. Len(log)
  PROVE  /\ log[i] \in Lines /\ log[i].t \in Nat /\ log[i].len \in 0 .. MaxLen
         /\ log[i].len \in Nat /\ log[i].ev \in Events
<1>1. log[i] \in Lines
  <2> HIDE DEF Lines
  <2>1. QED  BY Element DEF MmTypeOK
<1>2. QED  BY <1>1, MmLogAssumption DEF Lines

\* What the link writes is written now.
LEMMA LogGrows ==
  ASSUME MmTypeOK, LogSorted, NEW lines \in Seq(Lines), Writes(lines),
         \A i \in 1 .. Len(lines) : lines[i].t = now
  PROVE  /\ log' \in Seq(Lines) /\ at' \in 0 .. Len(log')
         /\ \A i \in 1 .. Len(log') : base' <= log'[i].t /\ log'[i].t <= now'
         /\ \A i, j \in 1 .. Len(log') : i < j => log'[i].t <= log'[j].t
<1> DEFINE n == Len(log)
           m == Len(lines)
<1>1. /\ n \in Nat /\ m \in Nat /\ log' = log \o lines /\ at' = at /\ at \in 0 .. n
      /\ UNCHANGED <<now, base>> /\ log \in Seq(Lines) /\ now \in Nat /\ base \in Nat
  BY DEF Writes, MmTypeOK
<1>2. /\ log' \in Seq(Lines) /\ Len(log') = n + m
      /\ \A i \in 1 .. n : log'[i] = log[i]
      /\ \A i \in 1 .. m : log'[n + i] = lines[i]
  <2> HIDE DEF Lines
  <2>1. QED  BY <1>1, Joined
<1>3. \A i \in 1 .. n + m : i \notin 1 .. n => log'[i].t = now
  <2>1. SUFFICES ASSUME NEW i \in 1 .. n + m, i \notin 1 .. n  PROVE log'[i].t = now
    OBVIOUS
  <2>2. i - n \in 1 .. m /\ n + (i - n) = i  BY <1>1, <2>1
  <2>3. QED  BY <1>2, <2>2
<1>4. \A i \in 1 .. n : log'[i].t = log[i].t /\ base <= log[i].t /\ log[i].t <= now
  BY <1>2 DEF LogSorted
<1>5. \A i \in 1 .. n + m : base <= log'[i].t /\ log'[i].t <= now
  BY <1>1, <1>3, <1>4 DEF LogSorted
<1>6. \A i, j \in 1 .. n + m : i < j => log'[i].t <= log'[j].t
  <2>1. SUFFICES ASSUME NEW i \in 1 .. n + m, NEW j \in 1 .. n + m, i < j
                 PROVE  log'[i].t <= log'[j].t
    OBVIOUS
  <2>2. CASE j \in 1 .. n
    <3>1. i \in 1 .. n  BY <1>1, <2>1, <2>2
    <3>2. QED  BY <1>4, <2>1, <2>2, <3>1 DEF LogSorted
  <2>3. CASE j \notin 1 .. n  BY <1>3, <1>5, <2>3
  <2>4. QED  BY <2>2, <2>3
<1>7. QED  BY <1>1, <1>2, <1>5, <1>6

LEMMA Written ==
  ASSUME MmTypeOK, NEW len \in 0 .. MaxLen, NEW ev \in Events, NEW delay \in Nat
  PROVE  Line(ev, len, delay) \in Lines /\ Line(ev, len, delay).t = now
BY DEF MmTypeOK, Line, Lines

LEMMA LinkStep ==
  ASSUME MmTypeOK, LogSorted, Unread, LinkNext
  PROVE  MmTypeOK' /\ LogSorted' /\ Unread'
<1>1. /\ now \in Nat /\ base \in Nat /\ queue \in Seq(Nat) /\ Len(queue) \in Nat
      /\ MaxLen \in 0 .. MaxLen /\ Events = {"#", "+", "-", "d"} /\ mmPc = "log"
      /\ UNCHANGED <<base, mmPc, width, at, delays, binVars>>
  BY MmLogAssumption
  DEF MmTypeOK, Events, Counted, LinkNext, LinkTick, LinkArrive, LinkDrop,
      LinkOpportunity, LinkDepart, Writes
<1>2. Unread'  BY <1>1 DEF Unread, binVars
<1>3. CASE LinkTick
  <2>1. now' = now + 1 /\ UNCHANGED <<queue, log>>  BY <1>3 DEF LinkTick
  <2>2. MmTypeOK'  BY <1>1, <2>1 DEF MmTypeOK, binVars
  <2>3. LogSorted'
    <3>1. \A i \in 1 .. Len(queue) : queue[i] <= now + 1
      BY <1>1, Element DEF LogSorted
    <3>2. \A i \in 1 .. Len(log) : base <= log[i].t /\ log[i].t <= now + 1
      BY <1>1, LogLine DEF LogSorted
    <3>3. QED  BY <1>1, <2>1, <3>1, <3>2 DEF LogSorted
  <2>4. QED  BY <1>2, <2>2, <2>3
<1>4. ASSUME NEW lines \in Seq(Lines), Writes(lines),
             \A i \in 1 .. Len(lines) : lines[i].t = now,
             queue' \in Seq(Nat), \A i \in 1 .. Len(queue') : queue'[i] <= now
      PROVE  MmTypeOK' /\ LogSorted'
  <2>1. /\ log' \in Seq(Lines) /\ at' \in 0 .. Len(log')
        /\ \A i \in 1 .. Len(log') : base' <= log'[i].t /\ log'[i].t <= now'
        /\ \A i, j \in 1 .. Len(log') : i < j => log'[i].t <= log'[j].t
    BY <1>4, LogGrows
  <2>2. now' = now  BY <1>4 DEF Writes
  <2>3. MmTypeOK'
    <3> HIDE DEF Lines
    <3>1. QED  BY <1>1, <1>4, <2>1, <2>2 DEF MmTypeOK, binVars
  <2>4. LogSorted'  BY <1>1, <1>4, <2>1, <2>2 DEF LogSorted
  <2>5. QED  BY <2>3, <2>4
<1>5. CASE LinkArrive
  <2>1. queue' = Append(queue, now) /\ Writes(<<Line("+", MaxLen, 0)>>)
    BY <1>5 DEF LinkArrive
  <2>2. Line("+", MaxLen, 0) \in Lines /\ Line("+", MaxLen, 0).t = now  BY <1>1, Written
  <2>3. queue' \in Seq(Nat) /\ \A i \in 1 .. Len(queue') : queue'[i] <= now
    <3>1. /\ queue' \in Seq(Nat) /\ Len(queue') = Len(queue) + 1
          /\ queue'[Len(queue) + 1] = now /\ \A i \in 1 .. Len(queue) : queue'[i] = queue[i]
      BY <1>1, <2>1, Appended
    <3>2. \A i \in 1 .. Len(queue) : queue[i] <= now  BY DEF LogSorted
    <3>3. SUFFICES ASSUME NEW i \in 1 .. Len(queue) + 1  PROVE queue'[i] <= now
      BY <3>1
    <3>4. i = Len(queue) + 1 \/ i \in 1 .. Len(queue)  BY <1>1, <3>3
    <3>5. QED  BY <1>1, <3>1, <3>2, <3>4
  <2> DEFINE line == Line("+", MaxLen, 0)
  <2>4. /\ <<line>> \in Seq(Lines) /\ Writes(<<line>>)
        /\ \A i \in 1 .. Len(<<line>>) : <<line>>[i].t = now
    <3>1. line \in Lines /\ line.t = now /\ Writes(<<line>>)  BY <2>1, <2>2
    <3> HIDE DEF line, Lines
    <3>2. QED  BY <3>1, Listed
  <2> HIDE DEF line
  <2>5. MmTypeOK' /\ LogSorted'  BY <1>4, <2>3, <2>4
  <2>6. QED  BY <1>2, <2>5
<1>6. CASE LinkDrop
  <2> DEFINE first == Line("+", MaxLen, 0)
             second == Line("d", 1, 0)
             lines == <<first, second>>
  <2>1. queue' = queue /\ Writes(lines)  BY <1>6 DEF LinkDrop
  <2>2. first \in Lines /\ first.t = now /\ second \in Lines /\ second.t = now
    BY <1>1, Written, MmLogAssumption
  <2>3. lines \in Seq(Lines) /\ \A i \in 1 .. Len(lines) : lines[i].t = now
    <3> HIDE DEF first, second, Lines
    <3>1. QED  BY <2>2, Listed
  <2>4. queue' \in Seq(Nat) /\ \A i \in 1 .. Len(queue') : queue'[i] <= now
    BY <1>1, <2>1 DEF LogSorted
  <2> HIDE DEF lines
  <2>5. MmTypeOK' /\ LogSorted'  BY <1>4, <2>1, <2>3, <2>4
  <2>6. QED  BY <1>2, <2>5
<1>7. CASE LinkOpportunity
  <2> DEFINE line == Line("#", MaxLen, 0)
             lines == <<line>>
  <2>1. queue' = queue /\ Writes(lines)  BY <1>7 DEF LinkOpportunity
  <2>2. line \in Lines /\ line.t = now  BY <1>1, Written
  <2>3. lines \in Seq(Lines) /\ \A i \in 1 .. Len(lines) : lines[i].t = now
    <3> HIDE DEF line, Lines
    <3>1. QED  BY <2>2, Listed
  <2>4. queue' \in Seq(Nat) /\ \A i \in 1 .. Len(queue') : queue'[i] <= now
    BY <1>1, <2>1 DEF LogSorted
  <2> HIDE DEF lines
  <2>5. MmTypeOK' /\ LogSorted'  BY <1>4, <2>1, <2>3, <2>4
  <2>6. QED  BY <1>2, <2>5
<1>8. CASE LinkDepart
  <2> DEFINE line == Line("-", MaxLen, now - Head(queue))
             lines == <<line>>
  <2>1. queue # <<>> /\ queue' = Tail(queue) /\ Writes(lines)  BY <1>8 DEF LinkDepart
  <2>2. now - Head(queue) \in Nat
    <3>1. Head(queue) \in Nat /\ Head(queue) = queue[1] /\ 1 \in 1 .. Len(queue)
      BY <1>1, <2>1, QueueFacts
    <3>2. queue[1] <= now  BY <3>1 DEF LogSorted
    <3>3. QED  BY <1>1, <3>1, <3>2
  <2>3. line \in Lines /\ line.t = now  BY <1>1, <2>2, Written
  <2>4. lines \in Seq(Lines) /\ \A i \in 1 .. Len(lines) : lines[i].t = now
    <3> HIDE DEF line, Lines
    <3>1. QED  BY <2>3, Listed
  <2>5. queue' \in Seq(Nat) /\ \A i \in 1 .. Len(queue') : queue'[i] <= now
    BY <1>1, <2>1, QueueFacts DEF LogSorted
  <2> HIDE DEF lines
  <2>6. MmTypeOK' /\ LogSorted'  BY <1>4, <2>1, <2>4, <2>5
  <2>7. QED  BY <1>2, <2>6
<1>9. QED  BY <1>3, <1>5, <1>6, <1>7, <1>8 DEF LinkNext

-----------------------------------------------------------------------------
(* Logs of a link: what is read *)

\* What the bins and the totals hold of the lines read so far.
BinsInv ==
  mmPc \in {"bins", "error", "done"} =>
    /\ \A i \in 1 .. at : BinOf(log[i]) <= binCur
    /\ at = 0 => binCur = 0
    /\ at > 0 => binCur = BinOf(log[at])
    /\ \A k \in 0 .. binCur : \A ev \in Counted :
         bins[k][ev] = 8 * Total(Lens, LinesIn(k, ev))
    /\ \A ev \in Counted : totals[ev] = 8 * Total(Lens, LinesOf(ev))

MmInv == MmTypeOK /\ LogSorted /\ Unread /\ BinsInv

LEMMA QuotientGrows ==
  ASSUME NEW m \in Nat, NEW n \in Nat, NEW d \in Nat \ {0}, m <= n
  PROVE  m \div d \in Nat /\ m \div d <= n \div d
OBVIOUS

\* No part of the log is too large to be summed.
LEMMA PartOfLog ==
  ASSUME MmTypeOK, NEW S \in SUBSET (1 .. Len(log))
  PROVE  IsFiniteSet(Units(Lens, S)) /\ Total(Lens, S) \in Nat
<1>1. Len(log) \in Nat /\ IsFiniteSet(1 .. Len(log))  BY FS_Interval DEF MmTypeOK
<1>2. IsFiniteSet(S)  BY <1>1, FS_Subset
<1>3. \A i \in S : Lens[i] \in 0 .. MaxLen  BY LogLine DEF Lens
<1>4. MaxLen \in Nat  BY MmLogAssumption
<1>5. QED  BY <1>2, <1>3, <1>4, TotalUpper

LEMMA LineJoins ==
  ASSUME MmTypeOK, NEW S \in SUBSET (1 .. at), at + 1 \in 1 .. Len(log)
  PROVE  8 * Total(Lens, S \union {at + 1}) = 8 * Total(Lens, S) + Bits(log[at + 1])
<1> DEFINE x == at + 1
<1>1. at \in 0 .. Len(log) /\ Len(log) \in Nat  BY DEF MmTypeOK
<1>2. S \in SUBSET (1 .. Len(log)) /\ x \notin S  BY <1>1
<1>3. Lens[x] = log[x].len /\ log[x].len \in Nat  BY LogLine DEF Lens
<1>4. IsFiniteSet(Units(Lens, S)) /\ Total(Lens, S) \in Nat  BY <1>2, PartOfLog
<1> HIDE DEF x
<1>5. Total(Lens, S \union {x}) = Total(Lens, S) + log[x].len
  <2>1. Lens[x] \in Nat  BY <1>3
  <2>2. Total(Lens, S \union {x}) = Total(Lens, S) + Lens[x]
    BY <1>2, <1>4, <2>1, NextTerm
  <2>3. QED  BY <1>3, <2>2
<1>6. QED  BY <1>3, <1>4, <1>5 DEF Bits, x

\* The line that is read lies in the current bin or in a later one.
LEMMA NextBin ==
  ASSUME MmInv, mmPc = "bins", at < Len(log)
  PROVE  /\ at + 1 \in 1 .. Len(log) /\ at \in Nat /\ binCur \in Nat
         /\ Elapsed(log[at + 1]) \in Nat
         /\ BinOf(log[at + 1]) \in Nat /\ binCur <= BinOf(log[at + 1])
<1>1. /\ at \in Nat /\ at + 1 \in 1 .. Len(log) /\ base \in Nat /\ binCur \in Nat
      /\ width \in Nat \ {0}
  BY DEF MmInv, MmTypeOK
<1>2. Elapsed(log[at + 1]) \in Nat
  <2>1. log[at + 1].t \in Nat /\ base <= log[at + 1].t
    BY <1>1, LogLine DEF MmInv, LogSorted
  <2>2. QED  BY <1>1, <2>1 DEF Elapsed
<1>3. BinOf(log[at + 1]) \in Nat  BY <1>1, <1>2, QuotientGrows DEF BinOf
<1>4. CASE at = 0
  <2>1. binCur = 0  BY <1>4 DEF MmInv, BinsInv
  <2>2. QED  BY <1>1, <1>2, <1>3, <2>1
<1>5. CASE at # 0
  <2>1. at \in 1 .. Len(log) /\ at < at + 1  BY <1>1, <1>5
  <2>2. /\ log[at].t \in Nat /\ base <= log[at].t /\ log[at + 1].t \in Nat
        /\ log[at].t <= log[at + 1].t
    BY <1>1, <2>1, LogLine DEF MmInv, LogSorted
  <2>3. /\ Elapsed(log[at]) \in Nat /\ Elapsed(log[at]) <= Elapsed(log[at + 1])
    BY <1>1, <2>2 DEF Elapsed
  <2>4. BinOf(log[at]) <= BinOf(log[at + 1])
    BY <1>1, <1>2, <2>3, QuotientGrows DEF BinOf
  <2>5. binCur = BinOf(log[at])  BY <1>1, <1>5 DEF MmInv, BinsInv
  <2>6. QED  BY <1>1, <1>2, <1>3, <2>4, <2>5
<1>6. QED  BY <1>1, <1>2, <1>3, <1>4, <1>5

LEMMA SumsType ==
  ASSUME NEW sums \in [Counted -> Nat], NEW line, Bits(line) \in Nat, line.ev \in Counted
  PROVE  /\ Add(sums, line) \in [Counted -> Nat]
         /\ \A ev \in Counted :
              Add(sums, line)[ev] = sums[ev] + (IF ev = line.ev THEN Bits(line) ELSE 0)
<1>1. Add(sums, line) = [sums EXCEPT ![line.ev] = sums[line.ev] + Bits(line)]
  BY DEF Add
<1> HIDE DEF Counted
<1>2. QED  BY <1>1

\* Filled with zeros, the bins are right for every bin up to that of the line.
LEMMA FilledRight ==
  ASSUME MmInv, mmPc = "bins", at < Len(log), NEW b, b = BinOf(log[at + 1])
  PROVE  /\ Filled(b) \in [0 .. b -> [Counted -> Nat]]
         /\ \A k \in 0 .. b : \A ev \in Counted :
              Filled(b)[k][ev] = 8 * Total(Lens, LinesIn(k, ev))
<1>1. b \in Nat /\ binCur \in Nat /\ binCur <= b  BY NextBin
<1>2. bins \in [0 .. binCur -> [Counted -> Nat]]  BY DEF MmInv, MmTypeOK
<1>3. NoBits \in [Counted -> Nat] /\ \A ev \in Counted : NoBits[ev] = 0  BY DEF NoBits
<1>4. \A k \in 0 .. b : Filled(b)[k] = IF k \in 0 .. binCur THEN bins[k] ELSE NoBits
  BY <1>2 DEF Filled
<1>5. Filled(b) \in [0 .. b -> [Counted -> Nat]]
  <2> HIDE DEF Counted, NoBits
  <2>1. \A k \in 0 .. b :
          (IF k \in DOMAIN bins THEN bins[k] ELSE NoBits) \in [Counted -> Nat]
    BY <1>2, <1>3
  <2>2. QED  BY <2>1 DEF Filled
<1>6. ASSUME NEW k \in 0 .. b, NEW ev \in Counted
      PROVE  Filled(b)[k][ev] = 8 * Total(Lens, LinesIn(k, ev))
  <2>1. CASE k \in 0 .. binCur
    BY <1>4, <1>6, <2>1 DEF MmInv, BinsInv
  <2>2. CASE k \notin 0 .. binCur
    <3>1. binCur < k  BY <1>1, <2>2
    <3>2. \A i \in 1 .. at : BinOf(log[i]) # k
      <4>1. SUFFICES ASSUME NEW i \in 1 .. at, BinOf(log[i]) = k  PROVE FALSE
        OBVIOUS
      <4>2. BinOf(log[i]) <= binCur  BY DEF MmInv, BinsInv
      <4>3. QED  BY <1>1, <3>1, <4>1, <4>2
    <3>3. LinesIn(k, ev) = {}  BY <3>2 DEF LinesIn, LinesOf, BinOf, Elapsed
    <3>4. Total(Lens, {}) = 0  BY TotalEmpty
    <3>5. QED  BY <1>3, <1>4, <2>2, <3>3, <3>4
  <2>3. QED  BY <2>1, <2>2
<1>7. QED  BY <1>5, <1>6

\* The lines read so far grow by one, in one bin and of one kind.
LEMMA LinesGrow ==
  ASSUME MmInv, mmPc = "bins", at < Len(log), NEW b, b = BinOf(log[at + 1]),
         at' = at + 1, UNCHANGED <<log, base, width>>, NEW ev \in Counted
  PROVE  /\ Lens' = Lens
         /\ LinesOf(ev)' = LinesOf(ev) \union {i \in {at + 1} : log[at + 1].ev = ev}
         /\ \A k \in 0 .. b :
              LinesIn(k, ev)' =
                LinesIn(k, ev) \union {i \in {at + 1} : log[at + 1].ev = ev /\ k = b}
<1>1. at \in Nat /\ 1 .. at + 1 = 1 .. at \union {at + 1}  BY NextBin
<1>2. LinesOf(ev)' = LinesOf(ev) \union {i \in {at + 1} : log[at + 1].ev = ev}
  BY <1>1 DEF LinesOf
<1>3. ASSUME NEW k \in 0 .. b
      PROVE  LinesIn(k, ev)' =
               LinesIn(k, ev) \union {i \in {at + 1} : log[at + 1].ev = ev /\ k = b}
  <2>1. LinesIn(k, ev)' = {i \in LinesOf(ev)' : (log[i].t - base) \div width = k}
    BY DEF LinesIn
  <2>2. b = (log[at + 1].t - base) \div width  BY DEF BinOf, Elapsed
  <2>3. QED  BY <1>2, <2>1, <2>2 DEF LinesIn
<1>4. QED  BY <1>2, <1>3 DEF Lens

LEMMA BinStep ==
  ASSUME MmInv, BinLine
  PROVE  MmTypeOK' /\ BinsInv'
<1> DEFINE line == log[at + 1]
<1>0. PICK b \in Nat : b = BinOf(line)  BY NextBin DEF BinLine
<1>1. /\ mmPc = "bins" /\ at < Len(log) /\ at \in Nat /\ at + 1 \in 1 .. Len(log)
      /\ at' = at + 1 /\ binCur \in Nat /\ binCur <= b /\ Elapsed(line) \in Nat
      /\ UNCHANGED <<now, queue, log, base, mmPc, width, delays>>
  BY <1>0, NextBin DEF BinLine, linkVars
<1>2. /\ binCur' = b /\ totals' = Summed(line) /\ elapsed' = Elapsed(line)
      /\ bins' = IF line.ev \in Counted
                 THEN [Filled(b) EXCEPT ![b] = Add(Filled(b)[b], line)]
                 ELSE Filled(b)
  <2>1. (IF BinOf(line) > binCur THEN BinOf(line) ELSE binCur) = b  BY <1>0, <1>1
  <2>2. QED  BY <2>1 DEF BinLine
<1>3. Bits(line) \in Nat
  <2>1. MmTypeOK  BY DEF MmInv
  <2>2. line.len \in Nat  BY <1>1, <2>1, LogLine
  <2>3. QED  BY <2>2 DEF Bits
<1>4. /\ Filled(b) \in [0 .. b -> [Counted -> Nat]]
      /\ \A k \in 0 .. b : \A ev \in Counted :
           Filled(b)[k][ev] = 8 * Total(Lens, LinesIn(k, ev))
  BY <1>0, <1>1, FilledRight
<1>5. totals \in [Counted -> Nat]
      /\ \A ev \in Counted : totals[ev] = 8 * Total(Lens, LinesOf(ev))
  BY <1>1 DEF MmInv, MmTypeOK, BinsInv
<1>6. /\ totals' \in [Counted -> Nat]
      /\ \A ev \in Counted :
           totals'[ev] = totals[ev] + (IF ev = line.ev THEN Bits(line) ELSE 0)
  <2>1. CASE line.ev \in Counted  BY <1>2, <1>3, <1>5, <2>1, SumsType DEF Summed
  <2>2. CASE line.ev \notin Counted
    <3>1. totals' = totals  BY <1>2, <2>2 DEF Summed
    <3>2. \A ev \in Counted : ev # line.ev /\ totals[ev] \in Nat  BY <1>5, <2>2
    <3>3. QED  BY <1>5, <3>1, <3>2
  <2>3. QED  BY <2>1, <2>2
<1>7. /\ bins' \in [0 .. b -> [Counted -> Nat]]
      /\ \A k \in 0 .. b : \A ev \in Counted :
           bins'[k][ev] =
             Filled(b)[k][ev] + (IF ev = line.ev /\ k = b THEN Bits(line) ELSE 0)
  <2>1. b \in 0 .. b  BY <1>0
  <2>2. \A k \in 0 .. b : Filled(b)[k] \in [Counted -> Nat]
        /\ \A ev \in Counted : Filled(b)[k][ev] \in Nat
    BY <1>4
  <2>3. CASE line.ev \in Counted
    <3>1. /\ Add(Filled(b)[b], line) \in [Counted -> Nat]
          /\ \A ev \in Counted :
               Add(Filled(b)[b], line)[ev] =
                 Filled(b)[b][ev] + (IF ev = line.ev THEN Bits(line) ELSE 0)
      BY <1>3, <2>1, <2>2, <2>3, SumsType
    <3>2. \A k \in 0 .. b :
            bins'[k] = IF k = b THEN Add(Filled(b)[b], line) ELSE Filled(b)[k]
      BY <1>2, <1>4, <2>3
    <3>3. bins' \in [0 .. b -> [Counted -> Nat]]
      <4> HIDE DEF Counted
      <4>1. QED  BY <1>2, <1>4, <2>1, <2>3, <3>1
    <3>4. QED  BY <2>2, <3>1, <3>2, <3>3
  <2>4. CASE line.ev \notin Counted
    <3>1. bins' = Filled(b)  BY <1>2, <2>4
    <3>2. \A ev \in Counted : ev # line.ev  BY <2>4
    <3>3. QED  BY <1>4, <2>2, <3>1, <3>2
  <2>5. QED  BY <2>3, <2>4
<1>8. MmTypeOK'
  <2>1. at' \in 0 .. Len(log)  BY <1>1
  <2>2. QED
    BY <1>1, <1>2, <1>6, <1>7, <2>1 DEF MmInv, MmTypeOK
<1>9. ASSUME NEW ev \in Counted
      PROVE  /\ totals'[ev] = 8 * Total(Lens, LinesOf(ev))'
             /\ \A k \in 0 .. b : bins'[k][ev] = 8 * Total(Lens, LinesIn(k, ev))'
  <2>1. /\ Lens' = Lens
        /\ LinesOf(ev)' = LinesOf(ev) \union {i \in {at + 1} : line.ev = ev}
        /\ \A k \in 0 .. b :
             LinesIn(k, ev)' =
               LinesIn(k, ev) \union {i \in {at + 1} : line.ev = ev /\ k = b}
    BY <1>0, <1>1, LinesGrow
  <2>2. MmTypeOK  BY DEF MmInv
  <2>3. totals'[ev] = 8 * Total(Lens, LinesOf(ev)')
    <3>1. LinesOf(ev) \in SUBSET (1 .. at)  BY DEF LinesOf
    <3>2. 8 * Total(Lens, LinesOf(ev) \union {at + 1}) =
            8 * Total(Lens, LinesOf(ev)) + Bits(line)
      BY <1>1, <2>2, <3>1, LineJoins
    <3>3. CASE ev = line.ev
      <4>1. LinesOf(ev)' = LinesOf(ev) \union {at + 1}  BY <2>1, <3>3
      <4>2. QED  BY <1>5, <1>6, <3>2, <3>3, <4>1
    <3>4. CASE ev # line.ev
      <4>1. LinesOf(ev)' = LinesOf(ev)  BY <2>1, <3>4
      <4>2. totals[ev] \in Nat  BY <1>5
      <4>3. QED  BY <1>5, <1>6, <3>4, <4>1, <4>2
    <3>5. QED  BY <3>3, <3>4
  <2>4. ASSUME NEW k \in 0 .. b
        PROVE  bins'[k][ev] = 8 * Total(Lens, LinesIn(k, ev)')
    <3>1. LinesIn(k, ev) \in SUBSET (1 .. at)  BY DEF LinesIn, LinesOf
    <3>2. 8 * Total(Lens, LinesIn(k, ev) \union {at + 1}) =
            8 * Total(Lens, LinesIn(k, ev)) + Bits(line)
      BY <1>1, <2>2, <3>1, LineJoins
    <3>3. CASE ev = line.ev /\ k = b
      <4>1. LinesIn(k, ev)' = LinesIn(k, ev) \union {at + 1}  BY <2>1, <3>3
      <4>2. QED  BY <1>4, <1>7, <3>2, <3>3, <4>1
    <3>4. CASE ~(ev = line.ev /\ k = b)
      <4>1. LinesIn(k, ev)' = LinesIn(k, ev)  BY <2>1, <3>4
      <4>2. Filled(b)[k][ev] \in Nat  BY <1>4
      <4>3. QED  BY <1>4, <1>7, <3>4, <4>1, <4>2
    <3>5. QED  BY <3>3, <3>4
  <2>5. QED  BY <2>1, <2>3, <2>4
<1>10. /\ at' > 0 /\ binCur' = BinOf(log[at])'
       /\ \A i \in 1 .. at' : BinOf(log[i])' <= binCur'
  <2>1. \A i : BinOf(log[i])' = BinOf(log[i])  BY <1>1 DEF BinOf, Elapsed
  <2>2. BinOf(log[at])' = b
    <3>1. BinOf(log[at])' = BinOf(log[at + 1])  BY <1>1 DEF BinOf, Elapsed
    <3>2. QED  BY <1>0, <3>1
  <2>3. ASSUME NEW i \in 1 .. at + 1  PROVE BinOf(log[i]) <= b
    <3>1. CASE i = at + 1  BY <1>0, <3>1
    <3>2. CASE i # at + 1
      <4>1. i \in 1 .. at  BY <1>1, <2>3, <3>2
      <4>2. i \in 1 .. Len(log) /\ width \in Nat \ {0} /\ base \in Nat
        BY <1>1, <4>1 DEF MmInv, MmTypeOK
      <4>3. log[i].t \in Nat /\ base <= log[i].t
        BY <4>2, LogLine DEF MmInv, LogSorted
      <4>4. BinOf(log[i]) \in Nat  BY <4>2, <4>3, QuotientGrows DEF BinOf, Elapsed
      <4>5. BinOf(log[i]) <= binCur  BY <1>1, <4>1 DEF MmInv, BinsInv
      <4>6. QED  BY <1>0, <1>1, <4>4, <4>5
    <3>3. QED  BY <3>1, <3>2
  <2>4. QED  BY <1>1, <1>2, <2>1, <2>2, <2>3
<1>11. BinsInv'  BY <1>1, <1>2, <1>9, <1>10 DEF BinsInv
<1>12. QED  BY <1>8, <1>11

LEMMA MmInvInit == Init => MmInv
<1> SUFFICES ASSUME Init  PROVE MmInv
  OBVIOUS
<1>1. /\ base \in BaseTimes /\ now = base /\ queue = <<>> /\ log = <<>>
      /\ mmPc = "log" /\ at = 0 /\ width \in BinWidths
      /\ bins = [k \in {0} |-> NoBits] /\ binCur = 0 /\ totals = NoBits /\ elapsed = 0
  BY DEF Init, MmInit
<1>2. base \in Nat /\ width \in Nat \ {0}  BY <1>1, MmLogAssumption
<1>3. NoBits \in [Counted -> Nat] /\ 0 .. 0 = {0}  BY DEF NoBits
<1>4. <<>> \in Seq(Lines) /\ <<>> \in Seq(Nat) /\ Len(<<>>) = 0
  <2> HIDE DEF Lines
  <2>1. QED  OBVIOUS
<1>5. bins \in [0 .. binCur -> [Counted -> Nat]]
  <2> HIDE DEF Counted, NoBits
  <2>1. QED  BY <1>1, <1>3
<1>6. MmTypeOK  BY <1>1, <1>2, <1>3, <1>4, <1>5 DEF MmTypeOK
<1>7. LogSorted  BY <1>1, <1>2, <1>4 DEF LogSorted
<1>8. QED  BY <1>1, <1>6, <1>7 DEF MmInv, Unread, BinsInv

LEMMA MmNextStep ==
  ASSUME MmInv, MmNext
  PROVE  MmInv'
<1>1. CASE LinkNext
  <2>1. mmPc = "log" /\ mmPc' = mmPc
    BY <1>1
    DEF LinkNext, LinkTick, LinkArrive, LinkDrop, LinkOpportunity, LinkDepart, Writes
  <2>2. BinsInv'  BY <2>1 DEF BinsInv
  <2>3. QED  BY <1>1, <2>2, LinkStep DEF MmInv
<1>2. CASE PlotStart
  <2>1. /\ mmPc = "log" /\ mmPc' = "delays"
        /\ UNCHANGED <<now, queue, log, base, width, at, bins, binCur, totals, elapsed>>
    BY <1>2 DEF PlotStart, linkVars, binVars
  <2>2. QED
    BY <2>1 DEF MmInv, MmTypeOK, LogSorted, Unread, BinsInv
<1>3. CASE DelayLine
  <2>1. /\ mmPc = "delays" /\ mmPc' = mmPc /\ at < Len(log) /\ at' = at + 1
        /\ UNCHANGED <<now, queue, log, base, width, bins, binCur, totals, elapsed>>
    BY <1>3 DEF DelayLine, linkVars, binVars
  <2>2. at' \in 0 .. Len(log')  BY <2>1 DEF MmInv, MmTypeOK
  <2>3. QED
    BY <2>1, <2>2 DEF MmInv, MmTypeOK, LogSorted, Unread, BinsInv
<1>4. CASE DelayEnd
  <2>1. /\ mmPc = "delays" /\ mmPc' = "bins" /\ at' = 0
        /\ UNCHANGED <<now, queue, log, base, width, bins, binCur, totals, elapsed>>
    BY <1>4 DEF DelayEnd, linkVars, binVars
  <2>2. /\ bins' = [k \in {0} |-> NoBits] /\ binCur' = 0 /\ totals' = NoBits
    BY <2>1 DEF MmInv, Unread
  <2>3. 1 .. 0 = {} /\ 0 .. 0 = {0} /\ \A ev \in Counted : NoBits[ev] = 0
    BY DEF NoBits
  <2>4. \A ev, k : LinesOf(ev)' = {} /\ LinesIn(k, ev)' = {}
    BY <2>1, <2>3 DEF LinesOf, LinesIn
  <2>5. Total(Lens', {}) = 0  BY TotalEmpty
  <2>6. \A k \in 0 .. binCur' : bins'[k] = NoBits  BY <2>2, <2>3
  <2>7. BinsInv'  BY <2>1, <2>2, <2>3, <2>4, <2>5, <2>6 DEF BinsInv
  <2>8. MmTypeOK' /\ LogSorted' /\ Unread'
    BY <2>1 DEF MmInv, MmTypeOK, LogSorted, Unread
  <2>9. QED  BY <2>7, <2>8 DEF MmInv
<1>5. CASE BinLine
  <2>1. /\ mmPc = "bins" /\ UNCHANGED <<now, queue, log, base, mmPc>>
    BY <1>5 DEF BinLine, linkVars
  <2>2. LogSorted' /\ Unread'  BY <2>1 DEF MmInv, LogSorted, Unread
  <2>3. QED  BY <1>5, <2>2, BinStep DEF MmInv
<1>6. CASE BinEnd
  <2>1. /\ mmPc = "bins" /\ mmPc' \in {"error", "done"}
        /\ UNCHANGED <<now, queue, log, base, width, at, bins, binCur, totals, elapsed>>
    BY <1>6 DEF BinEnd, linkVars, binVars
  <2>2. MmTypeOK' /\ LogSorted' /\ Unread'
    BY <2>1 DEF MmInv, MmTypeOK, LogSorted, Unread
  <2>3. BinsInv'
    BY <2>1 DEF MmInv, BinsInv, BinOf, Elapsed, Lens, LinesIn, LinesOf
  <2>4. QED  BY <2>2, <2>3 DEF MmInv
<1>7. QED  BY <1>1, <1>2, <1>3, <1>4, <1>5, <1>6 DEF MmNext

LEMMA MmInvStep == MmInv /\ [Next]_vars => MmInv'
<1> SUFFICES ASSUME MmInv, [Next]_vars  PROVE MmInv'
  OBVIOUS
<1>1. CASE MmNext  BY <1>1, MmNextStep
<1>2. CASE UNCHANGED mmVars
  <2>1. UNCHANGED <<now, queue, log, base, mmPc, width, at, bins, binCur, totals, elapsed>>
    BY <1>2 DEF mmVars, linkVars, binVars
  <2>2. MmTypeOK' /\ LogSorted' /\ Unread'
    BY <2>1 DEF MmInv, MmTypeOK, LogSorted, Unread
  <2>3. BinsInv'
    BY <2>1 DEF MmInv, BinsInv, BinOf, Elapsed, Lens, LinesIn, LinesOf
  <2>4. QED  BY <2>2, <2>3 DEF MmInv
<1>3. QED  BY <1>1, <1>2 DEF Next, vars

LEMMA MmInvariant == Spec => []MmInv
BY MmInvInit, MmInvStep, PTL DEF Spec

\* parse_mm_throughput: for every log of the link, base time and bin width, each bin
\* holds the bits logged in its interval, those of the bins jumped over too; the
\* totals are the bits of all lines read, and every line has its bin.
THEOREM BitsAreRight == Spec => []LogIsAccounted
<1>1. MmInv => BinsMatchLog
  <2>1. SUFFICES ASSUME MmInv, mmPc \in {"bins", "done"}
                 PROVE  \A k \in DOMAIN bins : \A ev \in Counted :
                          bins[k][ev] = 8 * Total(Lens, LinesIn(k, ev))
    BY DEF BinsMatchLog
  <2>2. DOMAIN bins = 0 .. binCur  BY <2>1 DEF MmInv, MmTypeOK
  <2>3. QED  BY <2>1, <2>2 DEF MmInv, BinsInv
<1>2. MmInv => TotalsMatchLog
  <2>1. SUFFICES ASSUME MmInv, mmPc \in {"bins", "done"}
                 PROVE  /\ \A ev \in Counted : totals[ev] = 8 * Total(Lens, LinesOf(ev))
                        /\ \A i \in 1 .. at : BinOf(log[i]) \in DOMAIN bins
    BY DEF TotalsMatchLog, BinOf, Elapsed
  <2>2. DOMAIN bins = 0 .. binCur /\ binCur \in Nat  BY <2>1 DEF MmInv, MmTypeOK
  <2>3. ASSUME NEW i \in 1 .. at  PROVE BinOf(log[i]) \in 0 .. binCur
    <3>1. i \in 1 .. Len(log) /\ width \in Nat \ {0} /\ base \in Nat
      BY <2>1, <2>3 DEF MmInv, MmTypeOK
    <3>2. log[i].t \in Nat /\ base <= log[i].t
      BY <2>1, <3>1, LogLine DEF MmInv, LogSorted
    <3>3. BinOf(log[i]) \in Nat  BY <3>1, <3>2, QuotientGrows DEF BinOf, Elapsed
    <3>4. BinOf(log[i]) <= binCur  BY <2>1, <2>3 DEF MmInv, BinsInv
    <3>5. QED  BY <2>2, <3>3, <3>4
  <2>4. QED  BY <2>1, <2>2, <2>3 DEF MmInv, BinsInv
<1>3. MmInv => LogIsAccounted  BY <1>1, <1>2 DEF LogIsAccounted
<1>4. QED  BY <1>3, MmInvariant, PTL

-----------------------------------------------------------------------------
(* Logs of a link: when the packets arrived that are seen to depart *)

Departures == {i \in 1 .. Len(log) : log[i].ev = "-"}

\* What got through has departed or is in the queue, in the order in which it arrived.
QueueInv ==
  /\ Cardinality(KeptArrivals) = Cardinality(Departures) + Len(queue)
  /\ \A a \in KeptArrivals :
       LET i == Place(KeptArrivals, a)
       IN /\ i > Cardinality(Departures) => queue[i - Cardinality(Departures)] = log[a].t
          /\ \A d \in Departures : Place(Departures, d) = i => log[d].t - log[d].delay = log[a].t

\* There is a delay for each departure that was read.
LinesRead == IF mmPc = "log" THEN 0 ELSE IF mmPc = "delays" THEN at ELSE Len(log)
Delays == [time : Int, delay : Int]
ReadInv ==
  /\ delays \in Seq(Delays)
  /\ Len(delays) = Place(Departures, LinesRead)

DelayInv == MmInv /\ QueueInv /\ ReadInv /\ DelaysAtArrival

LEMMA Places ==
  ASSUME NEW n \in Nat, NEW S \in SUBSET (1 .. n)
  PROVE  /\ IsFiniteSet(S) /\ Cardinality(S) \in Nat
         /\ \A i \in S : Place(S, i) \in 1 .. Cardinality(S)
         /\ Cardinality(S \union {n + 1}) = Cardinality(S) + 1
         /\ Place(S \union {n + 1}, n + 1) = Cardinality(S) + 1
         /\ \A i \in 1 .. n : Place(S \union {n + 1}, i) = Place(S, i)
<1>1. IsFiniteSet(S) /\ Cardinality(S) \in Nat
  <2>1. IsFiniteSet(1 .. n)  BY FS_Interval
  <2>2. IsFiniteSet(S)  BY <2>1, FS_Subset
  <2>3. QED  BY <2>2, FS_CardinalityType
<1>2. ASSUME NEW i \in S  PROVE Place(S, i) \in 1 .. Cardinality(S)
  <2> DEFINE P == {k \in S : k <= i}
  <2>1. P \in SUBSET S /\ i \in P  OBVIOUS
  <2>2. IsFiniteSet(P) /\ Cardinality(P) <= Cardinality(S)  BY <1>1, <2>1, FS_Subset
  <2>3. Cardinality(P) \in Nat /\ Cardinality(P) # 0
    BY <2>1, <2>2, FS_CardinalityType, FS_EmptySet
  <2>4. Place(S, i) = Cardinality(P)  BY DEF Place
  <2> HIDE DEF P
  <2>5. QED  BY <1>1, <2>2, <2>3, <2>4
<1>3. n + 1 \notin S  OBVIOUS
<1>4. Cardinality(S \union {n + 1}) = Cardinality(S) + 1  BY <1>1, <1>3, FS_AddElement
<1>5. {k \in S \union {n + 1} : k <= n + 1} = S \union {n + 1}
  <2>1. \A k \in S \union {n + 1} : k <= n + 1  OBVIOUS
  <2> DEFINE all == S \union {n + 1}
  <2> HIDE DEF all
  <2>2. \A k \in all : k <= n + 1  BY <2>1 DEF all
  <2>3. {k \in all : k <= n + 1} = all  BY <2>2
  <2>4. QED  BY <2>3 DEF all
<1>6. \A i \in 1 .. n : {k \in S \union {n + 1} : k <= i} = {k \in S : k <= i}  OBVIOUS
<1>7. QED  BY <1>1, <1>2, <1>4, <1>5, <1>6 DEF Place

LEMMA LogSets ==
  ASSUME MmTypeOK
  PROVE  /\ Len(log) \in Nat /\ KeptArrivals \in SUBSET (1 .. Len(log))
         /\ Departures \in SUBSET (1 .. Len(log))
         /\ Cardinality(KeptArrivals) \in Nat /\ Cardinality(Departures) \in Nat
<1>1. /\ Len(log) \in Nat /\ KeptArrivals \in SUBSET (1 .. Len(log))
      /\ Departures \in SUBSET (1 .. Len(log))
  BY DEF MmTypeOK, KeptArrivals, Departures
<1>2. QED  BY <1>1, Places

\* A line that is written, other than a drop, is an arrival, a departure or neither.
LEMMA LineWritten ==
  ASSUME MmTypeOK, NEW line \in Lines, Writes(<<line>>), line.ev # "d"
  PROVE  /\ Len(log') = Len(log) + 1 /\ log'[Len(log) + 1] = line
         /\ \A i \in 1 .. Len(log) : log'[i] = log[i]
         /\ line.ev = "+" => KeptArrivals' = KeptArrivals \union {Len(log) + 1}
         /\ line.ev # "+" => KeptArrivals' = KeptArrivals
         /\ line.ev = "-" => Departures' = Departures \union {Len(log) + 1}
         /\ line.ev # "-" => Departures' = Departures
<1> DEFINE n == Len(log)
           one == <<line>>
<1>1. log \in Seq(Lines) /\ n \in Nat  BY DEF MmTypeOK
<1>2. one \in Seq(Lines) /\ Len(one) = 1 /\ one[1] = line
  <2> HIDE DEF Lines
  <2>1. QED  BY Listed
<1>3. /\ log' = log \o one /\ Len(log \o one) = n + 1 /\ (log \o one)[n + 1] = line
      /\ \A i \in 1 .. n : (log \o one)[i] = log[i]
  <2>1. log' = log \o one  BY DEF Writes
  <2> HIDE DEF Lines, one, n
  <2>2. /\ Len(log \o one) = Len(log) + 1 /\ \A i \in 1 .. Len(log) : (log \o one)[i] = log[i]
        /\ (log \o one)[Len(log) + 1] = one[1]
    <3>1. 1 \in 1 .. Len(one)  BY <1>2
    <3>2. QED  BY <1>1, <1>2, <3>1, Joined
  <2>3. QED  BY <1>2, <2>1, <2>2 DEF n
<1> HIDE DEF Lines, one
<1>4. /\ Len(log') = n + 1 /\ log'[n + 1] = line
      /\ \A i \in 1 .. n : log'[i] = log[i]
  BY <1>3
<1>5. 1 .. n + 1 = 1 .. n \union {n + 1}  BY <1>1
<1>6. Departures' = {i \in 1 .. n : log[i].ev = "-"} \union {i \in {n + 1} : line.ev = "-"}
  BY <1>4, <1>5 DEF Departures
<1>7. KeptArrivals' =
        {i \in 1 .. n : log[i].ev = "+" /\ (i < n => log[i + 1].ev # "d")}
          \union {i \in {n + 1} : line.ev = "+"}
  <2>1. ASSUME NEW i \in 1 .. n
        PROVE  (i < n + 1 => log'[i + 1].ev # "d") <=> (i < n => log[i + 1].ev # "d")
    <3>1. CASE i < n
      <4>1. i + 1 \in 1 .. n  BY <1>1, <3>1
      <4>2. QED  BY <1>1, <1>4, <3>1, <4>1
    <3>2. CASE i = n
      BY <1>1, <1>4, <3>2
    <3>3. QED  BY <1>1, <3>1, <3>2
  <2>2. ~(n + 1 < n + 1)  BY <1>1
  <2>3. QED  BY <1>4, <1>5, <2>1, <2>2 DEF KeptArrivals
<1>8. QED  BY <1>4, <1>6, <1>7 DEF KeptArrivals, Departures

\* A dropped arrival leaves both as they are.
LEMMA DropWritten ==
  ASSUME MmTypeOK, NEW line \in Lines, NEW drop \in Lines, Writes(<<line, drop>>),
         line.ev = "+", drop.ev = "d"
  PROVE  /\ \A i \in 1 .. Len(log) : log'[i] = log[i]
         /\ KeptArrivals' = KeptArrivals /\ Departures' = Departures
<1> DEFINE n == Len(log)
           two == <<line, drop>>
<1>1. log \in Seq(Lines) /\ n \in Nat  BY DEF MmTypeOK
<1>2. two \in Seq(Lines) /\ Len(two) = 2 /\ two[1] = line /\ two[2] = drop
  <2> HIDE DEF Lines
  <2>1. QED  BY Listed
<1>3. /\ log' = log \o two /\ Len(log \o two) = n + 2
      /\ (log \o two)[n + 1] = line /\ (log \o two)[n + 2] = drop
      /\ \A i \in 1 .. n : (log \o two)[i] = log[i]
  <2>1. log' = log \o two  BY DEF Writes
  <2> HIDE DEF Lines, two, n
  <2>2. /\ Len(log \o two) = Len(log) + 2 /\ \A i \in 1 .. Len(log) : (log \o two)[i] = log[i]
        /\ (log \o two)[Len(log) + 1] = two[1] /\ (log \o two)[Len(log) + 2] = two[2]
    <3>1. 1 \in 1 .. Len(two) /\ 2 \in 1 .. Len(two)  BY <1>2
    <3>2. two \in Seq(Lines) /\ log \in Seq(Lines)  BY <1>1, <1>2
    <3>3. /\ Len(log \o two) = Len(log) + Len(two)
          /\ \A i \in 1 .. Len(log) : (log \o two)[i] = log[i]
          /\ \A i \in 1 .. Len(two) : (log \o two)[Len(log) + i] = two[i]
      BY <3>2, Joined
    <3>4. QED  BY <1>2, <3>1, <3>3
  <2>3. QED  BY <1>2, <2>1, <2>2 DEF n
<1> HIDE DEF Lines, two
<1>4. /\ Len(log') = n + 2 /\ log'[n + 1] = line /\ log'[n + 2] = drop
      /\ \A i \in 1 .. n : log'[i] = log[i]
  BY <1>3
<1>5. 1 .. n + 2 = 1 .. n \union {n + 1, n + 2}  BY <1>1
<1>6. Departures' = Departures
  BY <1>4, <1>5 DEF Departures
<1>7. KeptArrivals' = KeptArrivals
  <2>1. ASSUME NEW i \in 1 .. n
        PROVE  (i < n + 2 => log'[i + 1].ev # "d") <=> (i < n => log[i + 1].ev # "d")
    <3>1. CASE i < n
      <4>1. i + 1 \in 1 .. n  BY <1>1, <3>1
      <4>2. QED  BY <1>1, <1>4, <3>1, <4>1
    <3>2. CASE i = n
      BY <1>1, <1>4, <3>2
    <3>3. QED  BY <1>1, <3>1, <3>2
  <2>2. n + 1 < n + 2 /\ log'[(n + 1) + 1].ev = "d"
    <3>1. (n + 1) + 1 = n + 2  BY <1>1
    <3>2. QED  BY <1>1, <1>4, <3>1
  <2>3. QED  BY <1>4, <1>5, <2>1, <2>2 DEF KeptArrivals
<1>8. QED  BY <1>4, <1>6, <1>7

LEMMA QueueStep ==
  ASSUME MmTypeOK, LogSorted, QueueInv, LinkNext
  PROVE  QueueInv'
<1> DEFINE n == Len(log)
           K == KeptArrivals
           D == Departures
           k == Cardinality(KeptArrivals)
           m == Cardinality(Departures)
<1>1. /\ n \in Nat /\ K \in SUBSET (1 .. n) /\ D \in SUBSET (1 .. n)
      /\ k \in Nat /\ m \in Nat /\ now \in Nat /\ queue \in Seq(Nat) /\ Len(queue) \in Nat
      /\ MaxLen \in 0 .. MaxLen /\ Events = {"#", "+", "-", "d"} /\ k = m + Len(queue)
  BY LogSets, MmLogAssumption DEF MmTypeOK, Events, Counted, QueueInv
<1>2. /\ \A a \in K : Place(K, a) \in 1 .. k
      /\ \A d \in D : Place(D, d) \in 1 .. m
      /\ \A a \in K : a \in 1 .. n
      /\ \A d \in D : d \in 1 .. n
  BY <1>1, Places
<1>3. \A a \in K : /\ Place(K, a) > m => queue[Place(K, a) - m] = log[a].t
                   /\ \A d \in D : Place(D, d) = Place(K, a) => log[d].t - log[d].delay = log[a].t
  BY DEF QueueInv
<1>0. QueueInv' <=>
        /\ Cardinality(KeptArrivals') = Cardinality(Departures') + Len(queue')
        /\ \A a \in KeptArrivals' :
             /\ Place(KeptArrivals', a) > Cardinality(Departures') =>
                  queue'[Place(KeptArrivals', a) - Cardinality(Departures')] = log'[a].t
             /\ \A d \in Departures' : Place(Departures', d) = Place(KeptArrivals', a) =>
                                         log'[d].t - log'[d].delay = log'[a].t
  BY DEF QueueInv, Place
<1>4. ASSUME KeptArrivals' = K, Departures' = D, UNCHANGED queue,
             \A i \in 1 .. n : log'[i] = log[i]
      PROVE  QueueInv'
  <2>1. Cardinality(KeptArrivals') = k /\ Cardinality(Departures') = m  BY <1>4
  <2>2. \A a \in K : log'[a] = log[a]  BY <1>2, <1>4
  <2>3. \A d \in D : log'[d] = log[d]  BY <1>2, <1>4
  <2> HIDE DEF K, D, k, m, n
  <2>4. QED  BY <1>0, <1>1, <1>3, <1>4, <2>1, <2>2, <2>3
<1>5. CASE LinkTick
  <2>1. UNCHANGED <<queue, log>>  BY <1>5 DEF LinkTick
  <2>2. KeptArrivals' = K /\ Departures' = D  BY <2>1 DEF KeptArrivals, Departures
  <2>3. QED  BY <1>4, <2>1, <2>2
<1>6. CASE LinkDrop
  <2> DEFINE line == Line("+", MaxLen, 0)
             drop == Line("d", 1, 0)
  <2>1. UNCHANGED queue /\ Writes(<<line, drop>>)  BY <1>6 DEF LinkDrop
  <2>2. line \in Lines /\ drop \in Lines  BY <1>1, Written, MmLogAssumption
  <2>3. line.ev = "+" /\ drop.ev = "d"  BY DEF Line
  <2> HIDE DEF line, drop
  <2>4. /\ \A i \in 1 .. Len(log) : log'[i] = log[i]
        /\ KeptArrivals' = KeptArrivals /\ Departures' = Departures
    BY <2>1, <2>2, <2>3, DropWritten
  <2>5. QED  BY <1>4, <2>1, <2>4
<1>7. CASE LinkOpportunity
  <2> DEFINE line == Line("#", MaxLen, 0)
  <2>1. UNCHANGED queue /\ Writes(<<line>>)  BY <1>7 DEF LinkOpportunity
  <2>2. line \in Lines  BY <1>1, Written
  <2>3. line.ev = "#"  BY DEF Line
  <2> HIDE DEF line
  <2>4. /\ \A i \in 1 .. Len(log) : log'[i] = log[i]
        /\ KeptArrivals' = KeptArrivals /\ Departures' = Departures
    BY <2>1, <2>2, <2>3, LineWritten
  <2>5. QED  BY <1>4, <2>1, <2>4
<1>8. CASE LinkArrive
  <2> DEFINE line == Line("+", MaxLen, 0)
  <2>1. queue' = Append(queue, now) /\ Writes(<<line>>)  BY <1>8 DEF LinkArrive
  <2>2. line \in Lines /\ line.t = now  BY <1>1, Written
  <2>3. line.ev = "+"  BY DEF Line
  <2> HIDE DEF line
  <2>4. /\ \A i \in 1 .. n : log'[i] = log[i]
        /\ log'[n + 1] = line
        /\ KeptArrivals' = K \union {n + 1} /\ Departures' = D
    BY <2>1, <2>2, <2>3, LineWritten
  <2>5. /\ Len(queue') = Len(queue) + 1 /\ queue'[Len(queue) + 1] = now
        /\ \A i \in 1 .. Len(queue) : queue'[i] = queue[i]
    BY <1>1, <2>1, Appended
  <2>6. /\ Cardinality(K \union {n + 1}) = k + 1 /\ Place(K \union {n + 1}, n + 1) = k + 1
        /\ \A i \in 1 .. n : Place(K \union {n + 1}, i) = Place(K, i)
    BY <1>1, Places
  <2>7. /\ \A a \in K : log'[a] = log[a] /\ Place(K \union {n + 1}, a) = Place(K, a)
        /\ \A d \in D : log'[d] = log[d]
    BY <1>2, <2>4, <2>6
  <2> HIDE DEF K, D, k, m, n
  <2>8. Cardinality(KeptArrivals') = k + 1 /\ Cardinality(Departures') = m
    <3>1. Cardinality(KeptArrivals') = k + 1  BY <2>4, <2>6
    <3>2. Cardinality(Departures') = m  BY <2>4 DEF m, D
    <3>3. QED  BY <3>1, <3>2
  <2>9. ASSUME NEW a \in K \union {n + 1}
        PROVE  LET i == Place(K \union {n + 1}, a)
               IN /\ i > m => queue'[i - m] = log'[a].t
                  /\ \A d \in D : Place(D, d) = i => log'[d].t - log'[d].delay = log'[a].t
    <3>1. CASE a \in K
      <4>1. Place(K \union {n + 1}, a) = Place(K, a) /\ log'[a] = log[a]  BY <2>7, <3>1
      <4>2. Place(K, a) \in 1 .. k  BY <1>2, <3>1
      <4>3. Place(K, a) > m => queue'[Place(K, a) - m] = log[a].t
        <5>1. SUFFICES ASSUME Place(K, a) > m PROVE queue'[Place(K, a) - m] = log[a].t
          OBVIOUS
        <5>2. Place(K, a) - m \in 1 .. Len(queue)  BY <1>1, <4>2, <5>1
        <5>3. QED  BY <1>3, <2>5, <3>1, <5>1, <5>2
      <4>4. \A d \in D : Place(D, d) = Place(K, a) => log'[d].t - log'[d].delay = log[a].t
        BY <1>3, <2>7, <3>1
      <4>5. QED  BY <4>1, <4>3, <4>4
    <3>2. CASE a = n + 1
      <4>1. Place(K \union {n + 1}, a) = k + 1 /\ log'[a].t = now  BY <2>2, <2>4, <2>6, <3>2
      <4>2. (k + 1) - m = Len(queue) + 1  BY <1>1
      <4>3. \A d \in D : Place(D, d) # k + 1  BY <1>1, <1>2
      <4>4. QED  BY <2>5, <4>1, <4>2, <4>3
    <3>3. QED  BY <3>1, <3>2
  <2>10. k + 1 = m + Len(queue')  BY <1>1, <2>5
  <2>11. QED  BY <1>0, <2>4, <2>8, <2>9, <2>10
<1>9. CASE LinkDepart
  <2> DEFINE line == Line("-", MaxLen, now - Head(queue))
  <2>1. queue # <<>> /\ queue' = Tail(queue) /\ Writes(<<line>>)  BY <1>9 DEF LinkDepart
  <2>2. /\ Head(queue) \in Nat /\ Head(queue) = queue[1] /\ 1 \in 1 .. Len(queue)
        /\ Len(queue') = Len(queue) - 1
        /\ \A i \in 1 .. Len(queue) - 1 : queue'[i] = queue[i + 1]
    BY <1>1, <2>1, QueueFacts
  <2>3. now - Head(queue) \in Nat
    <3>1. queue[1] <= now  BY <2>2 DEF LogSorted
    <3>2. QED  BY <1>1, <2>2, <3>1
  <2>4. line \in Lines /\ line.t = now  BY <1>1, <2>3, Written
  <2>5. line.ev = "-" /\ line.delay = now - queue[1]  BY <2>2 DEF Line
  <2> HIDE DEF line
  <2>6. /\ \A i \in 1 .. n : log'[i] = log[i]
        /\ log'[n + 1] = line
        /\ KeptArrivals' = K /\ Departures' = D \union {n + 1}
    BY <2>1, <2>4, <2>5, LineWritten
  <2>7. /\ Cardinality(D \union {n + 1}) = m + 1 /\ Place(D \union {n + 1}, n + 1) = m + 1
        /\ \A i \in 1 .. n : Place(D \union {n + 1}, i) = Place(D, i)
    BY <1>1, Places
  <2>8. /\ \A d \in D : log'[d] = log[d] /\ Place(D \union {n + 1}, d) = Place(D, d)
        /\ \A a \in K : log'[a] = log[a]
    BY <1>2, <2>6, <2>7
  <2>9. line.t - line.delay = queue[1]  BY <1>1, <2>2, <2>4, <2>5
  <2> HIDE DEF K, D, k, m, n
  <2>10. /\ Cardinality(KeptArrivals') = k /\ Cardinality(Departures') = m + 1
         /\ k = m + 1 + Len(queue')
    <3>1. Cardinality(Departures') = m + 1  BY <2>6, <2>7
    <3>2. Cardinality(KeptArrivals') = k  BY <2>6 DEF k, K
    <3>3. QED  BY <1>1, <2>2, <3>1, <3>2
  <2>11. ASSUME NEW a \in K
         PROVE  /\ Place(K, a) > m + 1 => queue'[Place(K, a) - (m + 1)] = log'[a].t
                /\ \A d \in D \union {n + 1} :
                     Place(D \union {n + 1}, d) = Place(K, a) =>
                       log'[d].t - log'[d].delay = log'[a].t
    <3>1. Place(K, a) \in 1 .. k /\ log'[a] = log[a]  BY <1>2, <2>8
    <3>2. ASSUME Place(K, a) > m + 1  PROVE queue'[Place(K, a) - (m + 1)] = log[a].t
      <4> DEFINE i == Place(K, a) - (m + 1)
      <4>1. i \in 1 .. Len(queue) - 1 /\ i + 1 = Place(K, a) - m /\ Place(K, a) > m
        BY <1>1, <3>1, <3>2
      <4>2. queue'[i] = queue[i + 1]  BY <2>2, <4>1
      <4> HIDE DEF i
      <4>3. queue'[i] = log[a].t  BY <1>3, <4>1, <4>2
      <4>4. QED  BY <4>3 DEF i
    <3>3. ASSUME NEW d \in D \union {n + 1}, Place(D \union {n + 1}, d) = Place(K, a)
          PROVE  log'[d].t - log'[d].delay = log[a].t
      <4>1. CASE d \in D
        BY <1>3, <2>8, <3>3, <4>1
      <4>2. CASE d = n + 1
        <5>1. Place(K, a) = m + 1  BY <2>7, <3>3, <4>2
        <5>2. queue[1] = log[a].t
          <6>1. Place(K, a) > m /\ Place(K, a) - m = 1  BY <1>1, <5>1
          <6>2. QED  BY <1>3, <6>1
        <5>3. QED  BY <2>6, <2>9, <4>2, <5>2
      <4>3. QED  BY <4>1, <4>2
    <3>4. QED  BY <3>1, <3>2, <3>3
  <2>12. QED  BY <1>0, <2>6, <2>10, <2>11
<1>10. QED  BY <1>5, <1>6, <1>7, <1>8, <1>9 DEF LinkNext

\* Going through a set in order.
LEMMA Reading ==
  ASSUME NEW n \in Nat, NEW S \in SUBSET (1 .. n)
  PROVE  /\ Place(S, 0) = 0 /\ Place(S, n) = Cardinality(S)
         /\ \A i \in 0 .. n : Place(S, i) \in 0 .. Cardinality(S)
         /\ \A i \in 0 .. n : i + 1 \in S => Place(S, i + 1) = Place(S, i) + 1
         /\ \A i \in 0 .. n : i + 1 \notin S => Place(S, i + 1) = Place(S, i)
<1>0. \A k \in S : k \in Nat /\ 1 <= k /\ k <= n  OBVIOUS
<1>1. IsFiniteSet(S) /\ Cardinality(S) \in Nat  BY Places
<1>2. Place(S, 0) = 0
  <2>1. \A k \in S : ~(k <= 0)  BY <1>0
  <2>2. {k \in S : k <= 0} = {}  BY <2>1
  <2>3. QED  BY <2>2, FS_EmptySet DEF Place
<1>3. Place(S, n) = Cardinality(S)
  <2>1. {k \in S : k <= n} = S  BY <1>0
  <2>2. QED  BY <2>1 DEF Place
<1>4. ASSUME NEW i \in 0 .. n
      PROVE  /\ Place(S, i) \in 0 .. Cardinality(S)
             /\ i + 1 \in S => Place(S, i + 1) = Place(S, i) + 1
             /\ i + 1 \notin S => Place(S, i + 1) = Place(S, i)
  <2> DEFINE P == {k \in S : k <= i}
             Q == {k \in S : k <= i + 1}
  <2>1. P \in SUBSET S /\ i + 1 \notin P  OBVIOUS
  <2> i \in Nat  OBVIOUS
  <2>0. \A k \in S : k <= i + 1 <=> k <= i \/ k = i + 1  BY <1>0
  <2>2. i + 1 \in S => Q = P \union {i + 1}
    <3>1. SUFFICES ASSUME i + 1 \in S  PROVE Q = P \union {i + 1}
      OBVIOUS
    <3>2. ASSUME NEW k  PROVE k \in Q <=> k \in P \union {i + 1}
      BY <2>0, <3>1
    <3> HIDE DEF P, Q
    <3>3. QED  BY <3>2
  <2>3. i + 1 \notin S => Q = P  BY <2>0
  <2>4. Place(S, i) = Cardinality(P) /\ Place(S, i + 1) = Cardinality(Q)  BY DEF Place
  <2> HIDE DEF P, Q
  <2>5. IsFiniteSet(P) /\ Cardinality(P) <= Cardinality(S)  BY <1>1, <2>1, FS_Subset
  <2>6. Cardinality(P) \in Nat  BY <2>5, FS_CardinalityType
  <2>7. Cardinality(P \union {i + 1}) = Cardinality(P) + 1  BY <2>1, <2>5, FS_AddElement
  <2>8. Place(S, i) \in 0 .. Cardinality(S)  BY <1>1, <2>4, <2>5, <2>6
  <2>9. i + 1 \in S => Place(S, i + 1) = Place(S, i) + 1  BY <2>2, <2>4, <2>7
  <2>10. i + 1 \notin S => Place(S, i + 1) = Place(S, i)  BY <2>3, <2>4
  <2>11. QED  BY <2>8, <2>9, <2>10
<1>5. QED  BY <1>2, <1>3, <1>4

LEMMA DelayStep ==
  ASSUME MmInv, QueueInv, ReadInv, DelaysAtArrival, MmNext, MmInv'
  PROVE  ReadInv' /\ DelaysAtArrival'
<1> DEFINE n == Len(log)
           K == KeptArrivals
           D == Departures
<1>1. MmTypeOK /\ MmTypeOK'  BY DEF MmInv
<1>2. /\ n \in Nat /\ K \in SUBSET (1 .. n) /\ D \in SUBSET (1 .. n)
      /\ Cardinality(K) \in Nat /\ Cardinality(D) \in Nat
      /\ Len(queue) \in Nat /\ at \in 0 .. n /\ base \in Nat
      /\ Cardinality(K) = Cardinality(D) + Len(queue)
      /\ delays \in Seq(Delays) /\ Len(delays) \in Nat /\ Len(delays) = Place(D, LinesRead)
  <2>1. /\ n \in Nat /\ K \in SUBSET (1 .. n) /\ D \in SUBSET (1 .. n)
        /\ Cardinality(K) \in Nat /\ Cardinality(D) \in Nat
    BY <1>1, LogSets
  <2>2. Len(queue) \in Nat /\ at \in 0 .. n /\ base \in Nat  BY <1>1 DEF MmTypeOK
  <2>3. /\ Cardinality(K) = Cardinality(D) + Len(queue)
        /\ delays \in Seq(Delays) /\ Len(delays) = Place(D, LinesRead)
    BY DEF QueueInv, ReadInv
  <2>4. Len(delays) \in Nat  BY <2>3
  <2>5. QED  BY <2>1, <2>2, <2>3, <2>4
<1>3. DelaysAtArrival' <=>
        /\ Len(delays') <= Cardinality(KeptArrivals')
        /\ \A a \in KeptArrivals' :
             Place(KeptArrivals', a) <= Len(delays') =>
               delays'[Place(KeptArrivals', a)].time = log'[a].t - base'
  BY DEF DelaysAtArrival, Place
<1>4. ReadInv' <=> delays' \in Seq(Delays) /\ Len(delays') = Place(Departures', LinesRead')
  BY DEF ReadInv, Place
<1>5. \A a \in K : Place(K, a) <= Len(delays) => delays[Place(K, a)].time = log[a].t - base
  BY DEF DelaysAtArrival
<1>6. \A a \in K : Place(K, a) \in 1 .. Cardinality(K)  BY <1>2, Places
<1>7. CASE LinkNext
  <2>1. mmPc = "log" /\ mmPc' = "log" /\ UNCHANGED delays
    BY <1>7
    DEF LinkNext, LinkTick, LinkArrive, LinkDrop, LinkOpportunity, LinkDepart, Writes
  <2>2. LinesRead = 0 /\ LinesRead' = 0  BY <2>1 DEF LinesRead
  <2>3. Len(delays) = 0  BY <1>2, <2>2, Reading
  <2> DEFINE N == Len(log')
             K1 == KeptArrivals'
             D1 == Departures'
  <2>4. N \in Nat /\ K1 \in SUBSET (1 .. N) /\ D1 \in SUBSET (1 .. N)
    BY <1>1 DEF MmTypeOK, KeptArrivals, Departures
  <2> HIDE DEF N, K1, D1
  <2>5. Place(D1, 0) = 0 /\ Cardinality(K1) \in Nat /\ \A a \in K1 : Place(K1, a) \in 1 .. Cardinality(K1)
    BY <2>4, Reading, Places
  <2>6. Len(delays') = 0  BY <2>1, <2>3
  <2>7. ReadInv'
    BY <1>2, <1>4, <2>1, <2>2, <2>5, <2>6 DEF D1
  <2>8. /\ Len(delays') <= Cardinality(K1)
        /\ \A a \in K1 : ~(Place(K1, a) <= Len(delays'))
    BY <2>5, <2>6
  <2>9. DelaysAtArrival'  BY <1>3, <2>8 DEF K1
  <2>10. QED  BY <2>7, <2>9
<1>8. ASSUME UNCHANGED <<log, base>>
      PROVE  KeptArrivals' = K /\ Departures' = D
  BY <1>8 DEF KeptArrivals, Departures
<1>9. ASSUME UNCHANGED <<log, base, delays>>, LinesRead' = LinesRead
      PROVE  ReadInv' /\ DelaysAtArrival'
  <2>1. KeptArrivals' = K /\ Departures' = D  BY <1>8, <1>9
  <2>2. Len(delays) <= Cardinality(K)  BY DEF DelaysAtArrival
  <2> HIDE DEF K, D
  <2>3. ReadInv'  BY <1>2, <1>4, <1>9, <2>1
  <2>4. DelaysAtArrival'  BY <1>3, <1>5, <1>9, <2>1, <2>2
  <2>5. QED  BY <2>3, <2>4
<1>10. CASE PlotStart
  <2>1. UNCHANGED <<log, base, delays, at>> /\ mmPc = "log" /\ mmPc' = "delays"
    BY <1>10 DEF PlotStart, linkVars
  <2>2. LinesRead' = LinesRead  BY <2>1 DEF MmInv, Unread, LinesRead
  <2>3. QED  BY <1>9, <2>1, <2>2
<1>11. CASE DelayEnd
  <2>1. UNCHANGED <<log, base, delays>> /\ mmPc = "delays" /\ mmPc' = "bins" /\ at = Len(log)
    BY <1>11 DEF DelayEnd, linkVars
  <2>2. LinesRead' = LinesRead  BY <2>1 DEF LinesRead
  <2>3. QED  BY <1>9, <2>1, <2>2
<1>12. CASE BinLine \/ BinEnd
  <2>1. /\ UNCHANGED <<log, base, delays>> /\ mmPc = "bins"
        /\ mmPc' \in {"bins", "error", "done"}
    BY <1>12 DEF BinLine, BinEnd, linkVars
  <2>2. LinesRead' = LinesRead  BY <2>1 DEF LinesRead
  <2>3. QED  BY <1>9, <2>1, <2>2
<1>13. CASE DelayLine
  <2> DEFINE d == at + 1
             line == log[d]
             i == Place(D, at)
  <2>1. /\ UNCHANGED <<log, base>> /\ mmPc = "delays" /\ mmPc' = "delays" /\ at < Len(log)
        /\ at' = d
        /\ delays' = IF line.ev = "-" THEN Append(delays, DelayOf(line)) ELSE delays
    BY <1>13 DEF DelayLine, linkVars
  <2>2. KeptArrivals' = K /\ Departures' = D  BY <1>8, <2>1
  <2>3. d \in 1 .. n  BY <1>2, <2>1
  <2>4. LinesRead = at /\ LinesRead' = d  BY <2>1 DEF LinesRead
  <2>5. d \in D <=> line.ev = "-"  BY <2>3 DEF Departures
  <2>6. Len(delays) = i /\ i \in 0 .. Cardinality(D)  BY <1>2, <2>4, Reading
  <2>7. /\ d \in D => Place(D, d) = i + 1
        /\ d \notin D => Place(D, d) = i
        /\ Place(D, d) \in 0 .. Cardinality(D)
    <3>1. d \in 0 .. n  BY <2>3
    <3>2. QED  BY <1>2, <3>1, Reading
  <2>8. line.t \in Int /\ line.delay \in Int
    <3>1. line \in Lines  BY <1>1, <2>3, LogLine
    <3>2. QED  BY <3>1 DEF Lines
  <2>9. CASE d \notin D
    <3>1. UNCHANGED delays  BY <2>1, <2>5, <2>9
    <3>2. Len(delays) <= Cardinality(K)  BY DEF DelaysAtArrival
    <3> HIDE DEF K, D, d, i, line
    <3>3. Len(delays') = Place(D, d)  BY <2>6, <2>7, <2>9, <3>1
    <3>4. ReadInv'  BY <1>2, <1>4, <2>2, <2>4, <3>1, <3>3
    <3>5. DelaysAtArrival'  BY <1>3, <1>5, <2>1, <2>2, <3>1, <3>2
    <3>6. QED  BY <3>4, <3>5
  <2>10. CASE d \in D
    <3> DEFINE new == DelayOf(line)
    <3>1. new \in Delays /\ new.time = line.t - base - line.delay
      BY <1>2, <2>8 DEF DelayOf, Delays
    <3>2. delays' = Append(delays, new)  BY <2>1, <2>5, <2>10
    <3> HIDE DEF new, K, D, d, i, line, Delays
    <3>3. /\ delays' \in Seq(Delays) /\ Len(delays') = Len(delays) + 1
          /\ delays'[Len(delays) + 1] = new
          /\ \A j \in 1 .. Len(delays) : delays'[j] = delays[j]
      <4>1. delays \in Seq(Delays) /\ new \in Delays  BY <1>2, <3>1
      <4>2. QED  BY <3>2, <4>1, Appended
    <3>4. Len(delays') = i + 1 /\ Place(D, d) = i + 1  BY <2>6, <2>7, <2>10, <3>3
    <3>5. ReadInv'  BY <1>4, <2>2, <2>4, <3>3, <3>4
    <3>6. Len(delays') <= Cardinality(K)  BY <1>2, <2>7, <3>4
    <3>7. ASSUME NEW a \in K, Place(K, a) <= Len(delays')
          PROVE  delays'[Place(K, a)].time = log[a].t - base
      <4>1. Place(K, a) \in 1 .. Cardinality(K)  BY <1>6, <3>7
      <4>2. CASE Place(K, a) <= Len(delays)
        <5>1. Place(K, a) \in 1 .. Len(delays)  BY <1>2, <4>1, <4>2
        <5>2. QED  BY <1>5, <3>3, <3>7, <4>2, <5>1
      <4>3. CASE ~(Place(K, a) <= Len(delays))
        <5>1. Place(K, a) = i + 1  BY <1>2, <2>6, <3>4, <3>7, <4>1, <4>3
        <5>2. delays'[Place(K, a)].time = line.t - base - line.delay
          BY <2>6, <3>1, <3>3, <5>1
        <5>3. line.t - line.delay = log[a].t
          BY <2>10, <3>4, <3>7, <5>1 DEF QueueInv, K, D, line
        <5>4. line.t - base - line.delay = (line.t - line.delay) - base  BY <1>2, <2>8
        <5>5. QED  BY <5>2, <5>3, <5>4
      <4>4. QED  BY <4>2, <4>3
    <3>8. DelaysAtArrival'  BY <1>3, <2>1, <2>2, <3>6, <3>7
    <3>9. QED  BY <3>5, <3>8
  <2>11. QED  BY <2>9, <2>10
<1>14. QED  BY <1>7, <1>10, <1>11, <1>12, <1>13 DEF MmNext

LEMMA DelayInvInit == Init => DelayInv
<1> SUFFICES ASSUME Init  PROVE DelayInv
  OBVIOUS
<1>1. MmInv  BY MmInvInit
<1>2. queue = <<>> /\ log = <<>> /\ delays = <<>> /\ mmPc = "log"  BY DEF Init, MmInit
<1>3. Len(<<>>) = 0 /\ 1 .. 0 = {} /\ <<>> \in Seq(Delays)
  <2> HIDE DEF Delays
  <2>1. QED  OBVIOUS
<1>4. KeptArrivals = {} /\ Departures = {}  BY <1>2, <1>3 DEF KeptArrivals, Departures
<1>5. Cardinality({}) = 0 /\ Place({}, 0) = 0
  BY FS_EmptySet DEF Place
<1>6. LinesRead = 0  BY <1>2 DEF LinesRead
<1>7. QED
  BY <1>1, <1>2, <1>3, <1>4, <1>5, <1>6 DEF DelayInv, QueueInv, ReadInv, DelaysAtArrival

LEMMA DelayInvStep == DelayInv /\ [Next]_vars => DelayInv'
<1> SUFFICES ASSUME DelayInv, [Next]_vars  PROVE DelayInv'
  OBVIOUS
<1>1. MmInv'  BY MmInvStep DEF DelayInv
<1>2. CASE MmNext
  <2>1. QueueInv'
    <3>1. CASE LinkNext  BY <3>1, QueueStep DEF DelayInv, MmInv
    <3>2. CASE ~LinkNext
      <4>1. UNCHANGED <<queue, log>>
        BY <1>2, <3>2
        DEF MmNext, PlotStart, DelayLine, DelayEnd, BinLine, BinEnd, linkVars
      <4>2. KeptArrivals' = KeptArrivals /\ Departures' = Departures
        BY <4>1 DEF KeptArrivals, Departures
      <4>3. QED  BY <4>1, <4>2 DEF DelayInv, QueueInv, Place
    <3>3. QED  BY <3>1, <3>2
  <2>2. ReadInv' /\ DelaysAtArrival'  BY <1>1, <1>2, DelayStep DEF DelayInv
  <2>3. QED  BY <1>1, <2>1, <2>2 DEF DelayInv
<1>3. CASE UNCHANGED mmVars
  <2>1. UNCHANGED <<queue, log, base, mmPc, at, delays>>  BY <1>3 DEF mmVars, linkVars
  <2>2. KeptArrivals' = KeptArrivals /\ Departures' = Departures /\ LinesRead' = LinesRead
    BY <2>1 DEF KeptArrivals, Departures, LinesRead
  <2>3. QueueInv'  BY <2>1, <2>2 DEF DelayInv, QueueInv, Place
  <2>4. ReadInv'  BY <2>1, <2>2 DEF DelayInv, ReadInv, Place
  <2>5. DelaysAtArrival'  BY <2>1, <2>2 DEF DelayInv, DelaysAtArrival, Place
  <2>6. QED  BY <1>1, <2>3, <2>4, <2>5 DEF DelayInv
<1>4. QED  BY <1>2, <1>3 DEF Next, vars

\* parse_mm_queue_delays: for every log of the link, whatever it drops and however the
\* packets that get through and the dropped ones alternate, the i-th delay plotted
\* stands at the time when the i-th packet that got through arrived.
THEOREM DelaysStandAtArrival == Spec => []DelaysAtArrival
<1>1. DelayInv => DelaysAtArrival  BY DEF DelayInv
<1>2. QED  BY <1>1, DelayInvInit, DelayInvStep, PTL DEF Spec

-----------------------------------------------------------------------------
(* The generated trace *)

TraceLines == [t : Nat, probe : BOOLEAN]

\* As long as no gap was wider than the probe interval the next burst is ahead
\* of all that is written.
GenInv ==
  /\ GenTypeOK
  /\ \A i \in 1 .. Len(out) : out[i].t <= last
  /\ widest <= interval => last < probePoint /\ InOrder

LEMMA TimeOfLine ==
  ASSUME NEW s \in Seq(TraceLines), NEW i \in 1 .. Len(s)
  PROVE  s[i] \in TraceLines /\ s[i].t \in Nat
<1>1. s[i] \in TraceLines
  <2> HIDE DEF TraceLines
  <2>1. QED  BY Element
<1>2. QED  BY <1>1 DEF TraceLines

\* Lines that are in order stay so when lines of one later time follow.
LEMMA LaterLines ==
  ASSUME NEW s \in Seq(TraceLines), NEW r \in Seq(TraceLines), NEW t \in Nat,
         \A i \in 1 .. Len(r) : r[i].t = t,
         NEW u \in Nat, t <= u, \A i \in 1 .. Len(s) : s[i].t <= u
  PROVE  /\ s \o r \in Seq(TraceLines)
         /\ \A i \in 1 .. Len(s \o r) : (s \o r)[i].t <= u
         /\ (/\ \A i \in 1 .. Len(s) : s[i].t <= t
             /\ \A i, j \in 1 .. Len(s) : i < j => s[i].t <= s[j].t) =>
              \A i, j \in 1 .. Len(s \o r) : i < j => (s \o r)[i].t <= (s \o r)[j].t
<1> DEFINE n == Len(s)
           m == Len(r)
           all == s \o r
<1>1. /\ n \in Nat /\ m \in Nat /\ all \in Seq(TraceLines) /\ Len(all) = n + m
      /\ \A i \in 1 .. n : all[i] = s[i]
      /\ \A i \in 1 .. m : all[n + i] = r[i]
  <2> HIDE DEF TraceLines
  <2>1. QED  BY Joined
<1>2. ASSUME NEW i \in 1 .. n + m, i \notin 1 .. n  PROVE all[i].t = t
  <2>1. i - n \in 1 .. m /\ n + (i - n) = i  BY <1>1, <1>2
  <2>2. QED  BY <1>1, <2>1
<1>3. \A i \in 1 .. n + m : all[i].t <= u  BY <1>1, <1>2
<1>4. ASSUME \A i \in 1 .. n : s[i].t <= t,
             \A i, j \in 1 .. n : i < j => s[i].t <= s[j].t,
             NEW i \in 1 .. n + m, NEW j \in 1 .. n + m, i < j
      PROVE  all[i].t <= all[j].t
  <2>1. CASE j \in 1 .. n
    <3>1. i \in 1 .. n  BY <1>1, <1>4, <2>1
    <3>2. QED  BY <1>1, <1>4, <2>1, <3>1
  <2>2. CASE j \notin 1 .. n
    <3>1. all[j].t = t  BY <1>2, <2>2
    <3>2. CASE i \in 1 .. n  BY <1>1, <1>4, <3>1, <3>2
    <3>3. CASE i \notin 1 .. n  BY <1>2, <3>1, <3>3
    <3>4. QED  BY <3>2, <3>3
  <2>3. QED  BY <2>1, <2>2
<1> HIDE DEF all
<1>5. /\ all \in Seq(TraceLines) /\ \A i \in 1 .. Len(all) : all[i].t <= u
      /\ (/\ \A i \in 1 .. Len(s) : s[i].t <= t
          /\ \A i, j \in 1 .. Len(s) : i < j => s[i].t <= s[j].t) =>
           \A i, j \in 1 .. Len(all) : i < j => all[i].t <= all[j].t
  BY <1>1, <1>3, <1>4
<1>6. QED  BY <1>5 DEF all

LEMMA BurstLines ==
  ASSUME GenTypeOK, NEW t \in Nat
  PROVE  /\ Burst(t) \in Seq(TraceLines)
         /\ \A i \in 1 .. Len(Burst(t)) : Burst(t)[i].t = probePoint
         /\ t < probePoint => Burst(t) = <<>>
         /\ Append(out \o Burst(t), Packet(t)) = (out \o Burst(t)) \o <<Packet(t)>>
         /\ <<Packet(t)>> \in Seq(TraceLines) /\ <<Packet(t)>>[1].t = t
         /\ Len(<<Packet(t)>>) = 1
<1>1. probePoint \in Nat /\ ProbeLength \in Nat /\ out \in Seq(TraceLines)
  BY GenAssumption DEF GenTypeOK, TraceLines
<1>2. Probe(probePoint) \in TraceLines /\ Probe(probePoint).t = probePoint
  BY <1>1 DEF Probe, TraceLines
<1>3. Packet(t) \in TraceLines /\ Packet(t).t = t  BY DEF Packet, TraceLines
<1>4. CASE t >= probePoint
  <2> DEFINE line == Probe(probePoint)
             burst == [i \in 1 .. ProbeLength |-> line]
  <2>1. burst \in Seq(TraceLines) /\ Len(burst) = ProbeLength
        /\ \A i \in 1 .. Len(burst) : burst[i] = line
    <3>1. line \in TraceLines  BY <1>2
    <3> HIDE DEF line, TraceLines
    <3>2. QED  BY <1>1, <3>1
  <2>2. Burst(t) = burst  BY <1>4 DEF Burst
  <2>3. Burst(t) \in Seq(TraceLines) /\ \A i \in 1 .. Len(Burst(t)) : Burst(t)[i] = line
    BY <2>1, <2>2
  <2> HIDE DEF burst
  <2>4. /\ Append(out \o Burst(t), Packet(t)) = (out \o Burst(t)) \o <<Packet(t)>>
        /\ <<Packet(t)>> \in Seq(TraceLines) /\ Len(<<Packet(t)>>) = 1
    <3> HIDE DEF TraceLines
    <3>1. out \o Burst(t) \in Seq(TraceLines)  BY <1>1, <2>3, Joined
    <3>2. QED  BY <1>3, <3>1
  <2>5. QED  BY <1>1, <1>2, <1>3, <1>4, <2>3, <2>4
<1>5. CASE ~(t >= probePoint)
  <2>1. Burst(t) = <<>> /\ Burst(t) \in Seq(TraceLines) /\ Len(Burst(t)) = 0
    <3> HIDE DEF TraceLines
    <3>1. QED  BY <1>5 DEF Burst
  <2>2. /\ Append(out \o Burst(t), Packet(t)) = (out \o Burst(t)) \o <<Packet(t)>>
        /\ <<Packet(t)>> \in Seq(TraceLines) /\ Len(<<Packet(t)>>) = 1
    <3> HIDE DEF TraceLines
    <3>1. out \o Burst(t) \in Seq(TraceLines)  BY <1>1, <2>1, Joined
    <3>2. QED  BY <1>3, <3>1
  <2>3. QED  BY <1>3, <2>1, <2>2
<1>6. QED  BY <1>4, <1>5

LEMMA GenInvStep ==
  ASSUME GenInv, GenPacket
  PROVE  GenInv'
<1>1. PICK gap \in 0 .. MaxGap :
        /\ out' = Append(out \o Burst(last + gap), Packet(last + gap))
        /\ probePoint' = NextProbe(last + gap)
        /\ last' = last + gap
        /\ widest' = IF gap > widest THEN gap ELSE widest
  BY DEF GenPacket, Extended
<1> DEFINE t == last + gap
           middle == out \o Burst(t)
<1>2. /\ interval \in Nat \ {0} /\ probePoint \in Nat /\ last \in Nat /\ widest \in Nat
      /\ interval' = interval /\ gap \in Nat /\ t \in Nat /\ last <= t
      /\ out \in Seq(TraceLines)
  BY GenAssumption DEF GenInv, GenTypeOK, GenPacket, TraceLines
<1>3. /\ Burst(t) \in Seq(TraceLines)
      /\ \A i \in 1 .. Len(Burst(t)) : Burst(t)[i].t = probePoint
      /\ t < probePoint => Burst(t) = <<>>
      /\ out' = middle \o <<Packet(t)>>
      /\ <<Packet(t)>> \in Seq(TraceLines) /\ <<Packet(t)>>[1].t = t
      /\ Len(<<Packet(t)>>) = 1
  BY <1>1, <1>2, BurstLines DEF GenInv
<1>4. \A i \in 1 .. Len(out) : out[i].t \in Nat /\ out[i].t <= last
  BY <1>2, TimeOfLine DEF GenInv
<1>5. \A i \in 1 .. Len(out) : out[i].t <= t
  BY <1>2, <1>4
<1> HIDE DEF t
<1>6. /\ middle \in Seq(TraceLines) /\ \A i \in 1 .. Len(middle) : middle[i].t <= t
      /\ widest <= interval => \A i, j \in 1 .. Len(middle) : i < j => middle[i].t <= middle[j].t
  <2>1. CASE t < probePoint
    <3>1. middle = out
      <4> HIDE DEF TraceLines
      <4>1. QED  BY <1>2, <1>3, <2>1
    <3>2. QED  BY <1>2, <1>5, <3>1 DEF GenInv, InOrder
  <2>2. CASE probePoint <= t
    <3>1. /\ middle \in Seq(TraceLines) /\ \A i \in 1 .. Len(middle) : middle[i].t <= t
          /\ (/\ \A i \in 1 .. Len(out) : out[i].t <= probePoint
              /\ \A i, j \in 1 .. Len(out) : i < j => out[i].t <= out[j].t) =>
               \A i, j \in 1 .. Len(middle) : i < j => middle[i].t <= middle[j].t
      BY <1>2, <1>3, <1>5, <2>2, LaterLines
    <3>2. ASSUME widest <= interval
          PROVE  /\ \A i \in 1 .. Len(out) : out[i].t <= probePoint
                 /\ \A i, j \in 1 .. Len(out) : i < j => out[i].t <= out[j].t
      <4>1. last < probePoint /\ InOrder  BY <3>2 DEF GenInv
      <4>2. QED  BY <1>2, <1>4, <4>1 DEF InOrder
    <3>3. QED  BY <3>1, <3>2
  <2>3. t < probePoint \/ probePoint <= t  BY <1>2
  <2>4. QED  BY <2>1, <2>2, <2>3
<1> HIDE DEF middle
<1>7. /\ out' \in Seq(TraceLines) /\ \A i \in 1 .. Len(out') : out'[i].t <= t
      /\ widest <= interval => InOrder'
  <2>1. \A i \in 1 .. Len(<<Packet(t)>>) : <<Packet(t)>>[i].t = t
    BY <1>3
  <2> DEFINE one == <<Packet(t)>>
  <2>2. one \in Seq(TraceLines) /\ \A i \in 1 .. Len(one) : one[i].t = t  BY <1>3, <2>1
  <2> HIDE DEF one
  <2>3. /\ middle \o one \in Seq(TraceLines)
        /\ \A i \in 1 .. Len(middle \o one) : (middle \o one)[i].t <= t
        /\ (/\ \A i \in 1 .. Len(middle) : middle[i].t <= t
            /\ \A i, j \in 1 .. Len(middle) : i < j => middle[i].t <= middle[j].t) =>
             \A i, j \in 1 .. Len(middle \o one) :
               i < j => (middle \o one)[i].t <= (middle \o one)[j].t
    <3>1. t \in Nat /\ t <= t  BY <1>2
    <3>2. middle \in Seq(TraceLines) /\ \A i \in 1 .. Len(middle) : middle[i].t <= t
      BY <1>6
    <3> HIDE DEF TraceLines
    <3>3. QED  BY <2>2, <3>1, <3>2, LaterLines
  <2>4. out' = middle \o one  BY <1>3 DEF one
  <2>5. QED  BY <1>6, <2>3, <2>4 DEF InOrder
<1>8. probePoint' \in Nat /\ last' = t /\ widest' \in Nat
  BY <1>1, <1>2 DEF NextProbe, t
<1>9. ASSUME widest' <= interval'  PROVE last' < probePoint' /\ widest <= interval
  <2>1. gap <= interval /\ widest <= interval  BY <1>1, <1>2, <1>9
  <2>2. last < probePoint  BY <2>1 DEF GenInv
  <2>3. QED  BY <1>1, <1>2, <2>1, <2>2 DEF NextProbe, t
<1>10. GenTypeOK'  BY <1>2, <1>7, <1>8 DEF GenTypeOK, TraceLines
<1>11. QED  BY <1>7, <1>8, <1>9, <1>10 DEF GenInv

LEMMA GenInvariant == Spec => []GenInv
<1>1. Init => GenInv
  <2>1. <<>> \in Seq(TraceLines) /\ Len(<<>>) = 0
    <3> HIDE DEF TraceLines
    <3>1. QED  OBVIOUS
  <2>2. QED
    BY <2>1, GenAssumption DEF Init, GenInit, GenInv, GenTypeOK, InOrder, TraceLines
<1>2. GenInv /\ [Next]_vars => GenInv'
  <2> SUFFICES ASSUME GenInv, [Next]_vars  PROVE GenInv'
    OBVIOUS
  <2>1. CASE GenPacket  BY <2>1, GenInvStep
  <2>2. CASE UNCHANGED genVars  BY <2>2 DEF genVars, GenInv, GenTypeOK, InOrder
  <2>3. QED  BY <2>1, <2>2 DEF Next, vars
<1>3. QED  BY <1>1, <1>2, PTL DEF Spec

\* gen_trace: for every number of packets and probe lines, a trace whose packets are
\* never further apart than the probe interval is in the order of its times.
THEOREM TraceInOrder == Spec => []ProbesInOrder
<1>1. GenInv => ProbesInOrder  BY DEF GenInv, ProbesInOrder
<1>2. QED  BY <1>1, GenInvariant, PTL

\* All analysis scripts keep the types of their variables.
THEOREM AnalysisTypeCorrect == Spec => []TypeOK
<1>1. TraceInv /\ MmInv /\ GenInv => TypeOK
  BY DEF TraceInv, MmInv, GenInv, TypeOK
<1>2. QED  BY <1>1, TraceInvariant, MmInvariant, GenInvariant, PTL
=============================================================================
