------------------------------ MODULE TraceBins ------------------------------
(***************************************************************************)
(* The three scripts that turn a file of timed lines into a rate per       *)
(* interval: parse_trace_file of mmparse.py (a line is a packet) with      *)
(* plot_bgtrace of plot.py, channelsCap.py (a line is a number of packets) *)
(* and PlotThput of PlotvaticTrace.py (a line is a packet of some size).   *)
(* They share a loop that closes an interval when a line lies beyond it;   *)
(* a line closes one interval at most, so that the intervals fall behind   *)
(* where the file has a gap.                                               *)
(***************************************************************************)
EXTENDS Totals, Sequences

CONSTANTS
  MaxTrace,  \* lines of a file, a bound
  MaxTime,   \* times in a file, a bound
  MaxUnits,  \* packets, or bytes, of a line
  Steps      \* lengths of an interval

ASSUME TraceAssumption ==
  MaxTrace \in Nat /\ MaxTime \in Nat /\ MaxUnits \in Nat /\ Steps \subseteq Nat \ {0}

VARIABLES
  reader, step, file,         \* the script, its interval, the file
  trPc, pos, nextTime, cnt,   \* locals of the loop; pos lines are read
  bw, ends,                   \* BW, and the times of PlotThput
  closers                     \* history: the lines that closed an interval

traceVars == <<reader, step, file, trPc, pos, nextTime, cnt, bw, ends, closers>>

Readers == {"parse_trace_file", "channelsCap", "PlotThput"}
Entries == [t : 0 .. MaxTime, n : 1 .. MaxUnits]
Entry == file[pos + 1]

\* What a line counts for.
Weight(entry) == IF reader = "parse_trace_file" THEN 1 ELSE entry.n

-----------------------------------------------------------------------------
(* The file: times never go back *)

FileLine ==
  /\ trPc = "file" /\ Len(file) < MaxTrace
  /\ \E entry \in Entries :
       /\ file # <<>> => file[Len(file)].t <= entry.t
       /\ file' = Append(file, entry)
  /\ UNCHANGED <<reader, step, trPc, pos, nextTime, cnt, bw, ends, closers>>

FileOpen ==
  /\ trPc = "file"
  /\ trPc' = "loop"
  /\ UNCHANGED <<reader, step, file, pos, nextTime, cnt, bw, ends, closers>>

-----------------------------------------------------------------------------
(* The loops *)

Closes == Entry.t > nextTime

Close(rest) ==
  /\ bw' = Append(bw, cnt)
  /\ cnt' = rest
  /\ nextTime' = nextTime + step
  /\ closers' = closers \union {pos + 1}

Count ==
  /\ cnt' = cnt + Weight(Entry)
  /\ UNCHANGED <<nextTime, bw, closers>>

ReadsLine ==
  /\ trPc = "loop" /\ pos < Len(file)
  /\ pos' = pos + 1
  /\ UNCHANGED <<reader, step, file, trPc>>

TraceLine_bug ==
  /\ reader = "parse_trace_file"
  /\ ReadsLine
  /\ IF Closes THEN Close(1) ELSE Count
  /\ UNCHANGED ends

\* parse_trace_file: the line that closes an interval is not counted.
TraceLine ==
  /\ reader = "parse_trace_file"
  /\ ReadsLine
  /\ IF Closes THEN Close(0) ELSE Count
  /\ UNCHANGED ends

\* The loop of channelsCap.py does the same with the packets of a line.
ChannelLine ==
  /\ reader = "channelsCap"
  /\ ReadsLine
  /\ IF Closes THEN Close(0) ELSE Count
  /\ UNCHANGED ends

ThputClose_bug == Close(0) /\ ends' = Append(ends, Entry.t)
ThputClose == Close(Weight(Entry)) /\ ends' = Append(ends, Entry.t)

\* PlotThput: the first line starts the first interval, a line that closes one
\* counts in the next.
ThputLine ==
  /\ reader = "PlotThput"
  /\ ReadsLine
  /\ IF nextTime < 0
     THEN /\ nextTime' = Entry.t + step /\ cnt' = cnt + Weight(Entry)
          /\ UNCHANGED <<bw, ends, closers>>
     ELSE IF Closes THEN ThputClose ELSE Count /\ UNCHANGED ends

\* plot_bgtrace takes the mean of the intervals: without one it fails.
BgtraceEnd ==
  /\ reader = "parse_trace_file"
  /\ trPc = "loop" /\ pos = Len(file)
  /\ trPc' = IF bw = <<>> THEN "error" ELSE "done"
  /\ UNCHANGED <<reader, step, file, pos, nextTime, cnt, bw, ends, closers>>

\* channelsCap.py takes their maximum.
ChannelEnd ==
  /\ reader = "channelsCap"
  /\ trPc = "loop" /\ pos = Len(file)
  /\ trPc' = IF bw = <<>> THEN "error" ELSE "done"
  /\ UNCHANGED <<reader, step, file, pos, nextTime, cnt, bw, ends, closers>>

\* PlotThput closes its last interval at the last line; an empty file leaves the
\* time of that line unbound.
ThputEnd ==
  /\ reader = "PlotThput"
  /\ trPc = "loop" /\ pos = Len(file)
  /\ IF file = <<>>
     THEN trPc' = "error" /\ UNCHANGED <<cnt, bw, ends>>
     ELSE /\ trPc' = "done"
          /\ bw' = Append(bw, cnt) /\ cnt' = 0
          /\ ends' = Append(ends, file[pos].t)
  /\ UNCHANGED <<reader, step, file, pos, nextTime, closers>>

TraceInit ==
  /\ reader \in Readers /\ step \in Steps
  /\ file = <<>> /\ trPc = "file" /\ pos = 0 /\ cnt = 0
  /\ nextTime = IF reader = "PlotThput" THEN -1 ELSE step
  /\ bw = <<>> /\ ends = <<>> /\ closers = {}

TraceNext ==
  \/ FileLine \/ FileOpen
  \/ TraceLine \/ ChannelLine \/ ThputLine
  \/ BgtraceEnd \/ ChannelEnd \/ ThputEnd

-----------------------------------------------------------------------------
(* Properties *)

TraceTypeOK ==
  /\ reader \in Readers /\ step \in Nat \ {0}
  /\ file \in Seq(Entries) /\ Len(file) <= MaxTrace
  /\ trPc \in {"file", "loop", "error", "done"} /\ pos \in 0 .. Len(file)
  /\ nextTime \in Nat \union {-1} /\ cnt \in Nat
  /\ bw \in Seq(Nat) /\ ends \in Seq(Nat) /\ closers \subseteq 1 .. pos

Weights == [i \in 1 .. Len(file) |-> Weight(file[i])]
InInterval(k) ==
  {i \in 1 .. pos : (k = 1 \/ (k - 1) * step < file[i].t) /\ file[i].t <= k * step}

\* parse_trace_file, channelsCap: an interval of the plot never shows packets of
\* another one, however late it was closed after a gap; it misses exactly the
\* lines that closed an interval.
IntervalsKeepTheirs ==
  reader # "PlotThput" =>
    \A k \in 1 .. Len(bw) : bw[k] = Total(Weights, InInterval(k) \ closers)

\* ... and with several closing lines in one interval nothing else is lost: what
\* is read is in an interval, is still being counted, or closed one.
OnlyClosersLost ==
  reader # "PlotThput" =>
    Total(Weights, 1 .. pos) =
      Total(bw, 1 .. Len(bw)) + cnt + Total(Weights, closers)

\* PlotThput: every byte the client logged is in the plot, once.
BytesKept ==
  reader = "PlotThput" =>
    Total(Weights, 1 .. pos) = Total(bw, 1 .. Len(bw)) + cnt

\* The three loops: what is read of a file is plotted, still being counted or, in
\* two of them, lost with a line that closed an interval, and never counted twice.
LinesAreKept == OnlyClosersLost /\ BytesKept
=============================================================================
