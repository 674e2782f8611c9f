-------------------------------- MODULE MmLog --------------------------------
(***************************************************************************)
(* The log of an emulated link, and what the scripts compute from it:      *)
(* parse_mm_queue_delays and parse_mm_throughput of mmparse.py, one step   *)
(* per line of the file, and plot_tput_delay of plot.py, which calls both. *)
(* mm-link, which writes the file, is external: a FIFO of packets and a    *)
(* clock in milliseconds.  The file is complete when it is read.           *)
(***************************************************************************)
EXTENDS Totals, Sequences

CONSTANTS
  MaxLog,     \* lines of a log, a bound
  MaxMs,      \* clock, a bound
  MaxLen,     \* bytes of the longest packet
  BaseTimes,  \* values of "# base timestamp"
  BinWidths   \* ms_per_bin

ASSUME MmLogAssumption ==
  /\ MaxLog \in Nat /\ MaxMs \in Nat /\ MaxLen \in Nat \ {0}
  /\ BaseTimes \subseteq Nat /\ BinWidths \subseteq Nat \ {0}

VARIABLES
  now, queue, log, base,          \* the link: clock, arrival times, file
  mmPc, width, at,                \* who reads the file, its bins, lines read
  delays,                         \* parse_mm_queue_delays
  bins, binCur, totals, elapsed   \* parse_mm_throughput: data, bin_cur, *_total, ms_elapsed

linkVars == <<now, queue, log, base>>
binVars == <<bins, binCur, totals, elapsed>>
mmVars == <<linkVars, mmPc, width, at, delays, binVars>>

Counted == {"#", "+", "-"}  \* capacity, ingress, throughput
Events == Counted \union {"d"}
Lines == [t : Nat, ev : Events, len : 0 .. MaxLen, delay : Nat]
NoBits == [ev \in Counted |-> 0]

Line(ev, len, delay) == [t |-> now, ev |-> ev, len |-> len, delay |-> delay]

-----------------------------------------------------------------------------
(* mm-link: the lines carry absolute times, the header the base time *)

Writes(lines) ==
  /\ mmPc = "log"
  /\ Len(log) + Len(lines) <= MaxLog
  /\ log' = log \o lines
  /\ UNCHANGED <<now, base, mmPc, width, at, delays, binVars>>

LinkTick ==
  /\ mmPc = "log" /\ now < MaxMs
  /\ now' = now + 1
  /\ UNCHANGED <<queue, log, base, mmPc, width, at, delays, binVars>>

LinkArrive ==
  /\ Writes(<<Line("+", MaxLen, 0)>>)
  /\ queue' = Append(queue, now)

\* Droptail: the arrival is logged all the same.
LinkDrop ==
  /\ Writes(<<Line("+", MaxLen, 0), Line("d", 1, 0)>>)
  /\ UNCHANGED queue

LinkOpportunity ==
  /\ Writes(<<Line("#", MaxLen, 0)>>)
  /\ UNCHANGED queue

LinkDepart ==
  /\ queue # <<>>
  /\ Writes(<<Line("-", MaxLen, now - Head(queue))>>)
  /\ queue' = Tail(queue)

LinkNext == LinkTick \/ LinkArrive \/ LinkDrop \/ LinkOpportunity \/ LinkDepart

-----------------------------------------------------------------------------
(* parse_mm_queue_delays *)

PlotStart ==
  /\ mmPc = "log"
  /\ mmPc' = "delays"
  /\ UNCHANGED <<linkVars, width, at, delays, binVars>>

\* The departure is plotted at the arrival of its packet.
DelayOf_bug(line) == [time |-> line.t - base, delay |-> line.delay]
DelayOf(line) == [time |-> line.t - base - line.delay, delay |-> line.delay]

DelayLine ==
  /\ mmPc = "delays" /\ at < Len(log)
  /\ delays' = IF log[at + 1].ev = "-" THEN Append(delays, DelayOf(log[at + 1])) ELSE delays
  /\ at' = at + 1
  /\ UNCHANGED <<linkVars, mmPc, width, binVars>>

\* The second function opens the file again.
DelayEnd ==
  /\ mmPc = "delays" /\ at = Len(log)
  /\ mmPc' = "bins"
  /\ at' = 0
  /\ UNCHANGED <<linkVars, width, delays, binVars>>

-----------------------------------------------------------------------------
(* parse_mm_throughput *)

Bits(line) == 8 * line.len
Elapsed(line) == line.t - base
BinOf(line) == Elapsed(line) \div width

\* The bins up to the one of the line; those jumped over are filled with zeros.
Filled_bug(last) ==
  [k \in 0 .. last |-> IF k \in DOMAIN bins THEN bins[k] ELSE bins[binCur]]
Filled(last) == [k \in 0 .. last |-> IF k \in DOMAIN bins THEN bins[k] ELSE NoBits]

Add(sums, line) == [sums EXCEPT ![line.ev] = @ + Bits(line)]

Summed(line) == IF line.ev \in Counted THEN Add(totals, line) ELSE totals

\* A line counts in the last bin, data[-1].
BinLine ==
  /\ mmPc = "bins" /\ at < Len(log)
  /\ LET line == log[at + 1]
         last == IF BinOf(line) > binCur THEN BinOf(line) ELSE binCur
     IN /\ binCur' = last
        /\ bins' = IF line.ev \in Counted
                   THEN [Filled(last) EXCEPT ![last] = Add(@, line)]
                   ELSE Filled(last)
        /\ totals' = Summed(line)
        /\ elapsed' = Elapsed(line)
  /\ at' = at + 1
  /\ UNCHANGED <<linkVars, mmPc, width, delays>>

\* The averages divide by the time of the last line, which an empty log leaves
\* unbound, and the utilization by the capacity.
BinEnd ==
  /\ mmPc = "bins" /\ at = Len(log)
  /\ mmPc' = IF log = <<>> \/ elapsed = 0 \/ totals["#"] = 0 THEN "error" ELSE "done"
  /\ UNCHANGED <<linkVars, width, at, delays, binVars>>

-----------------------------------------------------------------------------
MmInit ==
  /\ base \in BaseTimes
  /\ now = base /\ queue = <<>> /\ log = <<>>
  /\ mmPc = "log" /\ at = 0 /\ width \in BinWidths
  /\ delays = <<>>
  /\ bins = [k \in {0} |-> NoBits] /\ binCur = 0 /\ totals = NoBits /\ elapsed = 0

MmNext ==
  LinkNext \/ PlotStart \/ DelayLine \/ DelayEnd \/ BinLine \/ BinEnd

-----------------------------------------------------------------------------
(* Properties *)

MmTypeOK ==
  /\ base \in Nat /\ now \in Nat /\ queue \in Seq(Nat) /\ log \in Seq(Lines)
  /\ mmPc \in {"log", "delays", "bins", "error", "done"}
  /\ width \in Nat \ {0} /\ at \in 0 .. Len(log)
  /\ binCur \in Nat /\ bins \in [0 .. binCur -> [Counted -> Nat]]
  /\ totals \in [Counted -> Nat] /\ elapsed \in Nat

\* The lines read so far that are of one kind and in one bin, or in any bin.
LinesOf(ev) == {i \in 1 .. at : log[i].ev = ev}
LinesIn(k, ev) == {i \in LinesOf(ev) : (log[i].t - base) \div width = k}
Lens == [i \in 1 .. Len(log) |-> log[i].len]

\* parse_mm_throughput: whatever bins a log jumps over, every bin holds exactly
\* the bits logged in its interval.
BinsMatchLog ==
  mmPc \in {"bins", "done"} =>
    \A k \in DOMAIN bins : \A ev \in Counted :
      bins[k][ev] = 8 * Total(Lens, LinesIn(k, ev))

\* parse_mm_throughput: the totals that the averages are made of are the bits
\* of all lines, and no bin beyond the last one exists that could hold some.
TotalsMatchLog ==
  mmPc \in {"bins", "done"} =>
    /\ \A ev \in Counted : totals[ev] = 8 * Total(Lens, LinesOf(ev))
    /\ \A i \in 1 .. at : (log[i].t - base) \div width \in DOMAIN bins

\* parse_mm_throughput: each bit of the log counts in its bin and in the totals.
LogIsAccounted == BinsMatchLog /\ TotalsMatchLog

\* Arrivals that were not dropped, and which of them, or of other lines, one is.
KeptArrivals ==
  {i \in 1 .. Len(log) : log[i].ev = "+" /\ (i < Len(log) => log[i + 1].ev # "d")}
Place(lines, i) == Cardinality({k \in lines : k <= i})

\* parse_mm_queue_delays: the i-th delay stands at the time when the i-th packet
\* that got through arrived, also when earlier arrivals were dropped.
DelaysAtArrival ==
  /\ Len(delays) <= Cardinality(KeptArrivals)
  /\ \A a \in KeptArrivals :
       LET i == Place(KeptArrivals, a)
       IN i <= Len(delays) => delays[i].time = log[a].t - base
=============================================================================
