----------------------------- MODULE LogAnalysis -----------------------------
(***************************************************************************)
(* The scripts that read and write traces and logs.  Each is a program of  *)
(* its own that works on its own files; a behavior is about one of them.   *)
(***************************************************************************)
EXTENDS MmLog, TraceBins, GenTrace

VARIABLE program

vars == <<mmVars, traceVars, genVars, program>>

\* What a program that does not run would work on does not matter.
AnyMm == base = 0 /\ width = CHOOSE w \in BinWidths : TRUE
AnyTrace == reader = "PlotThput" /\ step = CHOOSE s \in Steps : TRUE
AnyGen == interval = CHOOSE i \in Intervals : TRUE

Init ==
  /\ MmInit /\ TraceInit /\ GenInit
  /\ \/ program = "mm" /\ AnyTrace /\ AnyGen
     \/ program = "trace" /\ AnyMm /\ AnyGen
     \/ program = "gen" /\ AnyMm /\ AnyTrace

Stopped ==
  \/ program = "mm" /\ mmPc \in {"error", "done"}
  \/ program = "trace" /\ trPc \in {"error", "done"}
  \/ program = "gen" /\ Len(Packets) = MaxPackets

Next ==
  \/ program = "mm" /\ MmNext /\ UNCHANGED <<traceVars, genVars, program>>
  \/ program = "trace" /\ TraceNext /\ UNCHANGED <<mmVars, genVars, program>>
  \/ program = "gen" /\ GenPacket /\ UNCHANGED <<mmVars, traceVars, program>>
  \/ Stopped /\ UNCHANGED vars

Spec == Init /\ [][Next]_vars

TypeOK == MmTypeOK /\ TraceTypeOK /\ GenTypeOK
=============================================================================
