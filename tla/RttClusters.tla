---------------------------- MODULE RttClusters ----------------------------
(***************************************************************************)
(* The congestion classifier of the Vatic server: the part of              *)
(* Vatic::ReportAck that runs when an acknowledgement reports no loss      *)
(* (Vatic.cpp:279-317) with RecomputeCentroids and UpdateAlpha.  Every     *)
(* round-trip time enters a bounded backlog, two centroids split the       *)
(* backlog in a low and a high cluster, and alpha is the share of the high *)
(* one.  Only the receiver thread runs this code and touches this state.   *)
(*                                                                         *)
(* Centroids, their distance and alpha are doubles; here they are integers *)
(* in units of 1/Scale.  Scale is a multiple of every possible number of   *)
(* samples, so means and ratios are exact.                                 *)
(*                                                                         *)
(* An operator X_bug is a wrong variant of X that shows what a property    *)
(* depends on (see README.md, "Mutation"); nothing else uses it.           *)
(***************************************************************************)
EXTENDS Integers, Sequences, SequencesExt, Totals

CONSTANTS
  BacklogLen,   \* VaticConf::m_backlogLen
  Scale,        \* units per millisecond of a centroid; Scale stands for 1.0
  Preprocess,   \* VaticConf::m_preprocess
  Rtts,         \* the round-trip times handed to ReportAck
  U32,          \* number of values of std::uint32_t
  Exp(_),       \* floor(e^n): what std::exp(n), stored in a uint32, keeps
  ExpOverflow   \* what that conversion may leave of an e^n that does not fit

\* pop_back of an empty deque (backlog_len = 0) is undefined: at least 1.
ASSUME BacklogLenAssumption == BacklogLen \in Nat \ {0}

ASSUME ScaleAssumption ==
  /\ Scale \in Nat \ {0}
  /\ Scale % 2 = 0
  /\ \A n \in 1 .. BacklogLen : Scale % n = 0

ASSUME RttsAssumption ==
  /\ U32 \in Nat \ {0, 1}
  /\ Rtts \subseteq 0 .. U32 - 1
  /\ Preprocess \in {"NONE", "TANH", "EXP"}
  /\ \A n \in Rtts : Exp(n) \in Nat
  /\ ExpOverflow \subseteq 0 .. U32 - 1 /\ ExpOverflow # {}

VARIABLES
  backlog,      \* m_backlog, newest first
  centroids,    \* m_centroids
  maxCentDist,  \* m_maxCentDist
  alpha         \* m_alpha

clusterVars == <<backlog, centroids, maxCentDist, alpha>>

Invalid == -1

\* The smallest integer whose tanh rounds to the double 1.0.
TanhOne == 20

(***************************************************************************)
(* rtt_feature is "auto" of a uint32, so it is a uint32 as well: tanh      *)
(* keeps 0 or 1 of it, exp its integer part.  Converting a double that     *)
(* does not fit is undefined: any value of ExpOverflow.                    *)
(***************************************************************************)
Features(rtt) ==
  CASE Preprocess = "EXP"  -> IF Exp(rtt) < U32 THEN {Exp(rtt)} ELSE ExpOverflow
    [] Preprocess = "TANH" -> {IF rtt < TanhOne THEN 0 ELSE 1}
    [] OTHER               -> {rtt}

Distance(a, b) == IF a < b THEN b - a ELSE a - b

\* The backlog after a feature entered it; the oldest one leaves a full one.
Pushed(f) == <<f>> \o (IF Len(backlog) = BacklogLen THEN Front(backlog) ELSE backlog)

LowLabelled_bug(log) ==
  {i \in DOMAIN log :
     Distance(Scale * log[i], centroids.first) >= Distance(Scale * log[i], centroids.second)}

\* The entries labelled LOW_CONG_LABEL: a tie goes to the first centroid.
LowLabelled(log) ==
  {i \in DOMAIN log :
     Distance(Scale * log[i], centroids.first) <= Distance(Scale * log[i], centroids.second)}

\* The mean of a cluster; an empty cluster keeps its centroid.
Mean(log, cluster, old) ==
  IF cluster = {} THEN old
  ELSE (Scale \div Cardinality(cluster)) * Total(log, cluster)

Seeded_bug(f) ==
  IF centroids.first = Invalid THEN [centroids EXCEPT !.first = Scale * f]
  ELSE [centroids EXCEPT !.second = Scale * f]

(***************************************************************************)
(* The first feature is the first centroid.  The second centroid is the    *)
(* first feature more than 10% away from it, on the side where it lies.    *)
(***************************************************************************)
Seeded(f) ==
  LET c == centroids.first IN
  IF c = Invalid THEN [centroids EXCEPT !.first = Scale * f]
  ELSE IF 10 * Scale * f > 11 * c THEN [first |-> c, second |-> Scale * f]
  ELSE IF 10 * Scale * f < 9 * c THEN [first |-> Scale * f, second |-> c]
  ELSE centroids

Seed(f) ==
  /\ centroids.second = Invalid
  /\ centroids' = Seeded(f)
  /\ UNCHANGED <<maxCentDist, alpha>>

Means(log, low) ==
  [first  |-> Mean(log, low, centroids.first),
   second |-> Mean(log, DOMAIN log \ low, centroids.second)]

RecomputeCentroids_bug(log, low) ==
  LET means == Means(log, low) IN
    centroids' = means /\ maxCentDist' = Distance(means.first, means.second)

\* The new means replace the centroids only if they are farther apart than
\* the distance stored by the last replacement.
RecomputeCentroids(log, low) ==
  LET means   == Means(log, low)
      newDist == Distance(means.first, means.second) IN
  IF maxCentDist < newDist
  THEN centroids' = means /\ maxCentDist' = newDist
  ELSE UNCHANGED <<centroids, maxCentDist>>

UpdateAlpha(log, low) ==
  alpha' = (Scale \div Len(log)) * Cardinality(DOMAIN log \ low)

\* Labels are rewritten for the whole backlog before they are read, so they
\* are a function of the backlog and the centroids and not a variable.
Classify(log) ==
  /\ centroids.second # Invalid
  /\ LET low == LowLabelled(log) IN
       RecomputeCentroids(log, low) /\ UpdateAlpha(log, low)

ProcessRtt(rtt) ==
  \E f \in Features(rtt) :
    /\ backlog' = Pushed(f)
    /\ \/ Seed(f)
       \/ Classify(Pushed(f))

ClustersInit ==
  /\ backlog = <<>>
  /\ centroids = [first |-> Invalid, second |-> Invalid]
  /\ maxCentDist = 0
  /\ alpha = Scale \div 2

ClustersNext == \E rtt \in Rtts : ProcessRtt(rtt)

ClustersSpec == ClustersInit /\ [][ClustersNext]_clusterVars

-----------------------------------------------------------------------------
(* Properties *)

\* Every feature is a uint32, a centroid is -1 or non-negative, alpha is in [0, 1].
ClustersTypeOK ==
  /\ backlog \in Seq(0 .. U32 - 1) /\ Len(backlog) <= BacklogLen
  /\ centroids \in [first : Nat \union {Invalid}, second : Nat \union {Invalid}]
  /\ maxCentDist \in Nat
  /\ alpha \in 0 .. Scale

HasTwoCentroids == centroids.second # Invalid

\* The first centroid is always the lower one.  ReportAck labels an entry by
\* its position in the pair, so alpha would report calm as congestion if a
\* seeding or a recomputation ever swapped the two.
CentroidsOrdered ==
  /\ HasTwoCentroids => centroids.first \in Nat /\ centroids.first < centroids.second
  /\ centroids.first = Invalid <=> backlog = <<>>

\* m_maxCentDist is the distance of the present centroids, or still the 0 of
\* the constructor: the two are written together or not at all.
MaxDistTracksCentroids ==
  maxCentDist # 0 => HasTwoCentroids /\ maxCentDist = centroids.second - centroids.first

\* Once RecomputeCentroids has stored a distance, the centroids never get
\* closer again, whatever the RTTs do (the ratchet of Vatic.cpp:361).
GapNeverShrinks ==
  [][maxCentDist # 0 => centroids'.second - centroids'.first
                          >= centroids.second - centroids.first]_clusterVars

\* A backlog that lies wholly at or below the first centroid reports no
\* congestion, one wholly at or above the second reports full congestion.
AlphaFollowsBacklog ==
  [][HasTwoCentroids =>
       /\ (\A i \in DOMAIN backlog' : Scale * backlog'[i] <= centroids.first)  => alpha' = 0
       /\ (\A i \in DOMAIN backlog' : Scale * backlog'[i] >= centroids.second) => alpha' = Scale
    ]_clusterVars

\* Means lie between the features they are means of, so a gap as wide as the
\* features of the path freezes the centroids for the rest of the run: a path
\* whose RTTs change within that range is judged by its old extremes.
WidestGapFreezes ==
  [][\A lo, hi \in 0 .. U32 - 1 :
       /\ centroids = [first |-> Scale * lo, second |-> Scale * hi]
       /\ maxCentDist = Scale * (hi - lo)
       /\ \A i \in DOMAIN backlog' : backlog'[i] \in lo .. hi
       => UNCHANGED centroids]_clusterVars
=============================================================================
