-------------------------- MODULE RttClustersProofs --------------------------
(***************************************************************************)
(* The classifier for every backlog length, preprocessing policy and RTT:  *)
(* its types, the order of the centroids and the ratchet on their          *)
(* distance.  The argument: with first < second the labels cut the backlog *)
(* at an integer (LabelsAreACut), a mean lies between the bounds of its    *)
(* terms (MeanBounds), so the new means lie on both sides of the cut.      *)
(* Alpha at its extremes, and the gap that no RTT of the path can exceed,  *)
(* follow from the same bounds.                                            *)
(***************************************************************************)
EXTENDS RttClusters, TotalsProofs, SequenceTheorems

\* The inductive invariant.
ClustersInv == ClustersTypeOK /\ CentroidsOrdered /\ MaxDistTracksCentroids

-----------------------------------------------------------------------------
(* Arithmetic *)

\* A divisor times the quotient.
LEMMA ExactDivision ==
  ASSUME NEW n \in 1 .. BacklogLen
  PROVE  /\ Scale \div n \in Nat
         /\ n * (Scale \div n) = Scale
<1>1. Scale \in Nat /\ n \in Nat /\ n > 0 /\ Scale % n = 0
  BY ScaleAssumption, BacklogLenAssumption
<1>2. QED  BY <1>1

\* Multiplication by a natural number is monotone.
LEMMA MultMonotone ==
  ASSUME NEW q \in Nat, NEW a \in Nat, NEW b \in Nat, a <= b
  PROVE  q * a <= q * b /\ q * a \in Nat /\ q * b \in Nat
OBVIOUS

\* Multiplication by a positive number reflects and preserves the order.
LEMMA MultOrder ==
  ASSUME NEW q \in Nat \ {0}, NEW a \in Nat, NEW b \in Nat
  PROVE  q * a < q * b <=> a < b
OBVIOUS

-----------------------------------------------------------------------------
(* Backlogs, labels and means *)

\* What a backlog holds: between one and BacklogLen uint32 features.
IsBacklog(log) == /\ log \in Seq(0 .. U32 - 1)
                  /\ Len(log) \in 1 .. BacklogLen

\* The features of a backlog are uint32 values.
LEMMA BacklogElements ==
  ASSUME NEW log \in Seq(0 .. U32 - 1)
  PROVE  \A i \in 1 .. Len(log) : log[i] \in 0 .. U32 - 1
<1> DEFINE S == 0 .. U32 - 1
<1>1. log \in Seq(S)  OBVIOUS
<1> HIDE DEF S
<1>2. \A i \in 1 .. Len(log) : log[i] \in S  BY <1>1, ElementOfSeq
<1>3. QED  BY <1>2 DEF S

\* pop_back and push_front keep the backlog within its length.
LEMMA PushedType ==
  ASSUME ClustersTypeOK, NEW f \in 0 .. U32 - 1
  PROVE  IsBacklog(Pushed(f)) /\ Pushed(f) # <<>>
<1>1. backlog \in Seq(0 .. U32 - 1) /\ Len(backlog) \in Nat /\ Len(backlog) <= BacklogLen
  BY DEF ClustersTypeOK
<1>2. BacklogLen \in Nat /\ BacklogLen >= 1  BY BacklogLenAssumption
<1>3. CASE Len(backlog) = BacklogLen
  <2>1. Pushed(f) = <<f>> \o SubSeq(backlog, 1, Len(backlog) - 1)
    BY <1>3 DEF Pushed, Front
  <2>2. /\ SubSeq(backlog, 1, Len(backlog) - 1) \in Seq(0 .. U32 - 1)
        /\ Len(SubSeq(backlog, 1, Len(backlog) - 1)) = Len(backlog) - 1
    <3>1. \A i \in 1 .. Len(backlog) - 1 : backlog[i] \in 0 .. U32 - 1
      <4>1. 1 .. Len(backlog) - 1 \subseteq 1 .. Len(backlog)  BY <1>1
      <4>2. QED  BY <1>1, <4>1, BacklogElements
    <3>2. QED  BY <1>1, <1>2, <1>3, <3>1, SubSeqProperties
  <2>3. QED  BY <1>1, <1>2, <1>3, <2>1, <2>2 DEF IsBacklog
<1>4. CASE Len(backlog) # BacklogLen
  <2>1. Pushed(f) = <<f>> \o backlog  BY <1>4 DEF Pushed
  <2>2. QED  BY <1>1, <1>2, <1>4, <2>1 DEF IsBacklog
<1>5. QED  BY <1>3, <1>4

\* Every outcome of the preprocessing is a uint32.
LEMMA FeaturesType ==
  ASSUME NEW rtt \in Rtts, NEW f \in Features(rtt)
  PROVE  f \in 0 .. U32 - 1
<1>1. U32 \in Nat /\ U32 >= 2 /\ Rtts \subseteq 0 .. U32 - 1  BY RttsAssumption
<1>2. Exp(rtt) \in Nat /\ ExpOverflow \subseteq 0 .. U32 - 1  BY RttsAssumption
<1>3. CASE Preprocess = "EXP"  BY <1>1, <1>2, <1>3 DEF Features
<1>4. CASE Preprocess = "TANH"  BY <1>1, <1>4 DEF Features
<1>5. CASE Preprocess # "EXP" /\ Preprocess # "TANH"  BY <1>1, <1>5 DEF Features
<1>6. QED  BY <1>3, <1>4, <1>5

\* A cluster of a backlog is finite and no larger than the backlog.
LEMMA ClusterSize ==
  ASSUME NEW log, IsBacklog(log), NEW C \in SUBSET DOMAIN log
  PROVE  /\ IsFiniteSet(C)
         /\ Cardinality(C) \in 0 .. Len(log)
         /\ C # {} => Cardinality(C) \in 1 .. BacklogLen
<1>1. DOMAIN log = 1 .. Len(log) /\ Len(log) \in Nat /\ Len(log) <= BacklogLen
  BY DEF IsBacklog
<1>2. IsFiniteSet(1 .. Len(log)) /\ Cardinality(1 .. Len(log)) = Len(log)
  BY <1>1, FS_Interval
<1>3. IsFiniteSet(C) /\ Cardinality(C) <= Len(log)
  BY <1>1, <1>2, FS_Subset
<1>4. Cardinality(C) \in Nat /\ (Cardinality(C) = 0 <=> C = {})
  BY <1>3, FS_CardinalityType, FS_EmptySet
<1>5. QED  BY <1>1, <1>3, <1>4, BacklogLenAssumption

\* The mean of a cluster lies between any bounds of its features.
LEMMA MeanBounds ==
  ASSUME NEW log, IsBacklog(log), NEW C \in SUBSET DOMAIN log, C # {}, NEW old,
         NEW lo \in Nat, NEW hi \in Nat, hi < U32,
         \A i \in C : lo <= log[i] /\ log[i] <= hi
  PROVE  /\ Mean(log, C, old) \in Nat
         /\ Scale * lo <= Mean(log, C, old)
         /\ Mean(log, C, old) <= Scale * hi
<1> DEFINE n == Cardinality(C)
           q == Scale \div n
           t == Total(log, C)
<1>1. IsFiniteSet(C) /\ n \in 1 .. BacklogLen  BY ClusterSize
<1>2. n \in Nat /\ q \in Nat /\ n * q = Scale  BY <1>1, ExactDivision, BacklogLenAssumption
<1>3. \A i \in C : log[i] \in 0 .. hi
  <2>1. \A i \in DOMAIN log : log[i] \in Nat  BY RttsAssumption DEF IsBacklog
  <2>2. QED  BY <2>1
<1>4. t \in Nat /\ t <= n * hi /\ n * lo <= t  BY <1>1, <1>3, TotalUpper, TotalLower
<1>5. n * lo \in Nat /\ n * hi \in Nat  BY <1>2
<1>6. Mean(log, C, old) = q * t  BY DEF Mean
<1> HIDE DEF n, q, t
<1>7. q * (n * lo) <= q * t /\ q * t <= q * (n * hi) /\ q * t \in Nat
  BY <1>2, <1>4, <1>5, MultMonotone
<1>8. q * (n * lo) = Scale * lo /\ q * (n * hi) = Scale * hi  BY <1>2
<1>9. QED  BY <1>6, <1>7, <1>8

\* With ordered centroids the low label means "at most the integer k".
LEMMA LabelsAreACut ==
  ASSUME NEW log, IsBacklog(log),
         centroids.first \in Nat, centroids.second \in Nat,
         centroids.first < centroids.second
  PROVE  \E k \in Nat :
           /\ Scale * k < centroids.second
           /\ centroids.first < Scale * (k + 1)
           /\ \A i \in LowLabelled(log) : log[i] <= k
           /\ \A i \in DOMAIN log \ LowLabelled(log) : k + 1 <= log[i]
<1> DEFINE a == centroids.first
           b == centroids.second
           k == (a + b) \div (2 * Scale)
<1>1. Scale \in Nat /\ Scale > 0  BY ScaleAssumption
<1>2. /\ k \in Nat
      /\ (2 * Scale) * k <= a + b
      /\ a + b < (2 * Scale) * (k + 1)
  BY <1>1
<1> HIDE DEF k
<1>3. Scale * k \in Nat /\ Scale * (k + 1) \in Nat /\ k + 1 \in Nat  BY <1>1, <1>2
<1>4. (2 * Scale) * k = 2 * (Scale * k) /\ (2 * Scale) * (k + 1) = 2 * (Scale * (k + 1))
  BY <1>1, <1>2
<1>5. Scale * k < b /\ a < Scale * (k + 1)  BY <1>2, <1>3, <1>4
<1>6. ASSUME NEW i \in DOMAIN log
      PROVE  i \in LowLabelled(log) <=> log[i] <= k
  <2>1. log[i] \in Nat  BY <1>6, RttsAssumption DEF IsBacklog
  <2>2. Scale * log[i] \in Nat  BY <1>1, <2>1
  <2>3. i \in LowLabelled(log)
          <=> Distance(Scale * log[i], a) <= Distance(Scale * log[i], b)
    BY <1>6 DEF LowLabelled
  <2>4. Distance(Scale * log[i], a) <= Distance(Scale * log[i], b)
          <=> 2 * (Scale * log[i]) <= a + b
    BY <2>2 DEF Distance
  <2>5. ASSUME log[i] <= k  PROVE 2 * (Scale * log[i]) <= a + b
    <3>1. Scale * log[i] <= Scale * k  BY <1>1, <1>2, <2>1, <2>5, MultMonotone
    <3>2. QED  BY <3>1, <1>2, <1>3, <1>4, <2>2
  <2>6. ASSUME ~(log[i] <= k)  PROVE ~(2 * (Scale * log[i]) <= a + b)
    <3>1. k + 1 <= log[i]  BY <2>1, <2>6, <1>2
    <3>2. Scale * (k + 1) <= Scale * log[i]  BY <3>1, <1>1, <1>3, <2>1, MultMonotone
    <3>3. QED  BY <3>2, <1>2, <1>3, <1>4, <2>2
  <2>7. QED  BY <2>3, <2>4, <2>5, <2>6
<1>7. \A i \in LowLabelled(log) : log[i] <= k  BY <1>6 DEF LowLabelled
<1>8. \A i \in DOMAIN log \ LowLabelled(log) : k + 1 <= log[i]
  <2>1. \A i \in DOMAIN log : log[i] \in Nat  BY RttsAssumption DEF IsBacklog
  <2>2. QED  BY <1>2, <1>6, <2>1
<1>9. QED  BY <1>2, <1>5, <1>7, <1>8

-----------------------------------------------------------------------------
(* One recomputation *)

\* The mean of the low cluster, or the old centroid it keeps, stays below that
\* of the high cluster.
LEMMA MeansOrdered ==
  ASSUME NEW log, IsBacklog(log),
         centroids.first \in Nat, centroids.second \in Nat,
         centroids.first < centroids.second
  PROVE  LET means == Means(log, LowLabelled(log)) IN
           /\ means \in [first : Nat, second : Nat]
           /\ means.first < means.second
<1> DEFINE low  == LowLabelled(log)
           high == DOMAIN log \ low
           lowMean  == Mean(log, low, centroids.first)
           highMean == Mean(log, high, centroids.second)
<1>1. PICK k \in Nat : /\ Scale * k < centroids.second
                       /\ centroids.first < Scale * (k + 1)
                       /\ \A i \in low : log[i] <= k
                       /\ \A i \in high : k + 1 <= log[i]
  BY LabelsAreACut
<1>2. low \in SUBSET DOMAIN log /\ high \in SUBSET DOMAIN log  BY DEF LowLabelled
<1>3. \A i \in DOMAIN log : log[i] \in 0 .. U32 - 1  BY BacklogElements DEF IsBacklog
<1>4. Scale \in Nat \ {0} /\ U32 \in Nat \ {0, 1}  BY ScaleAssumption, RttsAssumption
<1>5. Scale * k \in Nat /\ Scale * (k + 1) \in Nat /\ Scale * k < Scale * (k + 1)
  BY <1>1, <1>4, MultOrder
<1> HIDE DEF low, high
<1>6. ASSUME low # {}  PROVE lowMean \in Nat /\ lowMean <= Scale * k
  <2> DEFINE hi == IF k < U32 THEN k ELSE U32 - 1
  <2>1. hi \in Nat /\ hi < U32 /\ hi <= k  BY <1>1, <1>4
  <2>2. \A i \in low : 0 <= log[i] /\ log[i] <= hi  BY <1>1, <1>2, <1>3, <1>4
  <2> HIDE DEF hi
  <2>3. lowMean \in Nat /\ lowMean <= Scale * hi  BY <1>2, <1>6, <2>1, <2>2, MeanBounds
  <2>4. Scale * hi <= Scale * k /\ Scale * hi \in Nat  BY <1>1, <1>4, <2>1, MultMonotone
  <2>5. QED  BY <1>5, <2>3, <2>4
<1>7. ASSUME high # {}  PROVE highMean \in Nat /\ Scale * (k + 1) <= highMean
  <2>1. U32 - 1 \in Nat /\ U32 - 1 < U32 /\ k + 1 \in Nat  BY <1>1, <1>4
  <2>2. \A i \in high : k + 1 <= log[i] /\ log[i] <= U32 - 1  BY <1>1, <1>2, <1>3, <1>4
  <2>3. QED  BY <1>2, <1>7, <2>1, <2>2, MeanBounds
<1>8. low = {} => lowMean = centroids.first  BY DEF Mean
<1>9. high = {} => highMean = centroids.second  BY DEF Mean
<1>10. low # {} \/ high # {}
  <2>1. 1 \in DOMAIN log  BY DEF IsBacklog
  <2>2. QED  BY <2>1 DEF high
<1> HIDE DEF lowMean, highMean
<1>11. lowMean \in Nat /\ highMean \in Nat /\ lowMean < highMean
  BY <1>1, <1>5, <1>6, <1>7, <1>8, <1>9, <1>10
<1>12. Means(log, low) = [first |-> lowMean, second |-> highMean]
  BY DEF Means, lowMean, highMean, high
<1>13. QED  BY <1>11, <1>12 DEF low

\* alpha is a share: no more entries are high than there are.
LEMMA AlphaIsShare ==
  ASSUME NEW log, IsBacklog(log), NEW low, UpdateAlpha(log, low)
  PROVE  alpha' \in 0 .. Scale
<1> DEFINE n == Len(log)
           q == Scale \div n
           h == Cardinality(DOMAIN log \ low)
<1>1. n \in 1 .. BacklogLen /\ n \in Nat  BY BacklogLenAssumption DEF IsBacklog
<1>2. q \in Nat /\ n * q = Scale /\ Scale \in Nat  BY <1>1, ExactDivision, ScaleAssumption
<1>3. h \in 0 .. n  BY ClusterSize
<1>4. alpha' = q * h  BY DEF UpdateAlpha
<1> HIDE DEF n, q, h
<1>5. q * h <= q * n /\ q * h \in Nat  BY <1>1, <1>2, <1>3, MultMonotone
<1>6. QED  BY <1>1, <1>2, <1>4, <1>5

-----------------------------------------------------------------------------
(* The invariant *)

\* The first and the second centroid: the latter on the side where it lies.
LEMMA SeedKeepsInv ==
  ASSUME ClustersInv, NEW f \in 0 .. U32 - 1, backlog' = Pushed(f), Seed(f)
  PROVE  ClustersInv'
<1> DEFINE c == centroids.first
           x == Scale * f
<1>1. IsBacklog(backlog') /\ backlog' # <<>>  BY PushedType DEF ClustersInv
<1>2. Scale \in Nat \ {0} /\ f \in Nat  BY ScaleAssumption, RttsAssumption
<1>3. x \in Nat /\ (10 * Scale) * f = 10 * x  BY <1>2
<1>4. /\ centroids \in [first : Nat \union {Invalid}, second : Nat \union {Invalid}]
      /\ maxCentDist \in Nat /\ alpha \in 0 .. Scale
      /\ centroids.second = Invalid
      /\ maxCentDist = 0
  BY DEF ClustersInv, ClustersTypeOK, MaxDistTracksCentroids, HasTwoCentroids, Seed
<1>5. maxCentDist' = 0 /\ alpha' = alpha /\ centroids' = Seeded(f)  BY <1>4 DEF Seed
<1> HIDE DEF x
<1>6. /\ centroids' \in [first : Nat, second : Nat \union {Invalid}]
      /\ centroids'.second # Invalid => centroids'.first < centroids'.second
  <2>1. CASE c = Invalid
    <3>1. centroids' = [centroids EXCEPT !.first = x]  BY <1>5, <2>1 DEF Seeded, x
    <3>2. QED  BY <1>3, <1>4, <3>1
  <2>2. CASE c # Invalid /\ 10 * x > 11 * c
    <3>1. centroids' = [first |-> c, second |-> x]  BY <1>3, <1>5, <2>2 DEF Seeded, x
    <3>2. QED  BY <1>3, <1>4, <2>2, <3>1
  <2>3. CASE c # Invalid /\ ~(10 * x > 11 * c) /\ 10 * x < 9 * c
    <3>1. centroids' = [first |-> x, second |-> c]  BY <1>3, <1>5, <2>3 DEF Seeded, x
    <3>2. QED  BY <1>3, <1>4, <2>3, <3>1
  <2>4. CASE c # Invalid /\ ~(10 * x > 11 * c) /\ ~(10 * x < 9 * c)
    <3>1. centroids' = centroids  BY <1>3, <1>5, <2>4 DEF Seeded, x
    <3>2. QED  BY <1>4, <2>4, <3>1
  <2>5. QED  BY <2>1, <2>2, <2>3, <2>4
<1>7. ClustersTypeOK'  BY <1>1, <1>4, <1>5, <1>6 DEF ClustersTypeOK, IsBacklog
<1>8. CentroidsOrdered'
  BY <1>1, <1>6 DEF CentroidsOrdered, HasTwoCentroids, Invalid
<1>9. MaxDistTracksCentroids'  BY <1>5 DEF MaxDistTracksCentroids
<1>10. QED  BY <1>7, <1>8, <1>9 DEF ClustersInv

\* A recomputation keeps both centroids or replaces both by ordered means and
\* stores their distance.
LEMMA ClassifyStep ==
  ASSUME ClustersInv, NEW log, IsBacklog(log), Classify(log)
  PROVE  /\ centroids.first \in Nat /\ centroids.second \in Nat
         /\ centroids.first < centroids.second
         /\ \/ UNCHANGED <<centroids, maxCentDist>>
            \/ /\ centroids' = Means(log, LowLabelled(log))
               /\ centroids' \in [first : Nat, second : Nat]
               /\ centroids'.first < centroids'.second
               /\ maxCentDist' = centroids'.second - centroids'.first
               /\ maxCentDist < maxCentDist'
         /\ alpha' \in 0 .. Scale
<1> DEFINE means == Means(log, LowLabelled(log))
<1>1. /\ centroids.first \in Nat /\ centroids.second \in Nat
      /\ centroids.first < centroids.second
  BY DEF ClustersInv, ClustersTypeOK, CentroidsOrdered, HasTwoCentroids, Classify
<1>2. means \in [first : Nat, second : Nat] /\ means.first < means.second
  BY <1>1, MeansOrdered
<1>3. RecomputeCentroids(log, LowLabelled(log)) /\ UpdateAlpha(log, LowLabelled(log))
  BY DEF Classify
<1>4. Distance(means.first, means.second) = means.second - means.first
  BY <1>2 DEF Distance
<1>5. \/ UNCHANGED <<centroids, maxCentDist>>
      \/ /\ centroids' = means
         /\ maxCentDist' = Distance(means.first, means.second)
         /\ maxCentDist < Distance(means.first, means.second)
  BY <1>3 DEF RecomputeCentroids
<1>6. alpha' \in 0 .. Scale  BY <1>3, AlphaIsShare
<1> HIDE DEF means
<1>7. QED  BY <1>1, <1>2, <1>4, <1>5, <1>6 DEF means

LEMMA ClassifyKeepsInv ==
  ASSUME ClustersInv, NEW f \in 0 .. U32 - 1, backlog' = Pushed(f), Classify(Pushed(f))
  PROVE  ClustersInv'
<1>1. IsBacklog(backlog') /\ backlog' # <<>>  BY PushedType DEF ClustersInv
<1>2. /\ centroids \in [first : Nat \union {Invalid}, second : Nat \union {Invalid}]
      /\ maxCentDist \in Nat
      /\ maxCentDist # 0 => maxCentDist = centroids.second - centroids.first
  BY DEF ClustersInv, ClustersTypeOK, MaxDistTracksCentroids
<1>3. /\ centroids.first \in Nat /\ centroids.second \in Nat
      /\ centroids.first < centroids.second
      /\ \/ UNCHANGED <<centroids, maxCentDist>>
         \/ /\ centroids' \in [first : Nat, second : Nat]
            /\ centroids'.first < centroids'.second
            /\ maxCentDist' = centroids'.second - centroids'.first
      /\ alpha' \in 0 .. Scale
  BY <1>1, ClassifyStep
<1>4. ClustersTypeOK'  BY <1>1, <1>2, <1>3 DEF ClustersTypeOK, IsBacklog
<1>5. CentroidsOrdered'  BY <1>1, <1>3 DEF CentroidsOrdered, HasTwoCentroids, Invalid
<1>6. MaxDistTracksCentroids'
  BY <1>2, <1>3 DEF MaxDistTracksCentroids, HasTwoCentroids, Invalid
<1>7. QED  BY <1>4, <1>5, <1>6 DEF ClustersInv

LEMMA ProcessRttKeepsInv ==
  ASSUME ClustersInv, NEW rtt \in Rtts, ProcessRtt(rtt)
  PROVE  ClustersInv'
<1>1. PICK f \in Features(rtt) :
        backlog' = Pushed(f) /\ (Seed(f) \/ Classify(Pushed(f)))
  BY DEF ProcessRtt
<1>2. f \in 0 .. U32 - 1  BY FeaturesType
<1>3. QED  BY <1>1, <1>2, SeedKeepsInv, ClassifyKeepsInv

LEMMA ClustersInitInv ==
  ASSUME ClustersInit  PROVE ClustersInv
<1>1. Scale \in Nat /\ Scale \div 2 \in 0 .. Scale  BY ScaleAssumption
<1>2. Len(<<>>) = 0 /\ <<>> \in Seq(0 .. U32 - 1)  OBVIOUS
<1>3. ClustersTypeOK  BY <1>1, <1>2, BacklogLenAssumption DEF ClustersInit, ClustersTypeOK
<1>4. CentroidsOrdered /\ MaxDistTracksCentroids
  BY DEF ClustersInit, CentroidsOrdered, MaxDistTracksCentroids, HasTwoCentroids
<1>5. QED  BY <1>3, <1>4 DEF ClustersInv

LEMMA ClustersStutter ==
  ASSUME ClustersInv, UNCHANGED clusterVars  PROVE ClustersInv'
BY DEF ClustersInv, ClustersTypeOK, CentroidsOrdered, MaxDistTracksCentroids,
       HasTwoCentroids, clusterVars

\* The classifier keeps its types, the order of its centroids and the meaning
\* of its stored distance (Vatic.cpp:279-317, 334-384), whatever the RTTs.
THEOREM ClustersInvariant == ClustersSpec => []ClustersInv
<1>1. ClustersInit => ClustersInv  BY ClustersInitInv
<1>2. ClustersInv /\ [ClustersNext]_clusterVars => ClustersInv'
  BY ProcessRttKeepsInv, ClustersStutter DEF ClustersNext
<1>3. QED  BY <1>1, <1>2, PTL DEF ClustersSpec

\* The classifier keeps its types: the backlog within its length, alpha in [0, 1].
THEOREM ClustersTypeCorrect == ClustersSpec => []ClustersTypeOK
<1>1. ClustersInv => ClustersTypeOK  BY DEF ClustersInv
<1>2. QED  BY <1>1, ClustersInvariant, PTL

\* The first centroid is always below the second (Vatic.cpp:291-299, 362).
THEOREM CentroidsStayOrdered == ClustersSpec => []CentroidsOrdered
<1>1. ClustersInv => CentroidsOrdered  BY DEF ClustersInv
<1>2. QED  BY <1>1, ClustersInvariant, PTL

\* m_maxCentDist is 0 or the distance of the centroids (Vatic.cpp:361-363).
THEOREM MaxDistIsTheirDistance == ClustersSpec => []MaxDistTracksCentroids
<1>1. ClustersInv => MaxDistTracksCentroids  BY DEF ClustersInv
<1>2. QED  BY <1>1, ClustersInvariant, PTL

\* Once a distance is stored the centroids never get closer (Vatic.cpp:361).
THEOREM Ratchet == ClustersSpec => GapNeverShrinks
<1>1. ASSUME ClustersInv, ClustersNext, maxCentDist # 0
      PROVE  centroids'.second - centroids'.first >= centroids.second - centroids.first
  <2>1. PICK rtt \in Rtts : ProcessRtt(rtt)  BY <1>1 DEF ClustersNext
  <2>2. PICK f \in Features(rtt) :
          backlog' = Pushed(f) /\ (Seed(f) \/ Classify(Pushed(f)))
    BY <2>1 DEF ProcessRtt
  <2>3. /\ HasTwoCentroids /\ maxCentDist = centroids.second - centroids.first
        /\ centroids.first \in Nat /\ centroids.second \in Nat \union {Invalid}
    BY <1>1 DEF ClustersInv, ClustersTypeOK, MaxDistTracksCentroids, CentroidsOrdered
  <2>4. Classify(Pushed(f)) /\ IsBacklog(Pushed(f))
    BY <1>1, <2>2, <2>3, FeaturesType, PushedType DEF Seed, HasTwoCentroids, ClustersInv
  <2>5. QED  BY <1>1, <2>3, <2>4, ClassifyStep DEF HasTwoCentroids, Invalid
<1>2. ClustersInv /\ [ClustersNext]_clusterVars
        => [maxCentDist # 0 => centroids'.second - centroids'.first
                                 >= centroids.second - centroids.first]_clusterVars
  BY <1>1
<1>3. ClustersSpec => [][ClustersNext]_clusterVars  BY DEF ClustersSpec
<1>4. QED  BY <1>2, <1>3, ClustersInvariant, PTL DEF GapNeverShrinks

-----------------------------------------------------------------------------
(* What a recomputation does to alpha and to the centroids *)

\* With two centroids a feature is classified.
LEMMA Classified ==
  ASSUME ClustersInv, HasTwoCentroids, ClustersNext
  PROVE  /\ Classify(backlog') /\ IsBacklog(backlog')
         /\ centroids.first \in Nat /\ centroids.second \in Nat
         /\ centroids.first < centroids.second
<1>1. PICK rtt \in Rtts : ProcessRtt(rtt)  BY DEF ClustersNext
<1>2. PICK f \in Features(rtt) :
        backlog' = Pushed(f) /\ (Seed(f) \/ Classify(Pushed(f)))
  BY <1>1 DEF ProcessRtt
<1>3. Classify(Pushed(f)) /\ IsBacklog(Pushed(f))
  BY <1>2, FeaturesType, PushedType DEF Seed, HasTwoCentroids, ClustersInv
<1>4. QED  BY <1>2, <1>3, ClassifyStep

\* A backlog at or below the first centroid has the low label, one at or above the
\* second the high one.
LEMMA ExtremeLabels ==
  ASSUME NEW log, IsBacklog(log), centroids.first \in Nat, centroids.second \in Nat,
         centroids.first < centroids.second
  PROVE  /\ (\A i \in DOMAIN log : Scale * log[i] <= centroids.first)
              => DOMAIN log \ LowLabelled(log) = {}
         /\ (\A i \in DOMAIN log : Scale * log[i] >= centroids.second)
              => DOMAIN log \ LowLabelled(log) = DOMAIN log
<1>1. ASSUME NEW i \in DOMAIN log  PROVE Scale * log[i] \in Nat
  <2>1. log[i] \in Nat  BY RttsAssumption DEF IsBacklog
  <2>2. QED  BY <2>1, ScaleAssumption
<1>2. ASSUME NEW x \in Nat
      PROVE  /\ x <= centroids.first =>
                  Distance(x, centroids.first) <= Distance(x, centroids.second)
             /\ x >= centroids.second =>
                  ~(Distance(x, centroids.first) <= Distance(x, centroids.second))
  BY DEF Distance
<1>3. QED  BY <1>1, <1>2 DEF LowLabelled

LEMMA AlphaExtremes ==
  ASSUME NEW log, IsBacklog(log), NEW low, UpdateAlpha(log, low)
  PROVE  /\ DOMAIN log \ low = {} => alpha' = 0
         /\ DOMAIN log \ low = DOMAIN log => alpha' = Scale
<1> DEFINE n == Len(log)
           q == Scale \div n
<1>1. n \in 1 .. BacklogLen /\ n \in Nat /\ DOMAIN log = 1 .. n
  BY BacklogLenAssumption DEF IsBacklog
<1>2. q \in Nat /\ n * q = Scale  BY <1>1, ExactDivision
<1>3. Cardinality({}) = 0 /\ Cardinality(1 .. n) = n  BY <1>1, FS_EmptySet, FS_Interval
<1>4. alpha' = q * Cardinality(DOMAIN log \ low)  BY DEF UpdateAlpha
<1> HIDE DEF n, q
<1>5. q * 0 = 0 /\ q * n = Scale  BY <1>1, <1>2
<1>6. QED  BY <1>1, <1>3, <1>4, <1>5

\* A backlog of low RTTs reports no congestion and one of high RTTs full congestion,
\* for every scale, length and path (Vatic.cpp:303-317, 372-384).
THEOREM AlphaIsRight == ClustersSpec => AlphaFollowsBacklog
<1>1. ASSUME ClustersInv, HasTwoCentroids, ClustersNext
      PROVE  /\ (\A i \in DOMAIN backlog' : Scale * backlog'[i] <= centroids.first)
                  => alpha' = 0
             /\ (\A i \in DOMAIN backlog' : Scale * backlog'[i] >= centroids.second)
                  => alpha' = Scale
  <2>1. /\ Classify(backlog') /\ IsBacklog(backlog')
        /\ centroids.first \in Nat /\ centroids.second \in Nat
        /\ centroids.first < centroids.second
    BY <1>1, Classified
  <2>2. UpdateAlpha(backlog', LowLabelled(backlog'))  BY <2>1 DEF Classify
  <2>3. QED  BY <2>1, <2>2, ExtremeLabels, AlphaExtremes
<1>2. ClustersInv /\ [ClustersNext]_clusterVars
        => [HasTwoCentroids =>
              /\ (\A i \in DOMAIN backlog' : Scale * backlog'[i] <= centroids.first)
                   => alpha' = 0
              /\ (\A i \in DOMAIN backlog' : Scale * backlog'[i] >= centroids.second)
                   => alpha' = Scale]_clusterVars
  BY <1>1
<1>3. ClustersSpec => [][ClustersNext]_clusterVars  BY DEF ClustersSpec
<1>4. QED  BY <1>2, <1>3, ClustersInvariant, PTL DEF AlphaFollowsBacklog

\* Both new means are within the bounds of the features and the old centroids.
LEMMA MeansWithin ==
  ASSUME NEW log, IsBacklog(log), NEW lo \in 0 .. U32 - 1, NEW hi \in 0 .. U32 - 1,
         centroids = [first |-> Scale * lo, second |-> Scale * hi],
         \A i \in DOMAIN log : log[i] \in lo .. hi
  PROVE  LET means == Means(log, LowLabelled(log)) IN
           Distance(means.first, means.second) <= Scale * (hi - lo)
<1> DEFINE low  == LowLabelled(log)
           high == DOMAIN log \ low
           lowMean  == Mean(log, low, centroids.first)
           highMean == Mean(log, high, centroids.second)
<1>1. lo \in Nat /\ hi \in Nat /\ hi < U32 /\ Scale \in Nat
  BY RttsAssumption, ScaleAssumption
<1>2. low \in SUBSET DOMAIN log /\ high \in SUBSET DOMAIN log  BY DEF LowLabelled
<1>3. \A i \in DOMAIN log : lo <= log[i] /\ log[i] <= hi
  <2>1. \A i \in DOMAIN log : log[i] \in lo .. hi  OBVIOUS
  <2>2. QED  BY <1>1, <2>1
<1>4. lo <= hi
  <2>1. 1 \in DOMAIN log /\ log[1] \in Nat  BY RttsAssumption DEF IsBacklog
  <2>2. QED  BY <1>1, <1>3, <2>1
<1>5. Scale * lo \in Nat /\ Scale * hi \in Nat /\ Scale * lo <= Scale * hi
  BY <1>1, <1>4, MultMonotone
<1>6. Scale * (hi - lo) = Scale * hi - Scale * lo  BY <1>1
<1> HIDE DEF low, high
<1>7. lowMean \in Nat /\ Scale * lo <= lowMean /\ lowMean <= Scale * hi
  <2>1. CASE low = {}  BY <1>5, <2>1 DEF Mean
  <2>2. CASE low # {}
    <3>1. \A i \in low : lo <= log[i] /\ log[i] <= hi  BY <1>2, <1>3
    <3>2. QED  BY <1>1, <1>2, <2>2, <3>1, MeanBounds
  <2>3. QED  BY <2>1, <2>2
<1>8. highMean \in Nat /\ Scale * lo <= highMean /\ highMean <= Scale * hi
  <2>1. CASE high = {}  BY <1>5, <2>1 DEF Mean
  <2>2. CASE high # {}
    <3>1. \A i \in high : lo <= log[i] /\ log[i] <= hi  BY <1>2, <1>3
    <3>2. QED  BY <1>1, <1>2, <2>2, <3>1, MeanBounds
  <2>3. QED  BY <2>1, <2>2
<1>9. Means(log, low) = [first |-> lowMean, second |-> highMean]
  BY DEF Means, high
<1> HIDE DEF lowMean, highMean
<1>10. Distance(lowMean, highMean) <= Scale * (hi - lo)
  BY <1>5, <1>6, <1>7, <1>8 DEF Distance
<1>11. QED  BY <1>9, <1>10 DEF low

\* A gap as wide as the path's features is never replaced: the classifier judges the
\* path by its old extremes, for every path (Vatic.cpp:361-366).
THEOREM WidestGapIsFinal == ClustersSpec => WidestGapFreezes
<1> DEFINE Frozen(lo, hi) ==
             /\ centroids = [first |-> Scale * lo, second |-> Scale * hi]
             /\ maxCentDist = Scale * (hi - lo)
             /\ \A i \in DOMAIN backlog' : backlog'[i] \in lo .. hi
<1>1. ASSUME ClustersInv, ClustersNext, NEW lo \in 0 .. U32 - 1, NEW hi \in 0 .. U32 - 1,
             Frozen(lo, hi)
      PROVE  UNCHANGED centroids
  <2>1. HasTwoCentroids
    <3>1. Scale * hi \in Nat  BY RttsAssumption, ScaleAssumption
    <3>2. QED  BY <1>1, <3>1 DEF HasTwoCentroids, Invalid
  <2>2. Classify(backlog') /\ IsBacklog(backlog')  BY <1>1, <2>1, Classified
  <2> DEFINE means == Means(backlog', LowLabelled(backlog'))
             dist  == Distance(means.first, means.second)
  <2>3. dist <= maxCentDist  BY <1>1, <2>2, MeansWithin
  <2>4. RecomputeCentroids(backlog', LowLabelled(backlog'))  BY <2>2 DEF Classify
  <2>5. maxCentDist < dist \/ UNCHANGED centroids  BY <2>4 DEF RecomputeCentroids
  <2>6. maxCentDist \in Nat /\ dist \in Int
    <3>1. means.first \in Nat /\ means.second \in Nat
      BY <1>1, <2>1, <2>2, Classified, MeansOrdered
    <3> HIDE DEF means
    <3>2. QED  BY <1>1, <3>1 DEF Distance, ClustersInv, ClustersTypeOK
  <2> HIDE DEF dist
  <2>7. QED  BY <2>3, <2>5, <2>6
<1>2. ClustersInv /\ [ClustersNext]_clusterVars
        => [\A lo, hi \in 0 .. U32 - 1 : Frozen(lo, hi) => UNCHANGED centroids]_clusterVars
  BY <1>1
<1>3. ClustersSpec => [][ClustersNext]_clusterVars  BY DEF ClustersSpec
<1>4. QED  BY <1>2, <1>3, ClustersInvariant, PTL DEF WidestGapFreezes
=============================================================================
