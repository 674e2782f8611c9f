---------------------------- MODULE TotalsProofs ----------------------------
(***************************************************************************)
(* What the proofs need of Total.  All terms have a common bound, which is *)
(* the length of the longest packet for the bytes in flight and the range  *)
(* of a uint32 for a cluster.                                              *)
(***************************************************************************)
EXTENDS Totals, FiniteSetTheorems, TLAPS

\* Terms that agree have the same sum, whatever the functions do elsewhere.
LEMMA TotalSame ==
  ASSUME NEW S, NEW f, NEW g, \A i \in S : f[i] = g[i]
  PROVE  Total(f, S) = Total(g, S)
<1>1. Units(f, S) = Units(g, S)  BY DEF Units
<1>2. QED  BY <1>1 DEF Total

\* Without terms the sum is zero.
LEMMA TotalEmpty ==
  ASSUME NEW f
  PROVE  Total(f, {}) = 0
<1>1. Units(f, {}) = {}  BY DEF Units
<1>2. QED  BY <1>1, FS_EmptySet DEF Total

\* The sum is a natural number, at most the number of terms times their bound.
LEMMA TotalUpper ==
  ASSUME NEW S, IsFiniteSet(S), NEW m \in Nat, NEW f, \A i \in S : f[i] \in 0 .. m
  PROVE  /\ IsFiniteSet(Units(f, S))
         /\ Total(f, S) \in Nat
         /\ Total(f, S) <= Cardinality(S) * m
<1>1. Units(f, S) \in SUBSET (S \X (1 .. m))  BY DEF Units
<1>2. IsFiniteSet(1 .. m) /\ Cardinality(1 .. m) = m  BY FS_Interval
<1>3. /\ IsFiniteSet(S \X (1 .. m))
      /\ Cardinality(S \X (1 .. m)) = Cardinality(S) * m
  BY <1>2, FS_Product
<1>4. /\ IsFiniteSet(Units(f, S))
      /\ Cardinality(Units(f, S)) <= Cardinality(S) * m
  BY <1>1, <1>3, FS_Subset
<1>5. QED  BY <1>4, FS_CardinalityType DEF Total

\* The sum is at least the number of terms times any lower bound of theirs.
LEMMA TotalLower ==
  ASSUME NEW S, IsFiniteSet(S), NEW m \in Nat, NEW f, \A i \in S : f[i] \in 0 .. m,
         NEW k \in Nat, \A i \in S : k <= f[i]
  PROVE  Cardinality(S) * k <= Total(f, S)
<1>1. (S \X (1 .. k)) \in SUBSET Units(f, S)
  <2>1. SUFFICES ASSUME NEW i \in S, NEW j \in 1 .. k
                 PROVE  <<i, j>> \in {i} \X (1 .. f[i])
    BY DEF Units
  <2>2. QED  BY <2>1
<1>2. IsFiniteSet(1 .. k) /\ Cardinality(1 .. k) = k  BY FS_Interval
<1>3. Cardinality(S \X (1 .. k)) = Cardinality(S) * k  BY <1>2, FS_Product
<1>4. IsFiniteSet(Units(f, S))  BY TotalUpper
<1>5. QED  BY <1>1, <1>3, <1>4, FS_Subset DEF Total

\* Fewer terms have a smaller sum.
LEMMA TotalSubset ==
  ASSUME NEW S, IsFiniteSet(S), NEW m \in Nat, NEW f, \A i \in S : f[i] \in 0 .. m,
         NEW T \in SUBSET S
  PROVE  Total(f, T) <= Total(f, S)
<1>1. Units(f, T) \in SUBSET Units(f, S)  BY DEF Units
<1>2. IsFiniteSet(Units(f, S))  BY TotalUpper
<1>3. QED  BY <1>1, <1>2, FS_Subset DEF Total

\* A new term adds its value, whatever bounds the others.
LEMMA FiniteInsert ==
  ASSUME NEW S, NEW f, IsFiniteSet(Units(f, S)),
         NEW x, x \notin S, NEW n \in Nat,
         NEW g, g[x] = n, \A i \in S : g[i] = f[i]
  PROVE  /\ IsFiniteSet(Units(g, S \union {x}))
         /\ Total(g, S \union {x}) = Total(f, S) + n
<1> DEFINE New == {x} \X (1 .. n)
<1>1. Units(g, S \union {x}) = Units(f, S) \union New  BY DEF Units
<1>2. Units(f, S) \cap New = {}  BY DEF Units
<1>3. Total(f, S) \in Nat  BY FS_CardinalityType DEF Total
<1>4. IsFiniteSet(New) /\ Cardinality(New) = n
  <2>1. IsFiniteSet(1 .. n) /\ Cardinality(1 .. n) = n  BY FS_Interval
  <2>2. IsFiniteSet({x}) /\ Cardinality({x}) = 1  BY FS_Singleton
  <2>3. IsFiniteSet(New) /\ Cardinality(New) = Cardinality({x}) * Cardinality(1 .. n)
    BY <2>1, <2>2, FS_Product
  <2>4. 1 * n = n  OBVIOUS
  <2>5. QED  BY <2>1, <2>2, <2>3, <2>4
<1>5. /\ IsFiniteSet(Units(f, S) \union New)
      /\ Cardinality(Units(f, S) \union New) = Total(f, S) + n - Cardinality({})
  BY <1>2, <1>4, FS_Union DEF Total
<1>6. Cardinality({}) = 0  BY FS_EmptySet
<1>7. Total(g, S \union {x}) = Cardinality(Units(f, S) \union New)  BY <1>1 DEF Total
<1> HIDE DEF New
<1>8. Total(g, S \union {x}) = Total(f, S) + n  BY <1>3, <1>5, <1>6, <1>7
<1>9. IsFiniteSet(Units(g, S \union {x}))  BY <1>1, <1>5
<1>10. QED  BY <1>8, <1>9

\* A new term adds its value to bounded ones.
LEMMA TotalInsert ==
  ASSUME NEW S, IsFiniteSet(S), NEW m \in Nat, NEW f, \A i \in S : f[i] \in 0 .. m,
         NEW x, x \notin S, NEW n \in Nat,
         NEW g, g[x] = n, \A i \in S : g[i] = f[i]
  PROVE  Total(g, S \union {x}) = Total(f, S) + n
<1>1. IsFiniteSet(Units(f, S))  BY TotalUpper
<1>2. QED  BY <1>1, FiniteInsert
=============================================================================
