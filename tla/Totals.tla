------------------------------- MODULE Totals -------------------------------
(***************************************************************************)
(* Sums of natural numbers, as the two accumulation loops of vatic use     *)
(* them: the bytes in flight (Vatic.cpp:211-214, 246-256) and the RTTs of  *)
(* a cluster (Vatic.cpp:337-353).  A sum is the number of units in the     *)
(* disjoint union of the terms, so that what the proofs need of it (it is  *)
(* monotone, it is bounded by count * maximum) are facts about finite sets *)
(* and need no induction over the terms.                                   *)
(***************************************************************************)
EXTENDS Integers, FiniteSets

\* One pair <<i, k>> for each unit k of each term f[i], i \in S.
Units(f, S) == UNION {{i} \X (1 .. f[i]) : i \in S}

\* The sum of f[i] over i \in S, for a finite S and f[i] \in Nat.
Total(f, S) == Cardinality(Units(f, S))
=============================================================================
