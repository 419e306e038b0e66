------------------------------- MODULE Totals -------------------------------
(***************************************************************************)
(* Sums and products of natural numbers, as the code forms them over rows, *)
(* keys, buckets or axes.  A sum is the size of a disjoint union, f[x]     *)
(* elements for every x, and a product the number of ways to choose one of *)
(* them for every x, so that what holds of both follows from facts about   *)
(* cardinality.                                                            *)
(***************************************************************************)
EXTENDS Naturals, FiniteSets

Parts(f, S) == UNION {{x} \X (1 .. f[x]) : x \in S}
Total(f, S) == Cardinality(Parts(f, S))

Picks(f, S) == {p \in [S -> UNION {1 .. f[x] : x \in S}] : \A x \in S : p[x] \in 1 .. f[x]}
Product(f, S) == Cardinality(Picks(f, S))
=============================================================================
