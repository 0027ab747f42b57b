----------------------------- MODULE SortedSets -----------------------------
(* The elements of a finite set of numbers in order, and the elements of a *)
(* sequence without some, for definitions that proofs reason about.        *)
EXTENDS Integers, Sequences, FiniteSets

Sorted(S) == [k \in 1..Cardinality(S) |-> CHOOSE x \in S : Cardinality({y \in S : y <= x}) = k]

\* The sequence s without its elements in T.
Remaining(s, T) ==
    LET left == Sorted({i \in DOMAIN s : s[i] \notin T})
    IN  [k \in DOMAIN left |-> s[left[k]]]
=============================================================================
