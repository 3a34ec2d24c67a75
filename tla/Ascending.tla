----------------------------- MODULE Ascending -----------------------------
(* What a loop over a list picks out, in the order of the list: used where the   *)
(* positions it picks are known and the code appends what is at each of them.   *)
EXTENDS Integers, FiniteSets

\* The members of a finite set of integers from the least to the greatest.
Ascending(S) ==
  [k \in 1 .. Cardinality(S) |-> CHOOSE n \in S : Cardinality({m \in S : m <= n}) = k]
=============================================================================
