------------------------------- MODULE Ordering -------------------------------
(***************************************************************************)
(* Sets of numbers in their order: what ORDER BY, sort_by_key and "the     *)
(* last one wins" mean of sequences and action ids.                        *)
(***************************************************************************)
EXTENDS Integers, FiniteSets

\* The last, or the first, of a set, if there is one.
Latest(S) == {i \in S : \A k \in S : k <= i}
Earliest(S) == {i \in S : \A k \in S : i <= k}
LastOf(S) == CHOOSE i \in Latest(S) : TRUE

\* How many of a set come up to a number, and the k-th of the set.
Rank(S, n) == Cardinality({m \in S : m <= n})
Nth(S, k) == CHOOSE n \in S : Rank(S, n) = k
===============================================================================
