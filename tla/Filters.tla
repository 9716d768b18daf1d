------------------------------ MODULE Filters ------------------------------
(* A list comprehension with a condition, [x for x in q if ...] in Python   *)
(* and filter in JavaScript: SelectSeq, given the indices of what passes    *)
(* instead of the condition, so that facts about it can be proved.          *)
EXTENDS Naturals, FiniteSets, Sequences

Rank(I, i) == Cardinality({j \in I : j <= i})

\* The entries of q at the indices in I, in their order.
Filtered(q, I) ==
  [k \in 1..Cardinality(I) |-> q[CHOOSE i \in I : Rank(I, i) = k]]
=============================================================================
