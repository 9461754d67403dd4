-------------------------------- MODULE Rows --------------------------------
(* Tables whose rows stand in the order in which they were inserted.       *)
EXTENDS Integers, Sequences, FiniteSets

\* The rows at the places K, in their order: what a deleteMany of the others
\* leaves.  It is SelectSeq by place, stated without recursion.
Kept(rows, K) ==
  LET place(n) == CHOOSE i \in K : Cardinality({j \in K : j <= i}) = n
  IN [n \in 1 .. Cardinality(K) |-> rows[place(n)]]
=============================================================================
