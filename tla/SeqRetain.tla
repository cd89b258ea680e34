------------------------------ MODULE SeqRetain ------------------------------
(***************************************************************************)
(* Vec::retain and Iterator::filter: the elements of a sequence at some of *)
(* its positions, in order.  SelectSeq is opaque to the provers; this form *)
(* names the positions and is built from Cardinality and CHOOSE alone.     *)
(***************************************************************************)
EXTENDS Integers, Sequences, FiniteSets

\* How many of the positions I come no later than i, and the k-th of them.
Rank(I, i) == Cardinality({j \in I : j <= i})
Nth(I, k) == CHOOSE i \in I : Rank(I, i) = k

Retain(s, I) == [k \in 1..Cardinality(I) |-> s[Nth(I, k)]]
=============================================================================
