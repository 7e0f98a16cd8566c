------------------------------- MODULE Lists -------------------------------
(***************************************************************************)
(* Array.prototype.filter, as the n-th of the elements kept: the form      *)
(* proofs can use, where a recursive definition needs an induction.        *)
(***************************************************************************)
EXTENDS Integers, Sequences, FiniteSets

\* The n-th smallest of a finite set of integers.
Nth(S, n) == CHOOSE i \in S : Cardinality({j \in S : j < i}) = n - 1

\* The elements of s at the places P, in their order.
ElementsAt(s, P) == [n \in 1..Cardinality(P) |-> s[Nth(P, n)]]

\* The elements of s that are in S, in their order.
Only(s, S) == ElementsAt(s, {i \in DOMAIN s : s[i] \in S})
=============================================================================
