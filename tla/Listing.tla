------------------------------- MODULE Listing -------------------------------
(***************************************************************************)
(* The lists a program gets by sorting a set or by filtering a list, said  *)
(* without recursion: the k-th entry is the one with k - 1 below it.       *)
(***************************************************************************)
EXTENDS Naturals, FiniteSets

Rank(x, S) == Cardinality({y \in S : y < x}) + 1

(* A finite set of numbers, in ascending order.                            *)
Sorted(S) == [k \in 1..Cardinality(S) |-> CHOOSE x \in S : Rank(x, S) = k]

(* The entries of s at the given positions, in the order of s.             *)
Sublist(s, at) == LET order == Sorted(at) IN [k \in 1..Cardinality(at) |-> s[order[k]]]

(* The entries of s that are in S.                                         *)
Where(s, S) == Sublist(s, {i \in DOMAIN s : s[i] \in S})
=============================================================================
