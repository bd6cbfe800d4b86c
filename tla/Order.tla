--------------------------------- MODULE Order ---------------------------------
(* Finite sets of numbers in order.  What a loop over positions that skips some of them *)
(* collects is the ascending sequence of the others.                                    *)
EXTENDS Naturals, FiniteSets, Functions

IsAscending(s) == \A j, k \in DOMAIN s : j < k => s[j] < s[k]

\* The members of S, the smallest first.
Ascending(S) == CHOOSE s \in [1..Cardinality(S) -> S] : Range(s) = S /\ IsAscending(s)
================================================================================
